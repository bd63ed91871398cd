--------------------------- MODULE MCLandingRows ---------------------------
(* Two model calls and four rows: a call and its repetition or refusal on each *)
(* side of the ending, or both endings around a late row.                      *)
EXTENDS LandingRows
=============================================================================
