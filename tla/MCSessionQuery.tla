--------------------------- MODULE MCSessionQuery ---------------------------
(* One Job with one session and one client: every answer is about one session, *)
(* and the interleavings that matter are those of its two reads with the rest. *)
EXTENDS SessionQuery, TLC
CONSTANTS j1, s1, a1
=============================================================================
