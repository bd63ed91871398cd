------------------------- MODULE MCJobOrchestrator -------------------------
(* Instances of JobOrchestrator for TLC. *)
EXTENDS JobOrchestrator, TLC
CONSTANTS j1, j2, a1, a2

Symmetric == Permutations(Jobs)
=============================================================================
