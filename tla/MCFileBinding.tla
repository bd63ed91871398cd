--------------------------- MODULE MCFileBinding ---------------------------
(* Two Jobs, two versions of the sources, two faults: enough for a crash after *)
(* the rename of one Job, an edit, a retry and a second fault in the retry.    *)
EXTENDS FileBinding, TLC
CONSTANTS j1, j2, v1, v2

Symmetric == Permutations(Jobs) \cup Permutations(Versions)
=============================================================================
