--------------------------- MODULE MCTaskSession ---------------------------
(* Small instances of TaskSession for TLC.                                 *)
EXTENDS TaskSession, TLC

Symmetry == Permutations(Clients)
=============================================================================
