---------------------------- MODULE MCScheduler ----------------------------
(* Small instances of Scheduler for TLC.                                   *)
EXTENDS Scheduler, TLC

Symmetry == Permutations(Targets) \union Permutations(Workers)
=============================================================================
