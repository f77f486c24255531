---------------------------- MODULE MCScheduler ----------------------------
(* Scheduler on small sets for TLC. *)
EXTENDS Scheduler, TLC

MCJobSpecs == [id : JobIDs]

Symmetric == Permutations(Pickers)
=============================================================================
