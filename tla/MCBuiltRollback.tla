-------------------------- MODULE MCBuiltRollback ---------------------------
(* BuiltRollback on a small instance. *)
EXTENDS BuiltRollback, TLC

RecordSymmetry == Permutations(Records)
=============================================================================
