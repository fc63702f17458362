---------------------------- MODULE MCBuiltKeeps ----------------------------
(* BuiltKeeps on a small instance. *)
EXTENDS BuiltKeeps, TLC

RecordSymmetry == Permutations(Records)
=============================================================================
