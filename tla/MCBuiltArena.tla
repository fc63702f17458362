---------------------------- MODULE MCBuiltArena ----------------------------
(* BuiltArena on a small instance. *)
EXTENDS BuiltArena, TLC

RecordSymmetry == Permutations(Records)
=============================================================================
