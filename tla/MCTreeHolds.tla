----------------------------- MODULE MCTreeHolds -----------------------------
(* TreeHolds on a small instance. *)
EXTENDS TreeHolds, TLC

RecordSymmetry == Permutations(Records)
=============================================================================
