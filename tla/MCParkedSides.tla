---------------------------- MODULE MCParkedSides ----------------------------
(* ParkedSides on a small instance. *)
EXTENDS ParkedSides, TLC

SideSymmetry == Permutations(Comments) \cup Permutations(Holders)
=============================================================================
