---------------------------- MODULE MCChunkNumbers ----------------------------
(* ChunkNumbers on a small instance. *)
EXTENDS ChunkNumbers

LeafSymmetry == Permutations(Leaves)
=============================================================================
