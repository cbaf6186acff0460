---------------------------- MODULE MCVramAllocator ----------------------------
(* VramAllocator on small instances. *)
EXTENDS VramAllocator, TLC

MCSymmetry == Permutations(Hosts) \cup Permutations(Tensors)
=============================================================================
