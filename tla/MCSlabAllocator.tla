--------------------------- MODULE MCSlabAllocator ---------------------------
(* The allocator of small objects on a few blocks. *)
EXTENDS SlabAllocator

Symmetry == Permutations(Threads)
==============================================================================
