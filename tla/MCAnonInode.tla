----------------------------- MODULE MCAnonInode -----------------------------
(* Private inodes of a few tasks that share their files. *)
EXTENDS AnonInode, TLC

Symmetry == Permutations(Tasks) \cup Permutations(Inos)
==============================================================================
