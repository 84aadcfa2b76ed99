---------------------------- MODULE MCCommitLog ----------------------------
(* The commit path on small instances. *)
EXTENDS CommitLog, TLC

Symmetry == Permutations(Threads) \cup Permutations(Words)
=============================================================================
