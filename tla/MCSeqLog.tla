------------------------------ MODULE MCSeqLog ------------------------------
(* The log on a few chunks of a few entries, with addresses that are reused. *)
EXTENDS SeqLog, TLC

Symmetry == Permutations(Chunks)
==============================================================================
