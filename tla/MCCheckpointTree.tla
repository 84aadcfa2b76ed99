------------------------- MODULE MCCheckpointTree -------------------------
(* Instances of CheckpointTree for TLC.                                    *)
EXTENDS CheckpointTree

\* Two words of a page, a second page of the file, another file in another
\* subtree, and a page that is one too far.
MCAddrs ==
  {[ino |-> 0, pg |-> 0, word |-> 0], [ino |-> 0, pg |-> 0, word |-> 1],
   [ino |-> 3, pg |-> 1, word |-> 0], [ino |-> 0, pg |-> 2, word |-> 0]}
MCDirect == 1..MaxTs
MCDirectFromTheStart == 0..MaxTs
=============================================================================
