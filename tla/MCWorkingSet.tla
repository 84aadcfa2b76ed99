---------------------------- MODULE MCWorkingSet ----------------------------
(* Two pages, one with two words, so that others may write beside the thread. *)
EXTENDS WorkingSet

CONSTANTS p1, p2

MCLocs == {<<p1, 1>>, <<p1, 2>>, <<p2, 1>>}
==============================================================================
