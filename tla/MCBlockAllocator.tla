--------------------------- MODULE MCBlockAllocator ---------------------------
(* The block allocator on small files. *)
EXTENDS BlockAllocator

\* Any n of the threads, on a file of so many pages, with so many commits.
Setup(n, pages, commits, stale, ownfrees) ==
  {[threads |-> T, pages |-> pages, commits |-> commits,
    stale |-> stale, ownfrees |-> ownfrees] : T \in kSubset(n, Threads)}

\* Two transactions that follow the latest snapshot and split and coalesce three
\* pages; three transactions, also in old snapshots, that contend for one page.
MCSetups == Setup(2, 3, 2, FALSE, TRUE) \cup Setup(3, 1, 4, TRUE, FALSE)

\* Smaller workloads, each for one disagreement of the code with its comments.
EarlySetups == Setup(2, 2, 3, TRUE, FALSE)
UndoSetups == Setup(2, 1, 3, TRUE, TRUE)
FreeingSetups == Setup(2, 1, 2, FALSE, FALSE)
GrowSetups == Setup(2, 2, 2, FALSE, FALSE)
LateSetups == Setup(2, 1, 2, TRUE, FALSE)

Symmetry == Permutations(Threads)
===============================================================================
