--------------------------- MODULE BlockAllocator ---------------------------
(***************************************************************************)
(* The block allocator of a file (kern/alloc), which hands out ranges of   *)
(* pages to transactions.  A chunk carries the timestamp at which it was   *)
(* last freed, so that a transaction only reuses space that is also free   *)
(* in the snapshot it reads.  Allocations and frees are made at once and   *)
(* settled by a hook at the end of the commit ioctl, after the commit has  *)
(* become visible, one chunk at a time under alloc_info_lock.              *)
(*                                                                         *)
(* Offsets and sizes are counted in pages, so every chunk has at least a   *)
(* page and a page holds at most one boundary.  Running out of memory for  *)
(* a split leaves the chunks as they were and is not modelled.             *)
(*                                                                         *)
(* The library writes a header into the first word of every block that it  *)
(* allocates or frees (sivfs_malloc_ws, sivfs_free_ws); written holds the  *)
(* last commit of each such word, for the validation of kern's commit.     *)
(***************************************************************************)
EXTENDS Integers, FiniteSets, SequencesExt

CONSTANTS Threads,      \* threads with a sivfs_state, each in a transaction
          NPages,       \* pages of the file that may be allocated
          Sizes,        \* block sizes that are requested
          MaxTs,        \* bound on the number of commits
          Wild,         \* size of the wilderness chunk, (size_t)-1
          InvalidTs,    \* SIVFS_INVALID_TS
          None,         \* a null pointer
          Setups,       \* the workloads that are tried, see setup
          Prompt        \* a commit's hook runs before others see the commit

ASSUME BlockAssumption ==
  /\ NPages \in Nat \ {0} /\ Sizes \subseteq 1..NPages
  /\ MaxTs \in Nat /\ InvalidTs \in Nat /\ MaxTs < InvalidTs
  /\ Wild \in Nat /\ 2 * NPages < Wild
  /\ None \notin 0..NPages
  /\ Setups \subseteq [threads : SUBSET Threads, pages : 1..NPages, commits : 0..MaxTs,
                      stale : BOOLEAN, ownfrees : BOOLEAN]
  /\ Prompt \in BOOLEAN

VARIABLES
  setup,         \* the threads that run, bounds on the file and on the commits, and
                 \* whether transactions go on while others commit (stale) and also
                 \* free blocks that they have allocated (ownfrees)
  chunk,         \* the chunks, by their start: a function on a set of pages
  pginfo,        \* the chunks that end and start at the boundary in each page
  bestfit,       \* bestfit_list: the free chunks
  allocated,     \* allocated_chunks of each thread's transaction
  to_free,       \* alloc_chunks_to_free of each thread's transaction
  should_abort,  \* state->should_abort of each thread
  ts,            \* the snapshot each thread has checked out
  commit_ts,     \* the timestamp each thread's commit was given
  pc,            \* "run", or where the thread is in sivfs_allocation_on_commit
  master_ts,     \* the latest commit
  live,          \* by timestamp: the blocks the committed data refers to
  view,          \* the blocks each thread's transaction can refer to
  wrote,         \* the block headers each thread's transaction has written
  written        \* the last commit of each block header

heapVars == <<chunk, pginfo, bestfit>>
txnVars == <<allocated, to_free, should_abort, ts, commit_ts, pc, view, wrote>>
dataVars == <<master_ts, live, written>>
vars == <<heapVars, txnVars, dataVars, setup>>

Pages == 0..NPages
Times == 0..MaxTs
NoBoundary == [ends |-> None, starts |-> None]
Block == [start : Pages, size : 1..NPages]
PagesOf(b) == b.start .. (b.start + b.size - 1)
Busy(c) == c.allocated \/ c.freeing

\* sivfs_alloc_info_recover of a fresh file: all of it is wilderness.
Init ==
  /\ setup \in Setups
  /\ chunk = [c \in {0} |->
       [size |-> Wild, last_freed_ts |-> 0, allocated |-> FALSE, freeing |-> FALSE]]
  /\ pginfo = [[p \in Pages |-> NoBoundary] EXCEPT ![0].starts = 0]
  /\ bestfit = <<0>>
  /\ allocated = [t \in Threads |-> <<>>]
  /\ to_free = [t \in Threads |-> <<>>]
  /\ should_abort = [t \in Threads |-> FALSE]
  /\ ts = [t \in Threads |-> 0]
  /\ commit_ts = [t \in Threads |-> InvalidTs]
  /\ pc = [t \in Threads |-> "run"]
  /\ master_ts = 0
  /\ live = [i \in Times |-> {}]
  /\ view = [t \in Threads |-> {}]
  /\ wrote = [t \in Threads |-> {}]
  /\ written = [p \in Pages |-> 0]

-----------------------------------------------------------------------------
(* Allocation *)

\* Variant: a chunk freed just after the snapshot is taken to be visible.
VisibleOneLate(c, t) == ~c.allocated /\ c.last_freed_ts <= ts[t] + 1

\* sivfs_alloc_chunk_is_free_visible.
Visible(c, t) == ~c.allocated /\ c.last_freed_ts <= ts[t]

\* The first chunk of bestfit_list that t can take n pages from, the wilderness
\* only if there is no other.
Chosen(t, n) ==
  LET fits == {i \in DOMAIN bestfit :
                 LET c == chunk[bestfit[i]]
                 IN  c.size >= n /\ c.size # Wild /\ Visible(c, t)}
      wild == {c \in DOMAIN chunk : chunk[c].size = Wild}
  IN  IF fits # {} THEN bestfit[Min(fits)] ELSE CHOOSE c \in wild : TRUE

\* Variant: the chunk that is split off is taken to end where the whole ended,
\* but the boundary there still names the chunk that was split.
SplitKeepsEnd(c, n) ==
  LET rest == c + n
      size == IF chunk[c].size = Wild THEN Wild ELSE chunk[c].size - n
  IN  /\ chunk' = rest :> [chunk[c] EXCEPT !.size = size]
               @@ [chunk EXCEPT ![c].size = n, ![c].allocated = TRUE]
      /\ pginfo' = [pginfo EXCEPT ![rest] = [ends |-> c, starts |-> rest]]
      /\ bestfit' = <<rest>> \o Remove(bestfit, c)

\* Chunk c is cut to n pages and allocated, the rest is a new free chunk.
Split(c, n) ==
  LET rest == c + n
      size == IF chunk[c].size = Wild THEN Wild ELSE chunk[c].size - n
      cut == [pginfo EXCEPT ![rest] = [ends |-> c, starts |-> rest]]
  IN  /\ chunk' = rest :> [chunk[c] EXCEPT !.size = size]
               @@ [chunk EXCEPT ![c].size = n, ![c].allocated = TRUE]
      /\ pginfo' = IF size = Wild THEN cut
                   ELSE [cut EXCEPT ![rest + size].ends = rest]
      /\ bestfit' = <<rest>> \o Remove(bestfit, c)

\* sivfs_alloc_block: transaction t gets n pages, or the whole chunk unless more
\* than a page would be left over.
AllocBlock(t, n, c) ==
  /\ chunk[c].size = Wild => c + n <= setup.pages
  /\ IF chunk[c].size > n + 1
     THEN Split(c, n)
     ELSE /\ chunk' = [chunk EXCEPT ![c].allocated = TRUE]
          /\ bestfit' = Remove(bestfit, c)
          /\ UNCHANGED pginfo
  /\ allocated' = [allocated EXCEPT ![t] = <<c>> \o @]

\* Thread t is in user code, in its transaction.
Runs(t) == pc[t] = "run" /\ (setup.stale \/ ts[t] = master_ts)

\* The SIVFS_ALLOC_BLOCK ioctl for n pages, which tells the caller the block's
\* start and size; the caller then writes the header.
Alloc(t, n) ==
  LET c == Chosen(t, n)
  IN  /\ Runs(t)
      /\ AllocBlock(t, n, c)
      /\ view' = [view EXCEPT ![t] = @ \cup {[start |-> c, size |-> chunk'[c].size]}]
      /\ wrote' = [wrote EXCEPT ![t] = @ \cup {c}]
      /\ UNCHANGED <<to_free, should_abort, ts, commit_ts, pc, dataVars>>

\* Variant: a block is freed although it was freed since the snapshot was taken.
FreeUnchecked(t, c) ==
  IF c = None
  THEN /\ should_abort' = [should_abort EXCEPT ![t] = TRUE]
       /\ UNCHANGED <<chunk, to_free>>
  ELSE /\ chunk' = [chunk EXCEPT ![c].allocated = FALSE, ![c].freeing = TRUE]
       /\ to_free' = [to_free EXCEPT ![t] = <<c>> \o @]
       /\ UNCHANGED should_abort

\* sivfs_free_block of the chunk that starts at the offset given.  A block that
\* others have freed meanwhile makes the transaction abort.
FreeBlock(t, c) ==
  IF c = None \/ ~chunk[c].allocated \/ chunk[c].last_freed_ts > ts[t]
  THEN /\ should_abort' = [should_abort EXCEPT ![t] = TRUE]
       /\ UNCHANGED <<chunk, to_free>>
  ELSE /\ chunk' = [chunk EXCEPT ![c].allocated = FALSE, ![c].freeing = TRUE]
       /\ to_free' = [to_free EXCEPT ![t] = <<c>> \o @]
       /\ UNCHANGED should_abort

\* The SIVFS_FREE_BLOCK ioctl for a block that the transaction knows of, and whose
\* header the caller clears.
Free(t, b) ==
  /\ Runs(t)
  /\ setup.ownfrees \/ b.start \notin Range(allocated[t])
  /\ FreeBlock(t, pginfo[b.start].starts)
  /\ view' = [view EXCEPT ![t] = @ \ {b}]
  /\ wrote' = [wrote EXCEPT ![t] = @ \cup {b.start}]
  /\ UNCHANGED <<pginfo, bestfit, allocated, ts, commit_ts, pc, dataVars>>

-----------------------------------------------------------------------------
(* Freeing and coalescing, on a heap h that holds the chunks, the boundaries, *)
(* the free list, the pages that may still be coalesced, and the chunk at hand *)

\* Variant: an allocated chunk is coalesced with as well.
NextIfAllocated(h, c) ==
  LET n == h.pginfo[c + h.chunk[c].size].starts
  IN  IF n # None /\ ~h.chunk[n].freeing /\ h.chunk[n].size # Wild
         /\ h.chunk[n].size <= h.budget
      THEN n ELSE None

\* The free chunk after chunk c that sivfs_coalesce_with_next adds to it.
NextToMerge(h, c) ==
  LET n == h.pginfo[c + h.chunk[c].size].starts
  IN  IF n # None /\ ~Busy(h.chunk[n]) /\ h.chunk[n].size # Wild
         /\ h.chunk[n].size <= h.budget
      THEN n ELSE None

\* Chunk n becomes the end of chunk c and is released (sivfs_coalesce_with_next).
Merge(h, c, n) ==
  LET size == h.chunk[n].size
  IN  [h EXCEPT
         !.chunk = [x \in DOMAIN h.chunk \ {n} |->
                      IF x = c THEN [h.chunk[c] EXCEPT !.size = @ + size]
                      ELSE h.chunk[x]],
         !.pginfo = [@ EXCEPT ![n] = NoBoundary, ![n + size].ends = c],
         !.bestfit = Remove(@, n),
         !.budget = @ - size]

\* One turn of the loop over sivfs_coalesce_with_next; it does nothing once the
\* loop has ended.
MergeNext(h) ==
  LET n == NextToMerge(h, h.cur)
  IN  IF n = None THEN h ELSE Merge(h, h.cur, n)

\* One turn of the loop over sivfs_coalesce_with_prev, which goes on with the
\* chunk that was merged into.
MergePrev(h) ==
  LET p == h.pginfo[h.cur].ends
  IN  IF p = None \/ NextToMerge(h, p) # h.cur THEN h
      ELSE [Merge(h, p, h.cur) EXCEPT !.cur = p]

\* As many turns as there can be merges.
Loop(Turn(_), h) == FoldLeft(LAMBDA x, i : Turn(x), h, [i \in 1..NPages |-> i])

\* _sivfs_free_block: chunk c becomes free, as of cts if that is a timestamp, and
\* is coalesced with its neighbours up to four times its own size.
ReallyFree(c, cts) ==
  LET freed == [chunk[c] EXCEPT
                  !.last_freed_ts = IF cts # InvalidTs THEN cts ELSE @,
                  !.allocated = FALSE, !.freeing = FALSE]
      h == [chunk |-> [chunk EXCEPT ![c] = freed],
            pginfo |-> pginfo,
            bestfit |-> <<c>> \o bestfit,
            budget |-> 4 * freed.size,
            cur |-> c]
      merged == Loop(MergePrev, Loop(MergeNext, h))
  IN  /\ chunk' = merged.chunk
      /\ pginfo' = merged.pginfo
      /\ bestfit' = merged.bestfit

-----------------------------------------------------------------------------
(* The end of a transaction *)

Goto(t, to) == pc' = [pc EXCEPT ![t] = to]

\* No header that t wrote was committed by another since t's snapshot.
Unconflicted(t) == \A p \in wrote[t] : written[p] <= ts[t]

\* sivfs_commit_changes succeeds and publishes the commit; what t freed is no
\* longer referred to, and what it allocated is.
Publish(t) ==
  LET now == master_ts + 1
      before == live[ts[t]]
      gone == before \ view[t]
      new == view[t] \ before
  IN  /\ pc[t] = "run" /\ wrote[t] # {}
      /\ ~should_abort[t] /\ Unconflicted(t)
      /\ now <= setup.commits
      /\ master_ts' = now
      /\ live' = [live EXCEPT ![now] = (live[master_ts] \ gone) \cup new]
      /\ written' = [p \in Pages |-> IF p \in wrote[t] THEN now ELSE written[p]]
      /\ commit_ts' = [commit_ts EXCEPT ![t] = now]
      /\ Goto(t, "hook")
      /\ UNCHANGED <<heapVars, allocated, to_free, should_abort, ts, view, wrote>>

\* The commit ioctl finds that t is to abort, is told so by the user, or the
\* conflict in validation; or the thread exits and its state is destroyed.
Abort(t) ==
  /\ pc[t] = "run" /\ wrote[t] # {}
  /\ should_abort' = [should_abort EXCEPT ![t] = FALSE]
  /\ Goto(t, "unfree")
  /\ UNCHANGED <<heapVars, allocated, to_free, ts, commit_ts, view, wrote, dataVars>>

\* _sivfs_allocation_on_commit forgets the allocations, which now are committed.
ClearAllocated(t) ==
  /\ pc[t] = "hook"
  /\ allocated' = [allocated EXCEPT ![t] = <<>>]
  /\ Goto(t, "free")
  /\ UNCHANGED <<heapVars, to_free, should_abort, ts, commit_ts, view, wrote, dataVars>>

\* ... and then really frees what the transaction freed.
FreeNext(t) ==
  /\ pc[t] = "free" /\ to_free[t] # <<>>
  /\ ReallyFree(Head(to_free[t]), commit_ts[t])
  /\ to_free' = [to_free EXCEPT ![t] = Tail(@)]
  /\ UNCHANGED <<allocated, should_abort, ts, commit_ts, pc, view, wrote, dataVars>>

\* _sivfs_allocation_on_abort first undoes the frees: it keeps the flags, sets
\* the allocated one, and loses the timestamp.
UnfreeNext(t) ==
  /\ pc[t] = "unfree" /\ to_free[t] # <<>>
  /\ LET c == Head(to_free[t])
     IN  chunk' = [chunk EXCEPT ![c].last_freed_ts = 0, ![c].allocated = TRUE]
  /\ to_free' = [to_free EXCEPT ![t] = Tail(@)]
  /\ UNCHANGED <<pginfo, bestfit, allocated, should_abort, ts, commit_ts, pc, view,
                 wrote, dataVars>>

\* Variant: an allocation that is undone is only forgotten.
UnallocNextForgets(t) ==
  /\ pc[t] = "unfree" /\ to_free[t] = <<>> /\ allocated[t] # <<>>
  /\ allocated' = [allocated EXCEPT ![t] = Tail(@)]
  /\ UNCHANGED <<heapVars, to_free, should_abort, ts, commit_ts, pc, view, wrote, dataVars>>

\* ... and then frees what the transaction allocated.
UnallocNext(t) ==
  /\ pc[t] = "unfree" /\ to_free[t] = <<>> /\ allocated[t] # <<>>
  /\ ReallyFree(Head(allocated[t]), InvalidTs)
  /\ allocated' = [allocated EXCEPT ![t] = Tail(@)]
  /\ UNCHANGED <<to_free, should_abort, ts, commit_ts, pc, view, wrote, dataVars>>

\* The hook has ended, and the ioctl checks out the latest snapshot.  A thread
\* that has neither allocated nor freed gets there directly.
Checkout(t) ==
  /\ \/ pc[t] \in {"free", "unfree"} /\ to_free[t] = <<>> /\ allocated[t] = <<>>
     \/ pc[t] = "run" /\ wrote[t] = {} /\ ts[t] # master_ts
  /\ Prompt => \A u \in Threads \ {t} : pc[u] \notin {"hook", "free"}
  /\ ts' = [ts EXCEPT ![t] = master_ts]
  /\ view' = [view EXCEPT ![t] = live[master_ts]]
  /\ wrote' = [wrote EXCEPT ![t] = {}]
  /\ commit_ts' = [commit_ts EXCEPT ![t] = InvalidTs]
  /\ Goto(t, "run")
  /\ UNCHANGED <<heapVars, allocated, to_free, should_abort, dataVars>>

Next ==
  /\ \E t \in setup.threads :
       \/ \E n \in Sizes : Alloc(t, n)
       \/ \E b \in view[t] : Free(t, b)
       \/ Publish(t) \/ Abort(t)
       \/ ClearAllocated(t) \/ FreeNext(t) \/ UnfreeNext(t) \/ UnallocNext(t)
       \/ Checkout(t)
  /\ UNCHANGED setup

Spec == Init /\ [][Next]_vars

-----------------------------------------------------------------------------
(* Properties *)

\* The allocator's fields have their types: in particular only the wilderness is
\* without an end.
TypeOK ==
  /\ setup \in Setups
  /\ DOMAIN chunk \subseteq Pages
  /\ \A c \in DOMAIN chunk :
       chunk[c] \in [size : (1..NPages) \cup {Wild}, last_freed_ts : Times,
                     allocated : BOOLEAN, freeing : BOOLEAN]
  /\ pginfo \in [Pages -> [ends : Pages \cup {None}, starts : Pages \cup {None}]]
  /\ bestfit \in Seq(Pages)
  /\ \A t \in Threads :
       /\ allocated[t] \in Seq(Pages) /\ to_free[t] \in Seq(Pages)
       /\ view[t] \subseteq Block /\ wrote[t] \subseteq Pages
  /\ should_abort \in [Threads -> BOOLEAN]
  /\ ts \in [Threads -> Times]
  /\ commit_ts \in [Threads -> Times \cup {InvalidTs}]
  /\ pc \in [Threads -> {"run", "hook", "free", "unfree"}]
  /\ master_ts \in Times
  /\ live \in [Times -> SUBSET Block]
  /\ written \in [Pages -> Times]

\* The chunks cover the file without gap or overlap, and each page's record names
\* exactly the chunks that end and start in it.  (The state has its types.)
Tiled ==
  /\ TypeOK
  /\ 0 \in DOMAIN chunk
  /\ \A p \in Pages :
       /\ pginfo[p].starts = IF p \in DOMAIN chunk THEN p ELSE None
       /\ pginfo[p].ends # None <=> p \in DOMAIN chunk \ {0}
  /\ \A c \in DOMAIN chunk :
       IF chunk[c].size = Wild
       THEN \A d \in DOMAIN chunk : d <= c
       ELSE /\ c + chunk[c].size \in DOMAIN chunk
            /\ pginfo[c + chunk[c].size].ends = c
            /\ \A d \in DOMAIN chunk : ~(c < d /\ d < c + chunk[c].size)

\* A chunk is on bestfit_list, once, exactly while it is neither allocated nor
\* being freed; and a chunk waiting to be freed waits in one transaction, once.
\* The wilderness is on it for every snapshot: "we want the wilderness block to always
\* be allocatable for any threads (last_freed_ts stays at 0!)".
Listed ==
  LET times(s, c) == Cardinality({i \in DOMAIN s : s[i] = c})
      waits(c) == {w \in Threads \X (1..NPages + 1) :
                     w[2] \in DOMAIN to_free[w[1]] /\ to_free[w[1]][w[2]] = c}
  IN  /\ \A c \in Pages :
           /\ times(bestfit, c) = (IF c \in DOMAIN chunk /\ ~Busy(chunk[c]) THEN 1 ELSE 0)
           /\ Cardinality(waits(c)) <= 1
           /\ waits(c) # {} => c \in DOMAIN chunk /\ chunk[c].freeing /\ ~chunk[c].allocated
      /\ \E c \in Range(bestfit) : chunk[c].size = Wild /\ chunk[c].last_freed_ts = 0

\* The chunks that the transaction of t has allocated and not begun to give back.
Uncommitted(t) == {c \in Range(allocated[t]) : pc[t] # "unfree"}

\* No page of a block that the latest commit refers to, or that a transaction has
\* allocated and not given back, is on bestfit_list; and no two blocks that the latest
\* commit refers to overlap.
LiveKept ==
  LET new == UNION {Uncommitted(t) : t \in Threads}
      used == live[master_ts] \cup {[start |-> c, size |-> chunk[c].size] : c \in new}
  IN  /\ new \subseteq DOMAIN chunk
      /\ \A b \in used, c \in Range(bestfit) :
           ~(c <= b.start + b.size - 1 /\ b.start <= c + chunk[c].size - 1)
      /\ \A a, b \in live[master_ts] : a # b => PagesOf(a) \cap PagesOf(b) = {}

\* A chunk that is not free starts at a block that is referred to, or belongs to
\* a transaction that will settle it: no page is lost for good.
Accounted ==
  \A c \in DOMAIN chunk : Busy(chunk[c]) =>
    \/ \E b \in live[master_ts] : b.start = c
    \/ \E t \in Threads : c \in Range(allocated[t]) \cup Range(to_free[t])

\* A transaction is never given pages of a block that its own snapshot refers to:
\* last_freed_ts is there to defer the visibility of frees.
SnapshotKept ==
  [][\A t \in Threads : Len(allocated'[t]) > Len(allocated[t]) =>
       LET c == Head(allocated'[t])
       IN  \A b \in live[ts[t]] : PagesOf(b) \cap (c .. c + chunk'[c].size - 1) = {}]_vars

\* A chunk is flagged FREEING only while a transaction is about to free it: an
\* abort resets the flag.
FreeingWaits ==
  \A c \in DOMAIN chunk : chunk[c].freeing =>
    \E t \in Threads : c \in Range(to_free[t])

\* Free chunks are coalesced with free neighbours only: a chunk that is allocated
\* does not grow.
AllocatedKeepsSize ==
  [][\A c \in DOMAIN chunk \cap DOMAIN chunk' :
       chunk[c].allocated /\ chunk'[c].allocated => chunk'[c].size = chunk[c].size]_vars

\* A chunk's list node lh_bestfit is in one list at a time: bestfit_list, or the
\* allocated_chunks of one transaction.
OneList ==
  \A c \in DOMAIN chunk :
    Cardinality({t \in Threads : c \in Range(allocated[t])})
      + (IF c \in Range(bestfit) THEN 1 ELSE 0) <= 1
=============================================================================
