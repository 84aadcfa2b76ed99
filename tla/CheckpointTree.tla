--------------------------- MODULE CheckpointTree ---------------------------
(***************************************************************************)
(* The tree of pages behind a checkpoint (sivfs_checkpoints.c) and how the *)
(* next checkpoint is built from the log by copying the path to each       *)
(* written page (sivfs_make_checkpoint.c).                                 *)
(*                                                                         *)
(* Levels count from the leaves: InoLevels levels select the file,         *)
(* FoffsetLevels - 1 select the page, level 0 is the page.  A page that    *)
(* was never written is the zero page of its level, shared by all trees,   *)
(* or missing above the levels that have one.                              *)
(*                                                                         *)
(* The threads of the collector and of the users are one step here each;   *)
(* CheckpointReclaim has their interleavings and one level of pages.       *)
(***************************************************************************)
EXTENDS Naturals, Sequences, FiniteSetsExt

CONSTANTS
  InoLevels,     \* SIVFS_CHECKPOINT_INO_LEVELS
  FoffsetLevels, \* SIVFS_CHECKPOINT_FOFFSET_LEVELS
  Fan,           \* SIVFS_CHECKPOINT_CHILDREN_PER_NODE, and words of a page
  MaxPages,      \* SIVFS_MAX_CHECKPOINT_PAGES, zero pages included
  Addrs,         \* the words that are written, [ino, pg, word]
  MaxWrites,     \* bound on the words of a write set
  MaxTs,         \* bound on master_ts
  MaxFailures,   \* bound on how often the kernel has no memory
  InvalidTs,     \* SIVFS_INVALID_TS
  Direct         \* at which checkpoints direct access is used

ASSUME TreeAssumption ==
  /\ InoLevels \in Nat \ {0} /\ FoffsetLevels \in Nat \ {0, 1} /\ Fan \in Nat \ {0, 1}
  /\ MaxTs \in Nat /\ InvalidTs \in Nat /\ MaxTs < InvalidTs
  /\ MaxWrites \in Nat /\ MaxFailures \in Nat /\ MaxPages \in Nat /\ MaxPages >= FoffsetLevels
  /\ Addrs \subseteq [ino : Nat, pg : Nat, word : 0..(Fan - 1)]
  /\ Direct \subseteq 0..MaxTs

VARIABLES
  log,      \* log[i]: the words written by entry i (none if it aborted)
  heap,     \* every page: [live, ts, obs, slots]
  cps,      \* the checkpoint inodes: cps[c] is [root, obs]
  latest,   \* latest_checkpoint
  reverse,  \* the timestamps with an entry in checkpoints_reverse
  entries,  \* what is handed to the collector, and how often
  make,     \* the checkpointer: [pc, next, root, at, left, stack]
  pinned,   \* the checkpoints that threads have checked out
  patched,  \* <<c, a>>: sivfs_prepare_direct_access_page returned success
  leaked,   \* pages of checkpoints that failed: "MEMORY LEAK" in the source
  failures, \* how often the kernel had no memory
  loaded    \* FALSE once the file system is gone

vars == <<log, heap, cps, latest, reverse, entries, make, pinned, patched, leaked, failures, loaded>>

Versions == 0..MaxTs
Top == InoLevels + FoffsetLevels - 1
Levels == 0..Top
Offsets == 0..(Fan - 1)

Null == 0
Zero(l) == l + 1
ZeroPages == {Zero(l) : l \in 0..(FoffsetLevels - 1)}
PageIds == 1..MaxPages
NotFreed == {Null} \cup ZeroPages

PageEntry(p) == [kind |-> "page", id |-> p]
InodeEntry(c) == [kind |-> "inode", id |-> c]
NoEntries == [e \in {} |-> 0]
With(E, objs) ==
  [e \in DOMAIN E \cup objs |-> (IF e \in DOMAIN E THEN E[e] ELSE 0) + (IF e \in objs THEN 1 ELSE 0)]

-----------------------------------------------------------------------------
(* Paths and pages.                                                        *)

\* 1 << (k * SIVFS_CHECKPOINT_NODE_SHIFT)
Power[k \in 0..Top] == IF k = 0 THEN 1 ELSE Fan * Power[k - 1]

\* sivfs_checkpoint_iter_init finds ino and file offset within the tree.
InRange(a) ==
  /\ a.ino \div Power[InoLevels - 1] < Fan
  /\ a.pg \div Power[FoffsetLevels - 2] < Fan

\* The offsets emitted by sivfs_checkpoint_iter_init: the slot taken from a
\* page of level l on the way to a.
Offset(a, l) ==
  IF l >= FoffsetLevels THEN (a.ino \div Power[l - FoffsetLevels]) % Fan
                        ELSE (a.pg \div Power[l - 1]) % Fan

\* sivfs_mk_zero_checkpoint_page: words of a leaf are 0; tables refer to the
\* zero page one level down, and are empty where there is none.
ZeroSlots(l) ==
  [i \in Offsets |-> IF l \in 1..FoffsetLevels THEN Zero(l - 1) ELSE Null]

\* sivfs_new_checkpoint_page
NewPage(ts, slots) == [live |-> TRUE, ts |-> ts, obs |-> InvalidTs, slots |-> slots]
FreePage == [live |-> FALSE, ts |-> 0, obs |-> 0, slots |-> [i \in Offsets |-> Null]]

\* _sivfs_init_zero_checkpoint_pages; the leaf is the kernel's ZERO_PAGE.
InitialHeap ==
  [p \in PageIds |-> IF p \in ZeroPages THEN NewPage(0, ZeroSlots(p - 1)) ELSE FreePage]

Live(h) == {p \in PageIds : h[p].live}

\* sivfs_put_checkpoint_page, of the pages in P.
Put(h, P) == [p \in PageIds |-> IF p \in P THEN FreePage ELSE h[p]]

\* sivfs_checkpoint_traverse_partial: the page at level l on the way to a.
PageAt(h, root, a, l) ==
  LET at[k \in Levels] ==
        IF k = Top THEN root
        ELSE IF at[k + 1] = Null THEN Null ELSE h[at[k + 1]].slots[Offset(a, k + 1)]
  IN at[l]

\* sivfs_read_checkpoint, of one word.
Read(h, root, a) ==
  LET leaf == PageAt(h, root, a, 0)
  IN IF leaf = Null THEN 0 ELSE h[leaf].slots[a.word]

\* __sivfs_checkpoint_root_free: the pages it visits and frees.
TreePages(h, root) ==
  LET below[k \in Levels] ==
        (IF k = Top THEN {root}
         ELSE {h[p].slots[i] : p \in below[k + 1], i \in Offsets}) \ NotFreed
  IN UNION {below[k] : k \in Levels}

-----------------------------------------------------------------------------
(* sivfs_apply_change_checkpoint                                           *)

\* Where memory runs out: when a page of some level is needed, or when the old
\* page is to be recorded as obsolete.
Failures == [kind : {"page", "obsolete"}, level : Levels]
NoFailure == [kind |-> "none", level |-> 0]

\* Variant of Owned: a page of any checkpoint may be written in place.
OwnedByAnyone(h, p, cts) == p \notin ZeroPages

\* The page at *root_ptr belongs to the checkpoint that is changed.  A zero
\* page passes for one of timestamp 0.
Owned(h, p, cts) == (IF p \in ZeroPages THEN 0 ELSE h[p].ts) = cts

\* Variant of EndLifetime: the lifetime ends where it began.
EndLifetimeAtBirth(h, p, cts) == [h EXCEPT ![p].obs = h[p].ts]

\* The old page is obsolete from the new checkpoint on.
EndLifetime(h, p, cts) == [h EXCEPT ![p].obs = cts]

\* One turn of the loop, for the page of level l on the way to a.  w is
\* [h, root, here, parent, olds, ok]: the heap, *root_page_ptr, the page in
\* *root_ptr, the page that holds *root_ptr (Null for the root), the pages
\* recorded as obsolete, and whether all went well.
CopyLevel(w, l, a, value, cts, f) ==
  LET old == w.here
      free == PageIds \ Live(w.h)
      reuse == old # Null /\ Owned(w.h, old, cts)
      obsolete == old \notin NotFreed /\ ~reuse
      new == IF reuse THEN old ELSE Min(free)
      slots == IF old = Null THEN ZeroSlots(l) ELSE w.h[old].slots
      marked == IF obsolete THEN EndLifetime(w.h, old, cts) ELSE w.h
      copied == IF reuse THEN w.h ELSE [marked EXCEPT ![new] = NewPage(cts, slots)]
      written == IF l = 0 /\ value # Null THEN [copied EXCEPT ![new].slots[a.word] = value]
                 ELSE copied
      revealed == IF w.parent = Null THEN written
                  ELSE [written EXCEPT ![w.parent].slots[Offset(a, l + 1)] = new]
  IN IF ~w.ok THEN w
     ELSE IF ~reuse /\ (free = {} \/ f = [kind |-> "page", level |-> l])
       THEN [w EXCEPT !.ok = FALSE]
     ELSE IF obsolete /\ f = [kind |-> "obsolete", level |-> l]
       THEN [w EXCEPT !.ok = FALSE, !.h = marked]
     ELSE [w EXCEPT !.h = revealed,
                    !.root = IF l = Top THEN new ELSE @,
                    !.here = IF l = 0 THEN Null ELSE revealed[new].slots[Offset(a, l)],
                    !.parent = new,
                    !.olds = IF obsolete THEN Append(@, old) ELSE @]

\* The whole walk.  value is Null for SIVFS_APPLY_CHANGE_CP_NOWRITE.
ApplyChange(h, root, a, value, cts, f) ==
  LET start == [h |-> h, root |-> root, here |-> root, parent |-> Null,
                olds |-> <<>>, ok |-> TRUE]
      walk[l \in Levels] ==
        CopyLevel(IF l = Top THEN start ELSE walk[l + 1], l, a, value, cts, f)
  IN walk[0]

-----------------------------------------------------------------------------
(* The system.                                                             *)

Idle == [pc |-> "idle", next |-> 0, root |-> Null, at |-> 0, left |-> {}, stack |-> <<>>]
Stopped == [Idle EXCEPT !.pc = "stopped"]

\* sivfs_init_shared_state: an empty checkpoint at time 0.
Init ==
  /\ log = <<>>
  /\ heap = InitialHeap
  /\ cps = [c \in {0} |-> [root |-> Null, obs |-> 0]]
  /\ latest = 0
  /\ reverse = {0}
  /\ entries = NoEntries
  /\ make = Idle
  /\ pinned = {} /\ patched = {} /\ leaked = {}
  /\ failures = 0
  /\ loaded = TRUE

\* A transaction that writes W commits, or aborts and leaves no writes.
Commit(W) ==
  /\ loaded /\ Len(log) < MaxTs
  /\ log' = Append(log, W)
  /\ UNCHANGED <<heap, cps, latest, reverse, entries, make, pinned, patched, leaked, failures, loaded>>

Checkout ==
  /\ loaded /\ latest \notin pinned
  /\ pinned' = pinned \cup {latest}
  /\ UNCHANGED <<log, heap, cps, latest, reverse, entries, make, patched, leaked, failures, loaded>>

Release(c) ==
  /\ c \in pinned
  /\ pinned' = pinned \ {c}
  /\ UNCHANGED <<log, heap, cps, latest, reverse, entries, make, patched, leaked, failures, loaded>>

\* sivfs_make_checkpoint up to the replay.  An inode or a stack that cannot be
\* allocated leaves everything as it was.
StartCheckpoint ==
  /\ loaded /\ make.pc = "idle" /\ Len(log) # latest
  /\ make' = [pc |-> "apply", next |-> Len(log), root |-> cps[latest].root,
              at |-> latest + 1, left |-> log[latest + 1], stack |-> <<>>]
  /\ UNCHANGED <<log, heap, cps, latest, reverse, entries, pinned, patched, leaked, failures, loaded>>

\* _sivfs_make_checkpoint goes to the next log entry.
NextEntry ==
  /\ make.pc = "apply" /\ make.left = {} /\ make.at < make.next
  /\ make' = [make EXCEPT !.at = @ + 1, !.left = log[make.at + 1]]
  /\ UNCHANGED <<log, heap, cps, latest, reverse, entries, pinned, patched, leaked, failures, loaded>>

\* Memory runs out, if yes holds, once more.
RunsOut(yes) ==
  /\ yes => failures < MaxFailures
  /\ failures' = IF yes THEN failures + 1 ELSE failures

\* error2 and error1 of sivfs_make_checkpoint for -ENOMEM: the pages that were
\* copied stay allocated, and the next commit wakes the thread to try again.
Fail(h) ==
  /\ heap' = h
  /\ leaked' = leaked \cup {p \in Live(h) : h[p].ts = make.next}
  /\ make' = Idle

\* -EINVAL and -EEXIST end the work of the thread: it spins until it is stopped.
Stop ==
  /\ leaked' = leaked \cup {p \in Live(heap) : heap[p].ts = make.next}
  /\ make' = Stopped

\* One word of the entry is applied.
ApplyWord(a, f) ==
  /\ make.pc = "apply" /\ a \in make.left /\ InRange(a) /\ RunsOut(f # NoFailure)
  /\ LET w == ApplyChange(heap, make.root, a, make.at, make.next, f)
     IN IF w.ok
        THEN /\ heap' = w.h
             /\ make' = [make EXCEPT !.root = w.root, !.left = @ \ {a}, !.stack = @ \o w.olds]
             /\ UNCHANGED leaked
        ELSE Fail(w.h)
  /\ UNCHANGED <<log, cps, latest, reverse, entries, pinned, patched, loaded>>

\* The word lies outside the tree: -EINVAL.
ApplyOutside(a) ==
  /\ make.pc = "apply" /\ a \in make.left /\ ~InRange(a)
  /\ Stop
  /\ UNCHANGED <<log, heap, cps, latest, reverse, entries, pinned, patched, failures, loaded>>

Replayed == make.pc = "apply" /\ make.left = {} /\ make.at = make.next

\* _sivfs_checkpoints_insert finds the timestamp taken: -EEXIST.
Exists == make.next \in reverse

\* _sivfs_checkpoints_remove
Remove(R, c) == R \ {c}

\* _sivfs_checkpoints_insert and sivfs_gc_mark_pages_obsoleted.
MarkObsoleted ==
  /\ Replayed
  /\ IF Exists
     THEN Stop /\ UNCHANGED <<reverse, cps, entries>>
     ELSE /\ reverse' = reverse \cup {make.next}
          /\ cps' = [cps EXCEPT ![latest].obs = make.next]
          /\ entries' = With(entries, {PageEntry(make.stack[i]) : i \in DOMAIN make.stack}
                                       \cup {InodeEntry(latest)})
          /\ make' = [make EXCEPT !.pc = "publish", !.stack = <<>>]
          /\ UNCHANGED leaked
  /\ UNCHANGED <<log, heap, latest, pinned, patched, failures, loaded>>

\* Variant of MarkFails: the entry in checkpoints_reverse is left behind.
MarkFailsKeepsEntry ==
  /\ Replayed /\ RunsOut(TRUE) /\ ~Exists
  /\ reverse' = reverse \cup {make.next}
  /\ cps' = [cps EXCEPT ![latest].obs = make.next]
  /\ Fail(heap)
  /\ UNCHANGED <<log, latest, entries, pinned, patched, loaded>>

\* Either call has no memory: error3 takes the entry out again.
MarkFails ==
  /\ Replayed /\ RunsOut(TRUE) /\ ~Exists
  /\ reverse' = Remove(reverse \cup {make.next}, make.next)
  /\ cps' = [cps EXCEPT ![latest].obs = make.next]
  /\ Fail(heap)
  /\ UNCHANGED <<log, latest, entries, pinned, patched, loaded>>

\* _sivfs_checkpoints_insert_finish
Publish ==
  /\ make.pc = "publish"
  /\ cps' = [c \in DOMAIN cps \cup {make.next} |->
              IF c = make.next THEN [root |-> make.root, obs |-> 0] ELSE cps[c]]
  /\ latest' = make.next
  /\ make' = Idle
  /\ UNCHANGED <<log, heap, reverse, entries, pinned, patched, leaked, failures, loaded>>

\* sivfs_gc_or_reassign_entry: the lifetime has ended and no checkpoint in it is
\* checked out.
Obsolete(e) ==
  LET from == IF e.kind = "page" THEN heap[e.id].ts ELSE e.id
      to == IF e.kind = "page" THEN heap[e.id].obs ELSE cps[e.id].obs
  IN to <= latest /\ \A c \in pinned : ~(from <= c /\ c < to)

IdsOf(kind, E) == {e.id : e \in {x \in E : x.kind = kind}}
Without(C) == [c \in DOMAIN cps \ C |-> cps[c]]

\* A pass of sivfs_gc_checkpoints.
Collect ==
  LET gone == {e \in DOMAIN entries : Obsolete(e)}
  IN /\ loaded /\ gone # {}
     /\ heap' = Put(heap, IdsOf("page", gone))
     /\ cps' = Without(IdsOf("inode", gone))
     /\ entries' = [e \in DOMAIN entries \ gone |-> entries[e]]
     /\ UNCHANGED <<log, latest, reverse, make, pinned, patched, leaked, failures, loaded>>

\* The fault of a thread with direct access on a page that is missing or zero:
\* sivfs_prepare_direct_access_page gives its checkpoint a page of its own.
\* Nobody else commits meanwhile, as direct access expects.
PrepareDirect(a, f) ==
  /\ loaded /\ latest \in Direct \cap pinned
  /\ make.pc = "idle" /\ Len(log) = latest /\ RunsOut(f # NoFailure)
  /\ InRange(a) /\ PageAt(heap, cps[latest].root, a, 0) \in NotFreed
  /\ LET w == ApplyChange(heap, cps[latest].root, a, Null, latest, f)
     IN /\ heap' = w.h
        /\ cps' = [cps EXCEPT ![latest].root = w.root]
        /\ entries' = With(entries, {PageEntry(w.olds[i]) : i \in DOMAIN w.olds})
        /\ patched' = IF w.ok THEN patched \cup {<<latest, a>>} ELSE patched
  /\ UNCHANGED <<log, latest, reverse, make, pinned, leaked, loaded>>

\* Variant of Unload: what waits in gc_blocked_entries is forgotten.
UnloadForgetsBlocked ==
  /\ loaded /\ make.pc \in {"idle", "stopped"} /\ pinned = {}
  /\ heap' = Put(heap, TreePages(heap, cps[latest].root) \cup ZeroPages)
  /\ cps' = Without({latest} \cup IdsOf("inode", DOMAIN entries))
  /\ entries' = NoEntries /\ reverse' = {} /\ loaded' = FALSE
  /\ UNCHANGED <<log, latest, make, pinned, patched, leaked, failures>>

\* sivfs_destroy_checkpoints, after the background threads have stopped.
Unload ==
  /\ loaded /\ make.pc \in {"idle", "stopped"} /\ pinned = {}
  /\ heap' = Put(heap, TreePages(heap, cps[latest].root) \cup ZeroPages
                         \cup IdsOf("page", DOMAIN entries))
  /\ cps' = Without({latest} \cup IdsOf("inode", DOMAIN entries))
  /\ entries' = NoEntries /\ reverse' = {} /\ loaded' = FALSE
  /\ UNCHANGED <<log, latest, make, pinned, patched, leaked, failures>>

WriteSets == UNION {kSubset(k, Addrs) : k \in 0..MaxWrites}

Next ==
  \/ \E W \in WriteSets : Commit(W)
  \/ Checkout
  \/ \E c \in Versions : Release(c)
  \/ StartCheckpoint
  \/ NextEntry
  \/ \E a \in Addrs, f \in Failures \cup {NoFailure} : ApplyWord(a, f)
  \/ \E a \in Addrs : ApplyOutside(a)
  \/ MarkObsoleted
  \/ MarkFails
  \/ Publish
  \/ Collect
  \/ \E a \in Addrs, f \in Failures \cup {NoFailure} : PrepareDirect(a, f)
  \/ Unload

Spec == Init /\ [][Next]_vars

-----------------------------------------------------------------------------
(* Properties.                                                             *)

Pages == [live : BOOLEAN, ts : Versions, obs : Versions \cup {InvalidTs},
          slots : [Offsets -> Nat]]

\* The pages with their timestamps, the checkpoints and the maker's stage have their
\* types: the life of a page begins at a checkpoint and ends at one or never.
TypeOK ==
  /\ log \in Seq(SUBSET Addrs) /\ Len(log) <= MaxTs
  /\ heap \in [PageIds -> Pages]
  /\ DOMAIN cps \subseteq Versions /\ latest \in Versions
  /\ reverse \subseteq Versions /\ pinned \subseteq Versions
  /\ make.pc \in {"idle", "apply", "publish", "stopped"}
  /\ leaked \subseteq PageIds /\ patched \subseteq Versions \X Addrs
  /\ failures \in 0..MaxFailures /\ loaded \in BOOLEAN

Held == IF loaded THEN pinned \cup {latest} ELSE {}

\* Every word that a tree can hold.
Words == [ino : 0..(Power[InoLevels] - 1), pg : 0..(Power[FoffsetLevels - 1] - 1), word : Offsets]
LastWrite(a, c) == Max({0} \cup {i \in 1..c : a \in log[i]})

\* Every checkpoint in use consists of allocated pages and reads, at every word,
\* as the log up to its timestamp: building, failing, patching and collecting
\* other checkpoints, with which it shares pages, never shows.  (The state has its
\* types.)
ReadsLog ==
  /\ TypeOK
  /\ \A c \in Held :
       /\ c \in DOMAIN cps
       /\ TreePages(heap, cps[c].root) \subseteq Live(heap)
       /\ \A a \in Words : Read(heap, cps[c].root, a) = LastWrite(a, c)

\* A page that is handed to the collector and belongs to a checkpoint in use has
\* that checkpoint in its lifetime, so that the collector, which sees lifetimes
\* and no trees, keeps it; and nothing is handed to it twice.
LifetimesHold ==
  /\ \A c \in Held : \A p \in TreePages(heap, cps[c].root) :
       PageEntry(p) \in DOMAIN entries => heap[p].ts <= c /\ c < heap[p].obs
  /\ \A e \in DOMAIN entries : entries[e] = 1

\* sivfs_destroy_checkpoints frees every page and inode, but for the pages of
\* checkpoints that failed.
AllFreed == ~loaded => Live(heap) = leaked /\ DOMAIN cps = {}

\* The checkpointer gives up only over a word that no tree has room for: after
\* memory ran out it can make the same checkpoint again.
MakerSurvives ==
  make.pc = "stopped" => \E i \in 1..Len(log) : \E a \in log[i] : ~InRange(a)

\* "Calling this will insert a non-zero checkpoint page at the file_ino:foffset
\* specified" (sivfs_make_checkpoint.c:228): a page prepared for direct access
\* is no zero page.
PatchedOwn ==
  \A x \in patched : x[1] \in Held =>
    PageAt(heap, cps[x[1]].root, x[2], 0) \notin NotFreed
=============================================================================
