----------------------------- MODULE WorkingSet -----------------------------
(***************************************************************************)
(* The pages that a thread has mapped, and how they are kept at the        *)
(* timestamp of its transaction (kern/inode.c, kern/sivfs_workingset.c,    *)
(* kern/sivfs_commit_update_checkpoints.c).  A page is either mapped from  *)
(* the checkpoint, read-only, or is a working set page of the thread's     *)
(* own: a copy of the checkpoint page with the log entries up to the       *)
(* thread's timestamp applied.  When the thread moves on, the log entries  *)
(* since its timestamp are applied to its working set pages and evict the  *)
(* checkpoint pages that they change.                                      *)
(*                                                                         *)
(* One thread is modelled in detail; the others commit log entries and     *)
(* checkpoints.  A word holds the timestamp of the commit that wrote it,   *)
(* or Own while the thread's transaction is in progress.                   *)
(***************************************************************************)
EXTENDS Integers, FiniteSets, FiniteSetsExt, Sequences

CONSTANTS
  Pages,
  Locs,         \* the words: pairs of a page and the word in it
  MaxTs,        \* bound on the length of the log
  MaxWrites,    \* bound on the words another thread writes in a commit
  Truncates,    \* whether files are truncated
  LossyReclaim, \* whether memory is short when a commit has failed
  Handlers,     \* whether a signal handler may run while a write is restarted
  Own, InvalidTs

ASSUME WorkingSetAssumption ==
  /\ \A l \in Locs : l[1] \in Pages
  /\ MaxTs \in Nat /\ MaxWrites \in Nat /\ Truncates \in BOOLEAN /\ LossyReclaim \in BOOLEAN
  /\ Handlers \in BOOLEAN
  /\ InvalidTs \notin Nat /\ Own \notin Nat

VARIABLES
  log,       \* the log entries: the words written and whether the commit aborted
  latest,    \* the timestamp of latest_checkpoint
  beyond,    \* the pages beyond the size of the file
  ts,        \* state->ts
  cp,        \* cp_ts of state->checkpoint
  kind,      \* how each page is mapped: not, from the checkpoint, or as the thread's own
  content,   \* what the words of the mapped pages hold
  own,       \* the write set: the words written by the transaction
  dirty,     \* the pages with the dirty bit
  store,     \* the word that the thread is about to write, or <<>>
  to_cow,    \* state->cp_page_to_cow
  ptl,       \* whether the thread holds the lock of a page table
  phase,     \* where the thread is in sivfs_commit_update
  commit     \* commit_ts, during the call

shared == <<log, latest, beyond>>
access == <<store, to_cow, ptl>>
vars == <<shared, ts, cp, kind, content, own, dirty, access, phase, commit>>

NoPage == <<>>         \* NULL
ZeroPage == <<"zero">> \* the page that stands for all pages never written
Entry == [writes : SUBSET Locs, aborted : BOOLEAN]
OnPage(W) == {l[1] : l \in W}

\* Contents c with those of the pages that are not mapped left out.
Mapped(c) == [l \in Locs |-> IF kind'[l[1]] = "none" THEN 0 ELSE c[l]]

Init ==
  /\ log = <<>> /\ latest = 0 /\ beyond = {}
  /\ ts = InvalidTs /\ cp = InvalidTs
  /\ kind = [p \in Pages |-> "none"]
  /\ content = [l \in Locs |-> 0]
  /\ own = {} /\ dirty = {} /\ store = <<>> /\ to_cow = NoPage /\ ptl = FALSE
  /\ phase = "run" /\ commit = InvalidTs

-----------------------------------------------------------------------------
(* Reading the log *)

\* The entries from a to b that write word l.
Writers(l, a, b) == {k \in a .. b : ~log[k].aborted /\ l \in log[k].writes}

\* Word l after the entries from a to b are applied to it, but not entry skip.
Apply(v, l, a, b, skip) ==
  LET K == Writers(l, a, b) \ {skip}
  IN  IF K = {} THEN v ELSE Max(K)

\* The pages that the entries from a to b write to, but not entry skip.
Modified(a, b, skip) ==
  OnPage({l \in Locs : Writers(l, a, b) \ {skip} # {}})

\* Word l in the checkpoint of timestamp c.
InCheckpoint(l, c) == Apply(0, l, 1, c, InvalidTs)

-----------------------------------------------------------------------------
(* Faults *)

\* sivfs_find_first_write finds one between the checkpoint and the transaction.
FindFirstWrite(p) == p \in Modified(cp + 1, ts, InvalidTs)

\* sivfs_fault_checkpoint: whether the page can be mapped from the checkpoint.  A page
\* that was never written has a page of zeros in the checkpoint or none.
FromCheckpoint(p) ==
  IF FindFirstWrite(p) THEN {FALSE}
  ELSE IF p \in Modified(1, cp, InvalidTs) THEN {TRUE} ELSE BOOLEAN

\* my_sivfs_update_page, or the copy of a checkpoint page.
Filled(p, copied) ==
  [l \in Locs |->
     IF l[1] # p THEN content[l]
     ELSE IF copied THEN InCheckpoint(l, cp)
     ELSE Apply(InCheckpoint(l, cp), l, cp + 1, ts, InvalidTs)]

\* The page of the checkpoint itself, which is a new one after each write to it.
CheckpointPage(p) ==
  LET K == {k \in 1 .. cp : p \in Modified(k, k, InvalidTs)}
  IN  IF K = {} THEN ZeroPage ELSE <<p, Max(K)>>

\* The thread is in user code, in a transaction, and not in the middle of a write
\* instruction unless a signal handler runs.
InTxn == phase = "run" /\ ts # InvalidTs
AtEase == phase = "run" /\ (store = <<>> \/ Handlers)
Touches(p) == IF AtEase THEN TRUE ELSE store[1] = p

\* Variant: the page to copy is not forgotten.
FaultKeepsCow(p) ==
  /\ InTxn /\ kind[p] = "none" /\ Touches(p) /\ ~ptl
  /\ \E c \in FromCheckpoint(p) :
       /\ kind' = [kind EXCEPT ![p] =
            IF c /\ to_cow # CheckpointPage(p) THEN "checkpoint" ELSE "own"]
       /\ content' = Filled(p, c)
  /\ UNCHANGED <<shared, ts, cp, own, dirty, access, phase, commit>>

\* sivfs_fault, on a read or on a write: a page of the checkpoint is mapped, or
\* copied if it is the one that sivfs_mkwrite asked to copy.
Fault(p) ==
  /\ InTxn /\ kind[p] = "none" /\ Touches(p) /\ ~ptl
  /\ \E c \in FromCheckpoint(p) :
       /\ kind' = [kind EXCEPT ![p] =
            IF c /\ to_cow # CheckpointPage(p) THEN "checkpoint" ELSE "own"]
       /\ content' = Filled(p, c)
  /\ to_cow' = NoPage
  /\ UNCHANGED <<shared, ts, cp, own, dirty, store, ptl, phase, commit>>

\* A write instruction on a page that is not the thread's own begins; it is
\* restarted after every fault.
BeginStore(l) ==
  /\ InTxn /\ AtEase /\ kind[l[1]] # "own"
  /\ store' = l
  /\ UNCHANGED <<shared, ts, cp, kind, content, own, dirty, to_cow, ptl, phase, commit>>

\* sivfs_mkwrite on a page of the checkpoint unmaps it and asks for a copy; if
\* another copy has been asked for the thread gets SIGBUS.
Mkwrite ==
  /\ InTxn /\ store # <<>> /\ kind[store[1]] = "checkpoint"
  /\ IF to_cow # NoPage
     THEN /\ phase' = "bus"
          /\ UNCHANGED <<kind, content, to_cow>>
     ELSE /\ to_cow' = CheckpointPage(store[1])
          /\ kind' = [kind EXCEPT ![store[1]] = "none"]
          /\ content' = Mapped(content)
          /\ UNCHANGED phase
  /\ UNCHANGED <<shared, ts, cp, own, dirty, store, ptl, commit>>

\* The write to a page of the thread's own; the first one makes the page dirty
\* (filemap_page_mkwrite).  The library adds the word to the write set.
Store(l) ==
  /\ InTxn /\ kind[l[1]] = "own" /\ (AtEase \/ store = l)
  /\ content' = [content EXCEPT ![l] = Own]
  /\ own' = own \cup {l}
  /\ dirty' = dirty \cup {l[1]}
  /\ store' = IF store = l THEN <<>> ELSE store
  /\ UNCHANGED <<shared, ts, cp, kind, to_cow, ptl, phase, commit>>

\* The kernel reclaims a working set page that is not dirty.
Reclaim(p) ==
  /\ kind[p] = "own" /\ p \notin dirty
  /\ p \in OnPage(own) => LossyReclaim
  /\ kind' = [kind EXCEPT ![p] = "none"] /\ content' = Mapped(content)
  /\ UNCHANGED <<shared, ts, cp, own, dirty, access, phase, commit>>

-----------------------------------------------------------------------------
(* my_sivfs_commit_update *)

\* sivfs_invalidate_workingset_log: the pages of the write set are unmapped, those
\* of which the inode is known.
Invalidated(W) == [p \in Pages |-> IF p \in OnPage(W) THEN "none" ELSE kind[p]]

\* The writes that sivfs_add_metadata_to_changes gives an inode: those before the
\* first one that is beyond the size of the file.
Tagged ==
  IF OnPage(own) \cap beyond = {} THEN {own}
  ELSE {W \in SUBSET own : OnPage(W) \cap beyond = {}}

\* Variant: the lock is also kept if the page is clean already.
KeepsLockIfClean(W) == \E p \in OnPage(W) : kind[p] = "none" \/ p \notin dirty

\* sivfs_add_metadata_to_changes takes the lock of the page table to clear the dirty
\* bit of a written page, and keeps it if the page is not mapped.
KeepsLock(W) == \E p \in OnPage(W) : kind[p] = "none"

\* sivfs_commit_changes, with the validation: a commit that conflicts is logged as
\* aborted.  The flag that add_metadata sets is not looked at.  Commits of a paused
\* thread, which has no pages, are in CommitLog.
Commit ==
  /\ AtEase /\ ~ptl /\ own # {} /\ ts # InvalidTs /\ Len(log) < MaxTs
  /\ \E W \in Tagged :
       LET conflict == \E l \in W : Writers(l, ts + 1, Len(log)) # {}
           next == Len(log) + 1
       IN  /\ log' = Append(log, [writes |-> W, aborted |-> conflict])
           /\ commit' = next
           /\ kind' = IF conflict THEN Invalidated(W) ELSE kind
           /\ content' = Mapped([l \in Locs |-> IF content[l] = Own THEN next ELSE content[l]])
           /\ dirty' = dirty \ OnPage(W)
           /\ ptl' = KeepsLock(W)
  /\ own' = {}
  /\ phase' = "checkout"
  /\ UNCHANGED <<latest, beyond, ts, cp, store, to_cow>>

\* sivfs_commit_changes returns an error, from a signal or for want of memory: the
\* dirty bits are cleared already.
CommitFails ==
  /\ AtEase /\ ~ptl /\ own # {} /\ ts # InvalidTs
  /\ \E W \in Tagged : dirty' = dirty \ OnPage(W) /\ ptl' = KeepsLock(W)
  /\ UNCHANGED <<shared, ts, cp, kind, content, own, store, to_cow, phase, commit>>

\* The user aborts.
Abort ==
  /\ AtEase /\ ~ptl /\ own # {} /\ ts # InvalidTs
  /\ \E W \in Tagged :
       /\ kind' = Invalidated(W) /\ content' = Mapped(content)
       /\ dirty' = dirty \ OnPage(W)
       /\ ptl' = KeepsLock(W)
  /\ own' = {}
  /\ phase' = "checkout"
  /\ UNCHANGED <<shared, ts, cp, store, to_cow, commit>>

\* A call with an empty write set.
OnlyUpdate ==
  /\ AtEase /\ own = {}
  /\ phase' = "checkout"
  /\ UNCHANGED <<shared, ts, cp, kind, content, own, dirty, access, commit>>

\* The latest checkpoint is checked out.
Checkout ==
  /\ phase = "checkout"
  /\ cp' = latest
  /\ phase' = "update"
  /\ UNCHANGED <<shared, ts, kind, content, own, dirty, access, commit>>

\* Variant: checkpoint pages that are modified stay mapped.
EvictedNone(next) == kind

\* sivfs_find_get_wspg evicts the checkpoint pages that the entries change.
Evicted(next) ==
  [p \in Pages |-> IF kind[p] = "checkpoint" /\ p \in Modified(ts + 1, next, commit)
                   THEN "none" ELSE kind[p]]

\* sivfs_update: the entries since the thread's timestamp are applied to its pages,
\* but not its own.
Update ==
  LET next == Len(log)
  IN  /\ phase = "update"
      /\ ts' = next
      /\ IF ts = InvalidTs
         THEN UNCHANGED <<kind, content>>
         ELSE /\ kind' = Evicted(next)
              /\ content' = Mapped([l \in Locs |->
                   IF kind[l[1]] = "own" THEN Apply(content[l], l, ts + 1, next, commit)
                   ELSE content[l]])
      /\ phase' = "run" /\ commit' = InvalidTs
      /\ UNCHANGED <<shared, cp, own, dirty, access>>

\* sivfs_ioctl_txn_pause, outside a transaction: all pages are unmapped.
Pause ==
  /\ AtEase /\ own = {} /\ ts # InvalidTs
  /\ kind' = [p \in Pages |-> "none"] /\ content' = Mapped(content)
  /\ ts' = InvalidTs /\ cp' = InvalidTs
  /\ UNCHANGED <<shared, own, dirty, access, phase, commit>>

-----------------------------------------------------------------------------
(* The other threads *)

\* A commit, or a truncation (sivfs_ftruncate) of the pages cut from the file: the size
\* is changed and zeros are committed.
\* An aborted entry would have written all words, which nobody may read.
OtherCommits(W, aborted, cut) ==
  /\ Len(log) < MaxTs
  /\ IF cut = {} THEN aborted \/ Cardinality(W) <= MaxWrites
     ELSE Truncates /\ ~aborted /\ W = {l \in Locs : l[1] \in cut}
  /\ log' = Append(log, [writes |-> W, aborted |-> aborted])
  /\ beyond' = beyond \cup cut
  /\ UNCHANGED <<latest, ts, cp, kind, content, own, dirty, access, phase, commit>>

\* A checkpoint of some timestamp is published.
CheckpointPublished ==
  /\ \E c \in latest + 1 .. Len(log) : latest' = c
  /\ UNCHANGED <<log, beyond, ts, cp, kind, content, own, dirty, access, phase, commit>>

Next ==
  \/ \E p \in Pages : Fault(p) \/ Reclaim(p)
  \/ \E l \in Locs : BeginStore(l) \/ Store(l)
  \/ Mkwrite
  \/ Commit \/ CommitFails \/ Abort \/ OnlyUpdate \/ Checkout \/ Update \/ Pause
  \/ \E W \in SUBSET Locs \ {{}}, cut \in SUBSET Pages : OtherCommits(W, FALSE, cut)
  \/ OtherCommits(Locs, TRUE, {})
  \/ CheckpointPublished

Spec == Init /\ [][Next]_vars

-----------------------------------------------------------------------------
(* Properties *)

\* The fields of the thread's state and of its pages have their types.
TypeOK ==
  /\ log \in Seq(Entry) /\ latest \in 0 .. Len(log) /\ beyond \subseteq Pages
  /\ ts \in 0 .. MaxTs \cup {InvalidTs} /\ cp \in 0 .. MaxTs \cup {InvalidTs}
  /\ kind \in [Pages -> {"none", "checkpoint", "own"}]
  /\ content \in [Locs -> 0 .. MaxTs \cup {Own}]
  /\ own \subseteq Locs /\ dirty \subseteq OnPage(own)
  /\ store \in Locs \cup {<<>>}
  /\ to_cow \in {NoPage, ZeroPage} \cup (Pages \X (1 .. MaxTs))
  /\ ptl \in BOOLEAN
  /\ phase \in {"run", "checkout", "update", "bus"}
  /\ commit \in 1 .. MaxTs \cup {InvalidTs}

\* A transaction reads its snapshot: whatever the page's history of faults, copies,
\* updates in place, aborts and reclaims, each word that is mapped holds what the
\* transaction wrote or else the last committed write up to its timestamp; and its
\* checkpoint is never ahead of it.  (The state has its types.)
ReadsSnapshot ==
  /\ TypeOK
  /\ phase = "run" /\ ts # InvalidTs =>
       /\ cp # InvalidTs /\ cp <= ts
       /\ \A l \in Locs : kind[l[1]] # "none" =>
            content[l] = IF l \in own THEN Own ELSE InCheckpoint(l, ts)

\* A write to a mapped page is served: sivfs_mkwrite never finds the copy that an
\* earlier write asked for still to be made, whatever the kernel reclaims and the
\* other threads commit between the faults of a write.
WritesServed == phase # "bus"

\* A commit gives back the lock of every page table that it takes: the pages of the
\* write set are mapped when it clears their dirty bits, also when it is tried again
\* after an error.  A lock that is kept makes the next fault wait for ever.
LocksReleased == ~ptl

\* A page with writes in progress stays mapped as the thread's own: "it keeps its
\* workingset and can continue to fault pages / try its writeset again later".
WritesStay == phase = "run" => \A p \in OnPage(own) : kind[p] = "own"

\* A transaction that wrote to a page now beyond the end of its file does not commit:
\* "This is not an error, but it does cause abort."
TruncatedAborts ==
  [][phase = "run" /\ phase' = "checkout" /\ OnPage(own) \cap beyond # {}
       => log' = log \/ log'[Len(log')].aborted]_vars
==============================================================================
