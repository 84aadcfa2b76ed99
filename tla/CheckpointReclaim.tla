------------------------- MODULE CheckpointReclaim -------------------------
(***************************************************************************)
(* Publication, checkout and reclamation of checkpoints and of the log:    *)
(* sivfs_make_checkpoint, the double-read-lock of my_sivfs_commit_update,  *)
(* sivfs_gc_checkpoints and sivfs_gc_log.                                  *)
(*                                                                         *)
(* A checkpoint is an inode and a tree of pages; a new checkpoint copies   *)
(* the pages that were written since the previous one and shares the rest. *)
(* Every object, page or inode, is named by its slot and by the checkpoint *)
(* that made it.  It is of use to the checkpoints of its lifetime          *)
(* [birth, obsoleted).                                                     *)
(*                                                                         *)
(* Threads publish which checkpoint they use in checkpoint_ts and          *)
(* prior_checkpoint_ts.  The two collectors read latest_checkpoint_        *)
(* published first and those fields, one by one, afterwards; neither stops *)
(* a thread or the checkpointer.                                           *)
(*                                                                         *)
(* A commit is one step here: CommitLog shows that it looks like one.      *)
(***************************************************************************)
EXTENDS Naturals

CONSTANTS
  Threads,      \* the tasks whose sivfs_state is followed
  NoThread,
  Pages,        \* the slots of a checkpoint's tree
  Inode,        \* the slot of the checkpoint's inode
  Crews,        \* the sets of collectors that may run: of "pages" and "log"
  MaxTs,        \* bound on master_ts
  InvalidTs,    \* SIVFS_INVALID_TS
  None,         \* no group, no store in the store buffer
  Fenced,       \* is the validating read ordered after the store it follows
  WindowBegins, \* may a thread without a checkpoint begin while one is published
  Failures,     \* may memory run out in the background threads
  DirectAccess  \* the crews beside which threads ask for SIVFS_DIRECT_ACCESS

ASSUME ReclaimAssumption ==
  /\ MaxTs \in Nat /\ InvalidTs \in Nat /\ MaxTs < InvalidTs
  /\ Inode \notin Pages /\ NoThread \notin Threads /\ None \notin Nat
  /\ Crews \subseteq SUBSET {"pages", "log"} /\ DirectAccess \subseteq Crews
  /\ Fenced \in BOOLEAN /\ Failures \in BOOLEAN /\ WindowBegins \in BOOLEAN

VARIABLES
  master_ts,
  writes,     \* writes[i]: the pages written by log entry i (none if aborted)
  log,        \* the timestamps whose entries exist
  latest_ts, latest_cp, \* latest_checkpoint: its two fields
  published,  \* latest_checkpoint_published
  tree,       \* tree[c][s]: birth of the object in slot s of checkpoint c
  obsoleted,  \* obsoleted[o]: obsoleted_ts of object o
  alive,      \* the objects that are allocated
  obsoleted_entries, \* objects handed to the collector and not yet taken
  group,      \* gc_blocked_entries: the group each object is in, or None
  make,       \* the checkpointer: [pc, next]
  gc,         \* gc[c]: a collector of the crew: [pc, ms, todo, half, versions]
  pc,         \* where each thread is in my_sivfs_commit_update
  ts,         \* state->ts
  checkpoint, \* state->checkpoint: the timestamp of the inode, or None
  checkpoint_ts, prior_checkpoint_ts,
  buffer,     \* a store to checkpoint_ts not yet visible to others, or None
  loc,        \* the local checkpoint_ts
  next_ts,    \* the local next_ts
  direct,     \* state->direct_access
  mapped      \* the checkpoint pages mapped into the thread's memory

sharedVars == <<master_ts, writes, log>>
latestVars == <<latest_ts, latest_cp, published>>
objectVars == <<tree, obsoleted, alive, obsoleted_entries, group>>
pinVars == <<checkpoint_ts, prior_checkpoint_ts, buffer>>
threadVars == <<pc, ts, checkpoint, loc, next_ts, direct, mapped>>
vars == <<sharedVars, latestVars, objectVars, make, gc, pinVars, threadVars>>

Ts == 1..MaxTs
Versions == 0..MaxTs
AnyTs == Versions \cup {InvalidTs}
Slots == Pages \cup {Inode}
Objects == Slots \X Versions

Written(lo, hi) == UNION {writes[i] : i \in {j \in Ts : lo < j /\ j <= hi}}
Entries(lo, hi) == {i \in Ts : lo < i /\ i <= hi}
TreeOf(c) == {<<s, tree[c][s]>> : s \in Slots}
Goto(t, to) == pc' = [pc EXCEPT ![t] = to]

\* The call returns and its locals are gone.
ReturnFrom(t) ==
  /\ Goto(t, "idle")
  /\ loc' = [loc EXCEPT ![t] = 0]
  /\ next_ts' = [next_ts EXCEPT ![t] = 0]

AsksDirect == DOMAIN gc \in DirectAccess

Resting == [pc |-> "idle", ms |-> 0, todo |-> {}, half |-> NoThread, versions |-> {}]

Init ==
  /\ master_ts = 0
  /\ writes = [i \in Ts |-> {}]
  /\ log = {}
  /\ latest_ts = 0 /\ latest_cp = 0 /\ published = 0
  /\ tree = [c \in Versions |-> [s \in Slots |-> 0]]
  /\ obsoleted = [o \in Objects |-> InvalidTs]
  /\ alive = Slots \X {0}
  /\ obsoleted_entries = {}
  /\ group = [o \in Objects |-> None]
  /\ make = [pc |-> "idle", next |-> 0]
  /\ gc \in {[c \in crew |-> Resting] : crew \in Crews}
  /\ pc = [t \in Threads |-> "idle"]
  /\ ts = [t \in Threads |-> InvalidTs]
  /\ checkpoint = [t \in Threads |-> None]
  /\ checkpoint_ts = [t \in Threads |-> InvalidTs]
  /\ prior_checkpoint_ts = [t \in Threads |-> InvalidTs]
  /\ buffer = [t \in Threads |-> None]
  /\ loc = [t \in Threads |-> 0]
  /\ next_ts = [t \in Threads |-> 0]
  /\ direct = [t \in Threads |-> FALSE]
  /\ mapped = [t \in Threads |-> {}]

-----------------------------------------------------------------------------
(* Threads.                                                                *)

\* sivfs_commit_changes, up to the new master_ts: a log entry with the pages W
\* it wrote, none if validation failed.
NewEntry(W) ==
  /\ master_ts < MaxTs
  /\ master_ts' = master_ts + 1
  /\ writes' = [writes EXCEPT ![master_ts + 1] = W]
  /\ log' = log \cup {master_ts + 1}

\* A thread commits the pages it wrote, in which its own copies took the place
\* of the checkpoint's, and goes on to choose its next snapshot.
Commit(t, W) ==
  /\ pc[t] = "idle" /\ ts[t] # InvalidTs /\ ~direct[t]
  /\ NewEntry(W)
  /\ mapped' = [mapped EXCEPT ![t] = {o \in @ : o[1] \notin W}]
  /\ Goto(t, "latest")
  /\ UNCHANGED <<latestVars, objectVars, make, gc, pinVars,
                 ts, checkpoint, loc, next_ts, direct>>

\* A thread not in Threads commits.  Its pins would only hold collectors back.
CommitElsewhere(W) ==
  /\ NewEntry(W)
  /\ UNCHANGED <<latestVars, objectVars, make, gc, pinVars, threadVars>>

\* The first read of latest_checkpoint.ts.  The checkpoint held is kept when
\* its timestamp is the one read, whatever that is.
ReadLatest(t) ==
  /\ pc[t] \in {"idle", "latest"}
  /\ latest_ts = InvalidTs /\ checkpoint_ts[t] = InvalidTs => WindowBegins
  /\ loc' = [loc EXCEPT ![t] = latest_ts]
  /\ Goto(t, IF checkpoint_ts[t] = latest_ts THEN "master" ELSE "pointer")
  /\ UNCHANGED <<sharedVars, latestVars, objectVars, make, gc, pinVars,
                 ts, checkpoint, next_ts, direct, mapped>>

ReadPointer(t) ==
  /\ pc[t] = "pointer"
  /\ checkpoint' = [checkpoint EXCEPT ![t] = latest_cp]
  /\ Goto(t, "pin")
  /\ UNCHANGED <<sharedVars, latestVars, objectVars, make, gc, pinVars,
                 ts, loc, next_ts, direct, mapped>>

\* The store to state->checkpoint_ts enters the store buffer of the core.
Pin(t) ==
  /\ pc[t] = "pin"
  /\ buffer' = [buffer EXCEPT ![t] = loc[t]]
  /\ Goto(t, "check")
  /\ UNCHANGED <<sharedVars, latestVars, objectVars, make, gc, checkpoint_ts,
                 prior_checkpoint_ts, ts, checkpoint, loc, next_ts, direct, mapped>>

\* The core makes the store visible to other cores.
DrainStore(t) ==
  /\ buffer[t] # None
  /\ checkpoint_ts' = [checkpoint_ts EXCEPT ![t] = buffer[t]]
  /\ buffer' = [buffer EXCEPT ![t] = None]
  /\ UNCHANGED <<sharedVars, latestVars, objectVars, make, gc, prior_checkpoint_ts,
                 threadVars>>

\* The validating read of latest_checkpoint.ts.  On x86 the read may be
\* satisfied while the store is still buffered; Fenced forbids it.
Check(t) ==
  /\ pc[t] = "check"
  /\ Fenced => buffer[t] = None
  /\ Goto(t, IF latest_ts = loc[t] /\ loc[t] # InvalidTs THEN "master" ELSE "reload")
  /\ UNCHANGED <<sharedVars, latestVars, objectVars, make, gc, pinVars,
                 ts, checkpoint, loc, next_ts, direct, mapped>>

\* The dirty read: latest_checkpoint.ts is read again.
Reload(t) ==
  /\ pc[t] = "reload" /\ buffer[t] = None
  /\ loc' = [loc EXCEPT ![t] = latest_ts]
  /\ Goto(t, "pointer")
  /\ UNCHANGED <<sharedVars, latestVars, objectVars, make, gc, pinVars,
                 ts, checkpoint, next_ts, direct, mapped>>

ReadMaster(t) ==
  /\ pc[t] = "master"
  /\ next_ts' = [next_ts EXCEPT ![t] = master_ts]
  /\ Goto(t, "update")
  /\ UNCHANGED <<sharedVars, latestVars, objectVars, make, gc, pinVars,
                 ts, checkpoint, loc, direct, mapped>>

\* Variant of Update: the entry right after the snapshot is not applied.
UpdateSkipsFirst(t) ==
  /\ pc[t] = "update"
  /\ ts[t] # InvalidTs => Entries(ts[t], next_ts[t]) \subseteq log
  /\ mapped' = [mapped EXCEPT ![t] =
       IF direct[t] THEN {}
       ELSE {o \in @ : o[1] \notin Written(ts[t] + 1, next_ts[t])}]
  /\ ts' = [ts EXCEPT ![t] = next_ts[t]]
  /\ direct' = [direct EXCEPT ![t] = FALSE]
  /\ Goto(t, "release")
  /\ UNCHANGED <<sharedVars, latestVars, objectVars, make, gc, pinVars,
                 checkpoint, loc, next_ts>>

\* sivfs_update: the log entries in (ts, next_ts] are applied; a mapped
\* checkpoint page that one of them wrote is unmapped.  A thread that was in
\* direct access has all its pages unmapped first.
Update(t) ==
  /\ pc[t] = "update"
  /\ ts[t] # InvalidTs => Entries(ts[t], next_ts[t]) \subseteq log
  /\ mapped' = [mapped EXCEPT ![t] =
       IF direct[t] THEN {}
       ELSE {o \in @ : o[1] \notin Written(ts[t], next_ts[t])}]
  /\ ts' = [ts EXCEPT ![t] = next_ts[t]]
  /\ direct' = [direct EXCEPT ![t] = FALSE]
  /\ Goto(t, "release")
  /\ UNCHANGED <<sharedVars, latestVars, objectVars, make, gc, pinVars,
                 checkpoint, loc, next_ts>>

\* sivfs_update_direct_access succeeds: the checkpoint held is the latest
\* version.  Mapped checkpoint pages stay mapped.
EnterDirect(t) ==
  /\ AsksDirect
  /\ pc[t] = "update" /\ buffer[t] = None
  /\ next_ts[t] = checkpoint_ts[t] /\ master_ts = next_ts[t]
  /\ ts' = [ts EXCEPT ![t] = next_ts[t]]
  /\ direct' = [direct EXCEPT ![t] = TRUE]
  /\ Goto(t, "release")
  /\ UNCHANGED <<sharedVars, latestVars, objectVars, make, gc, pinVars,
                 checkpoint, loc, next_ts, mapped>>

\* sivfs_update_direct_access returns -EINVAL because the checkpoint held is
\* not the latest version, or sivfs_update because the log it needs is gone;
\* the system call returns with the error.
UpdateFails(t) ==
  /\ pc[t] = "update" /\ buffer[t] = None
  /\ IF AsksDirect
     THEN next_ts[t] # checkpoint_ts[t] \/ master_ts # next_ts[t]
     ELSE ts[t] # InvalidTs /\ ~(Entries(ts[t], next_ts[t]) \subseteq log)
  /\ ReturnFrom(t)
  /\ UNCHANGED <<sharedVars, latestVars, objectVars, make, gc, pinVars,
                 ts, checkpoint, direct, mapped>>

\* prior_checkpoint_ts lets go of the old checkpoint.
Release(t) ==
  /\ pc[t] = "release" /\ buffer[t] = None
  /\ prior_checkpoint_ts' = [prior_checkpoint_ts EXCEPT ![t] = loc[t]]
  /\ ReturnFrom(t)
  /\ UNCHANGED <<sharedVars, latestVars, objectVars, make, gc, checkpoint_ts, buffer,
                 ts, checkpoint, direct, mapped>>

\* sivfs_fault_checkpoint maps the checkpoint's page, unless the log between
\* the checkpoint and the snapshot wrote it; when that is so the page of the
\* working set is used and nothing changes here.
Fault(t, p) ==
  /\ pc[t] = "idle" /\ ts[t] # InvalidTs /\ checkpoint[t] # None
  /\ checkpoint[t] <= ts[t]
  /\ Entries(checkpoint[t], ts[t]) \subseteq log
  /\ p \notin Written(checkpoint[t], ts[t])
  /\ p \notin {o[1] : o \in mapped[t]}
  /\ mapped' = [mapped EXCEPT ![t] = @ \cup {<<p, tree[checkpoint[t]][p]>>}]
  /\ UNCHANGED <<sharedVars, latestVars, objectVars, make, gc, pinVars,
                 pc, ts, checkpoint, loc, next_ts, direct>>

\* sivfs_ioctl_txn_pause.  The stores go out in program order.
Pause(t) ==
  /\ pc[t] = "idle" /\ buffer[t] = None
  /\ mapped' = [mapped EXCEPT ![t] = {}]
  /\ ts' = [ts EXCEPT ![t] = InvalidTs]
  /\ checkpoint_ts' = [checkpoint_ts EXCEPT ![t] = InvalidTs]
  /\ prior_checkpoint_ts' = [prior_checkpoint_ts EXCEPT ![t] = InvalidTs]
  /\ checkpoint' = [checkpoint EXCEPT ![t] = None]
  /\ UNCHANGED <<sharedVars, latestVars, objectVars, make, gc, pc, loc, next_ts,
                 direct, buffer>>

ThreadStep(t) ==
  \/ \E W \in SUBSET Pages : Commit(t, W)
  \/ ReadLatest(t) \/ ReadPointer(t) \/ Pin(t) \/ DrainStore(t)
  \/ Check(t) \/ Reload(t) \/ ReadMaster(t)
  \/ Update(t) \/ EnterDirect(t) \/ UpdateFails(t) \/ Release(t)
  \/ \E p \in Pages : Fault(t, p)
  \/ Pause(t)

-----------------------------------------------------------------------------
(* The checkpointer, sivfs_make_checkpoint.                                *)

MakeStart ==
  /\ make.pc = "idle" /\ master_ts # latest_ts
  /\ make' = [pc |-> "build", next |-> master_ts]
  /\ UNCHANGED <<sharedVars, latestVars, objectVars, gc, pinVars, threadVars>>

\* The objects of the latest checkpoint that the one at make.next replaces.
Replaced ==
  {<<s, tree[latest_cp][s]>> : s \in Written(latest_ts, make.next) \cup {Inode}}

\* Variant of MakeBuild: the old inode is not given to the collector.
MakeBuildKeepsInode ==
  /\ make.pc = "build"
  /\ Entries(latest_ts, make.next) \subseteq log
  /\ tree' = [tree EXCEPT ![make.next] = [s \in Slots |->
       IF s = Inode \/ s \in Written(latest_ts, make.next)
       THEN make.next ELSE tree[latest_cp][s]]]
  /\ alive' = alive \cup {<<o[1], make.next>> : o \in Replaced}
  /\ obsoleted' = [o \in Objects |-> IF o \in Replaced THEN make.next ELSE obsoleted[o]]
  /\ obsoleted_entries' = obsoleted_entries \cup {o \in Replaced : o[1] # Inode}
  /\ make' = [make EXCEPT !.pc = "invalid"]
  /\ UNCHANGED <<sharedVars, latestVars, group, gc, pinVars, threadVars>>

\* The tree is built from the log, then everything it replaces, the old inode
\* included, is given to the collector.
MakeBuild ==
  /\ make.pc = "build"
  /\ Entries(latest_ts, make.next) \subseteq log
  /\ tree' = [tree EXCEPT ![make.next] = [s \in Slots |->
       IF s = Inode \/ s \in Written(latest_ts, make.next)
       THEN make.next ELSE tree[latest_cp][s]]]
  /\ alive' = alive \cup {<<o[1], make.next>> : o \in Replaced}
  /\ obsoleted' = [o \in Objects |-> IF o \in Replaced THEN make.next ELSE obsoleted[o]]
  /\ obsoleted_entries' = obsoleted_entries \cup Replaced
  /\ make' = [make EXCEPT !.pc = "invalid"]
  /\ UNCHANGED <<sharedVars, latestVars, group, gc, pinVars, threadVars>>

\* Out of memory: some pages have been marked and stay so.  The new pages are reached
\* from nowhere and have no part in what follows.
MakeFails(done) ==
  /\ Failures
  /\ make.pc = "build"
  /\ obsoleted' = [o \in Objects |-> IF o \in done THEN make.next ELSE obsoleted[o]]
  /\ make' = [pc |-> "idle", next |-> 0]
  /\ UNCHANGED <<sharedVars, latestVars, tree, alive, obsoleted_entries, group, gc,
                 pinVars, threadVars>>

\* _sivfs_checkpoints_insert_finish, store by store.
PublishInvalid ==
  /\ make.pc = "invalid"
  /\ latest_ts' = InvalidTs
  /\ make' = [make EXCEPT !.pc = "pointer"]
  /\ UNCHANGED <<sharedVars, latest_cp, published, objectVars, gc, pinVars, threadVars>>

PublishPointer ==
  /\ make.pc = "pointer"
  /\ latest_cp' = make.next
  /\ make' = [make EXCEPT !.pc = "ts"]
  /\ UNCHANGED <<sharedVars, latest_ts, published, objectVars, gc, pinVars, threadVars>>

PublishTs ==
  /\ make.pc = "ts"
  /\ latest_ts' = make.next
  /\ make' = [make EXCEPT !.pc = "published"]
  /\ UNCHANGED <<sharedVars, latest_cp, published, objectVars, gc, pinVars, threadVars>>

Publish ==
  /\ make.pc = "published"
  /\ published' = make.next
  /\ make' = [pc |-> "idle", next |-> 0]
  /\ UNCHANGED <<sharedVars, latest_ts, latest_cp, objectVars, gc, pinVars, threadVars>>

MakeStep ==
  \/ MakeStart \/ MakeBuild
  \/ make.pc = "build" /\ \E done \in SUBSET Replaced : MakeFails(done)
  \/ PublishInvalid \/ PublishPointer \/ PublishTs \/ Publish

-----------------------------------------------------------------------------
(* The collectors, sivfs_gc_checkpoints and sivfs_gc_log.                  *)

\* gc_checkpoints takes the obsoleted entries; gc_log has nothing to take.
GcStart(c) ==
  /\ gc[c].pc = "idle"
  /\ IF c = "pages"
     THEN /\ \E o \in Objects : o \in obsoleted_entries \/ group[o] # None
          /\ group' = [o \in Objects |->
                         IF o \in obsoleted_entries THEN InvalidTs ELSE group[o]]
          /\ obsoleted_entries' = {}
     ELSE UNCHANGED <<group, obsoleted_entries>>
  /\ gc' = [gc EXCEPT ![c].pc = "published"]
  /\ UNCHANGED <<sharedVars, latestVars, tree, obsoleted, alive, make, pinVars, threadVars>>

GcReadPublished(c) ==
  /\ gc[c].pc = "published"
  /\ gc' = [gc EXCEPT ![c] = [Resting EXCEPT !.pc = "scan", !.ms = published,
                                             !.todo = Threads]]
  /\ UNCHANGED <<sharedVars, latestVars, objectVars, make, pinVars, threadVars>>

\* sivfs_get_checked_out_versions reads the two fields of a thread in turn.
\* SIVFS_INVALID_TS lies in no lifetime and is no minimum.
GcReadCheckpoint(c, t) ==
  /\ gc[c].pc = "scan" /\ gc[c].half = NoThread /\ t \in gc[c].todo
  /\ gc' = [gc EXCEPT ![c].half = t,
                      ![c].versions = @ \cup ({checkpoint_ts[t]} \ {InvalidTs})]
  /\ UNCHANGED <<sharedVars, latestVars, objectVars, make, pinVars, threadVars>>

GcReadPrior(c, t) ==
  /\ gc[c].pc = "scan" /\ gc[c].half = t
  /\ gc' = [gc EXCEPT ![c].half = NoThread,
                      ![c].todo = @ \ {t},
                      ![c].versions = @ \cup ({prior_checkpoint_ts[t]} \ {InvalidTs})]
  /\ UNCHANGED <<sharedVars, latestVars, objectVars, make, pinVars, threadVars>>

\* Done with the scan.
Scanned(c) == gc[c].pc = "scan" /\ gc[c].half = NoThread /\ gc[c].todo = {}

\* Is group g to be looked at?
Unblocked(g, ms, versions) ==
  g # None /\ (g = InvalidTs \/ (g < ms /\ g \notin versions))

\* Variant of Blockers: only the newest version counts.
BlockersNewest(o, versions) ==
  {v \in versions : o[2] <= v /\ v < obsoleted[o] /\ \A w \in versions : w <= v}

\* The versions read that lie in the object's lifetime.
Blockers(o, versions) == {v \in versions : o[2] <= v /\ v < obsoleted[o]}

\* Variant of Collectable: only the pins are looked at.
CollectableUnpinned(o, ms, versions) == Blockers(o, versions) = {}

Collectable(o, ms, versions) == obsoleted[o] <= ms /\ Blockers(o, versions) = {}

\* Every object of an unblocked group is freed, or moved to the group of a
\* version that may use it.  Moving needs memory: without it the sweep ends
\* after some of the objects, and the thread with it.
GcSweep(swept) ==
  /\ Scanned("pages")
  /\ LET ms == gc["pages"].ms
         versions == gc["pages"].versions
         open == {o \in Objects : Unblocked(group[o], ms, versions)}
         free == {o \in swept : Collectable(o, ms, versions)}
     IN /\ swept \subseteq open /\ (swept = open \/ Failures)
        /\ alive' = alive \ free
        /\ group' = [o \in Objects |->
             IF o \notin swept THEN group[o]
             ELSE IF o \in free THEN None
             ELSE IF obsoleted[o] > ms THEN ms
             ELSE CHOOSE v \in Blockers(o, versions) : TRUE]
        /\ gc' = [gc EXCEPT !["pages"] =
             [Resting EXCEPT !.pc = IF swept = open THEN "idle" ELSE "stopped"]]
  /\ UNCHANGED <<sharedVars, latestVars, tree, obsoleted, obsoleted_entries, make,
                 pinVars, threadVars>>

\* Variant of GcDeleteLog: the pins are not looked at.
GcDeleteLogPublished ==
  /\ Scanned("log")
  /\ log' = {i \in log : i >= gc["log"].ms}
  /\ gc' = [gc EXCEPT !["log"] = Resting]
  /\ UNCHANGED <<master_ts, writes, latestVars, objectVars, make, pinVars, threadVars>>

\* sivfs_delete_log removes everything before the oldest version in use.
GcDeleteLog ==
  /\ Scanned("log")
  /\ log' = {i \in log : \E v \in gc["log"].versions \cup {gc["log"].ms} : i >= v}
  /\ gc' = [gc EXCEPT !["log"] = Resting]
  /\ UNCHANGED <<master_ts, writes, latestVars, objectVars, make, pinVars, threadVars>>

\* A collector that cannot allocate gives up and its thread ends.
GcFails(c) ==
  /\ Failures
  /\ gc[c].pc \in {"published", "scan"}
  /\ gc' = [gc EXCEPT ![c] = [Resting EXCEPT !.pc = "stopped"]]
  /\ UNCHANGED <<sharedVars, latestVars, objectVars, make, pinVars, threadVars>>

GcStep ==
  \/ \E c \in DOMAIN gc :
       \/ GcStart(c) \/ GcReadPublished(c) \/ GcFails(c)
       \/ \E t \in Threads : GcReadCheckpoint(c, t) \/ GcReadPrior(c, t)
  \/ "pages" \in DOMAIN gc
     /\ \E swept \in SUBSET {o \in Objects : group[o] # None} : GcSweep(swept)
  \/ "log" \in DOMAIN gc /\ GcDeleteLog

-----------------------------------------------------------------------------
Next ==
  \/ \E W \in SUBSET Pages : CommitElsewhere(W)
  \/ \E t \in Threads : ThreadStep(t)
  \/ MakeStep
  \/ GcStep

Spec == Init /\ [][Next]_vars

-----------------------------------------------------------------------------
(* Properties.                                                             *)

\* The shared fields of struct sivfs_checkpoints and the fields and locals of the
\* threads have the types the code gives them.
TypeOK ==
  /\ master_ts \in Versions
  /\ writes \in [Ts -> SUBSET Pages]
  /\ log \subseteq Ts
  /\ latest_ts \in AnyTs /\ latest_cp \in Versions /\ published \in Versions
  /\ tree \in [Versions -> [Slots -> Versions]]
  /\ obsoleted \in [Objects -> AnyTs]
  /\ alive \subseteq Objects /\ obsoleted_entries \subseteq Objects
  /\ group \in [Objects -> AnyTs \cup {None}]
  /\ make \in [pc: {"idle", "build", "invalid", "pointer", "ts", "published"},
               next: Versions]
  /\ DOMAIN gc \in Crews
  /\ gc \in [DOMAIN gc -> [pc: {"idle", "published", "scan", "stopped"},
                           ms: Versions, todo: SUBSET Threads,
                           half: Threads \cup {NoThread}, versions: SUBSET Versions]]
  /\ pc \in [Threads -> {"idle", "latest", "pointer", "pin", "check", "reload",
                         "master", "update", "release"}]
  /\ ts \in [Threads -> AnyTs]
  /\ checkpoint \in [Threads -> Versions \cup {None}]
  /\ checkpoint_ts \in [Threads -> AnyTs]
  /\ prior_checkpoint_ts \in [Threads -> AnyTs]
  /\ buffer \in [Threads -> AnyTs \cup {None}]
  /\ loc \in [Threads -> AnyTs]
  /\ next_ts \in [Threads -> Versions]
  /\ direct \in [Threads -> BOOLEAN]
  /\ mapped \in [Threads -> SUBSET Objects]

\* A thread that holds a checkpoint: the double read has succeeded and no new
\* one has started.
Holds(t) ==
  checkpoint[t] # None /\ pc[t] \in {"idle", "latest", "master", "update", "release"}

\* No page and no inode of a checkpoint that a thread has checked out is freed,
\* however its checkout interleaves with the publication of newer checkpoints
\* and with the collector's reads of the threads' pins.
CheckedOutAlive ==
  \A t \in Threads : Holds(t) => TreeOf(checkpoint[t]) \subseteq alive

\* put_checkpoint_page is never called on a page that some thread has mapped,
\* although a page outlives, in a mapping, the checkpoint it was faulted from.
MappedAllocated == \A t \in Threads : mapped[t] \subseteq alive

\* So it is as long as no thread asks for direct access.
MappedAlive == ~AsksDirect => MappedAllocated

\* A mapped checkpoint page shows the thread's snapshot: no commit between the
\* page's birth and the snapshot wrote it, although the page may have been
\* faulted from a checkpoint older than the one now held.
MappedShowsSnapshot ==
  \A t \in Threads : \A o \in mapped[t] :
    pc[t] = "idle" => o[1] \notin Written(o[2], ts[t])

\* So it is as long as no thread asks for direct access.
MappedCurrent == ~AsksDirect => MappedShowsSnapshot

\* The log still has every entry that a fault needs to bring the checkpoint held
\* up to the snapshot, that the next update needs to advance the snapshot, and that
\* the next checkpoint is built from.
LogHeld ==
  /\ \A t \in Threads : ts[t] # InvalidTs =>
       /\ pc[t] = "idle" => Entries(checkpoint[t], ts[t]) \subseteq log
       /\ Entries(ts[t], master_ts) \subseteq log
  /\ latest_ts # InvalidTs => Entries(latest_ts, master_ts) \subseteq log

\* Only a dirty read sees SIVFS_INVALID_TS in latest_checkpoint.ts: a thread
\* that is in a transaction has a checkpoint.
BegunHasCheckpoint ==
  \A t \in Threads : pc[t] = "idle" /\ ts[t] # InvalidTs => checkpoint[t] # None

\* An object that no checkpoint from the published one on contains, and that is
\* still allocated, is on its way to be freed: it is in the list of obsoleted
\* entries or in a group, so that the collector will come back to it.  (The state
\* has its types.)
NoneForgotten ==
  /\ TypeOK
  /\ \A o \in alive :
       \/ o \in TreeOf(latest_cp)
       \/ make.pc \in {"invalid", "pointer"} /\ o \in TreeOf(make.next)
       \/ o \in obsoleted_entries \/ ("pages" \in DOMAIN gc => group[o] # None)
=============================================================================
