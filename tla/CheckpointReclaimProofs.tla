---------------------- MODULE CheckpointReclaimProofs -----------------------
(***************************************************************************)
(* The inductive invariant of CheckpointReclaim, that it holds initially,  *)
(* that the state keeps its types, what the checkpointer and a checkout    *)
(* know at each of their steps, and that no object of a checkpoint that is *)
(* checked out is freed or forgotten.                                      *)
(***************************************************************************)
EXTENDS CheckpointReclaim, TLAPS

\* Most leaves are logic, the others arithmetic.
USE ZenonT(5), SMTT(15)

-----------------------------------------------------------------------------
(* The inductive invariant *)

\* One of the entries after lo up to hi wrote p.
WrittenIn(w, p, lo, hi) == \E i \in Ts : lo < i /\ i <= hi /\ p \in w[i]

\* The last timestamp that latest_checkpoint.ts had or has.
Newest == IF make.pc = "published" THEN make.next ELSE published

\* The last checkpoint that was built.
Head == IF make.pc \in {"invalid", "pointer"} THEN make.next ELSE latest_cp

\* How far the checkpointer is, and that the collectors read an old timestamp.
Publication ==
  /\ published <= master_ts
  /\ make.pc # "idle" => published < make.next /\ make.next <= master_ts
  /\ latest_cp = IF make.pc \in {"ts", "published"} THEN make.next ELSE published
  /\ latest_ts = IF make.pc \in {"pointer", "ts"} THEN InvalidTs ELSE Newest
  /\ \A c \in DOMAIN gc : gc[c].ms <= published

HoldPcs == {"idle", "latest", "master", "update", "release"}

\* The double read of latest_checkpoint.ts finds the pointer that goes with it, and
\* the pin is visible before the second read.
Checkout(t) ==
  /\ pc[t] \in {"pointer", "pin", "check"} => loc[t] = InvalidTs \/ loc[t] <= Newest
  /\ pc[t] \in {"pin", "check"} /\ loc[t] # InvalidTs /\ latest_ts = loc[t]
       => checkpoint[t] = loc[t]
  /\ buffer[t] # None => pc[t] = "check" /\ buffer[t] = loc[t]
  /\ pc[t] = "check" /\ buffer[t] = None => checkpoint_ts[t] = loc[t]
  /\ pc[t] \in HoldPcs /\ checkpoint[t] = None =>
       pc[t] = "idle" /\ checkpoint_ts[t] = InvalidTs /\ ts[t] = InvalidTs
  /\ pc[t] \in HoldPcs /\ checkpoint[t] # None =>
       checkpoint_ts[t] = checkpoint[t] /\ checkpoint[t] <= Newest
  /\ pc[t] \in {"master", "update", "release"} => loc[t] = checkpoint_ts[t]

\* The old pin is not ahead of the thread's timestamp, nor of the new pin.
Snapshot(t) ==
  /\ ts[t] # InvalidTs =>
       /\ ts[t] <= master_ts
       /\ \/ prior_checkpoint_ts[t] # InvalidTs /\ prior_checkpoint_ts[t] <= ts[t]
          \/ prior_checkpoint_ts[t] = InvalidTs /\ pc[t] = "release"
  /\ ts[t] = InvalidTs => prior_checkpoint_ts[t] = InvalidTs /\ mapped[t] = {}
  /\ prior_checkpoint_ts[t] # InvalidTs =>
       /\ prior_checkpoint_ts[t] <= Newest
       /\ pc[t] \notin {"idle", "latest", "reload"} /\ loc[t] # InvalidTs
            => prior_checkpoint_ts[t] <= loc[t]
  /\ pc[t] = "update" =>
       /\ loc[t] <= next_ts[t] /\ next_ts[t] <= master_ts
       /\ ts[t] # InvalidTs => ts[t] <= next_ts[t]
  /\ pc[t] = "release" => ts[t] # InvalidTs /\ loc[t] <= ts[t]

\* The log has the entries since the checkpoints and the timestamps in use.
LogKept ==
  /\ Entries(published, master_ts) \subseteq log
  /\ \A t \in Threads : Holds(t) => Entries(checkpoint[t], master_ts) \subseteq log
  /\ \A t \in Threads : ts[t] # InvalidTs => Entries(ts[t], master_ts) \subseteq log

\* A page is obsoleted by a write, and an inode by a later one.
Obsoleted ==
  \A s \in Slots, b \in Versions : obsoleted[<<s, b>>] # InvalidTs =>
    /\ b < obsoleted[<<s, b>>] /\ obsoleted[<<s, b>>] <= master_ts
    /\ s \in Pages => WrittenIn(writes, s, b, obsoleted[<<s, b>>])

\* A checkpoint has the last version of each page, and its objects are allocated.
Sound(c) ==
  /\ c <= master_ts /\ tree[c][Inode] = c
  /\ \A p \in Pages : tree[c][p] <= c /\ ~WrittenIn(writes, p, tree[c][p], c)
  /\ \A s \in Slots : <<s, tree[c][s]>> \in alive

Trees ==
  /\ Sound(latest_cp) /\ Sound(Head)
  /\ \A t \in Threads : Holds(t) => Sound(checkpoint[t])

\* What is allocated is in use or on its way to be freed.
Remembered ==
  \A s \in Slots, b \in Versions : <<s, b>> \in alive =>
    \/ tree[Head][s] = b
    \/ <<s, b>> \in obsoleted_entries
    \/ "pages" \in DOMAIN gc => group[<<s, b>>] # None

\* The pages mapped belong to the old pin and show the snapshot.
MappedHeld(t) ==
  /\ ~direct[t]
  /\ pc[t] \in {"idle", "latest"} /\ ts[t] # InvalidTs => prior_checkpoint_ts[t] = checkpoint[t]
  /\ \A s \in Slots, b \in Versions : <<s, b>> \in mapped[t] =>
       /\ <<s, b>> \in alive /\ s \in Pages /\ ~WrittenIn(writes, s, b, ts[t])
       /\ prior_checkpoint_ts[t] # InvalidTs /\ b <= prior_checkpoint_ts[t]

\* What a collector has read holds whatever the threads need.
Read(c, t) ==
  /\ t \notin gc[c].todo \/ t = gc[c].half =>
       (Holds(t) => gc[c].ms <= checkpoint[t] \/ checkpoint[t] \in gc[c].versions)
  /\ t \notin gc[c].todo /\ ts[t] # InvalidTs =>
       gc[c].ms <= ts[t] \/ \E v \in gc[c].versions : v <= ts[t]
  /\ ~AsksDirect /\ t \notin gc[c].todo =>
       \A s \in Slots, b \in Versions : <<s, b>> \in mapped[t] =>
         gc[c].ms <= ts[t] \/ \E v \in gc[c].versions : b <= v /\ v <= ts[t]

ThreadInv == \A t \in Threads : Checkout(t) /\ Snapshot(t)
MappedInv == ~AsksDirect => \A t \in Threads : MappedHeld(t)
ReadInv == \A c \in DOMAIN gc, t \in Threads : gc[c].pc = "scan" => Read(c, t)

IInv ==
  /\ TypeOK /\ Publication /\ ThreadInv /\ LogKept
  /\ Obsoleted /\ Trees /\ Remembered /\ MappedInv /\ ReadInv

-----------------------------------------------------------------------------
(* Types *)

\* How the timestamps, the pages and the null values relate.
LEMMA Constants ==
  /\ InvalidTs \notin Versions /\ None \notin AnyTs /\ Versions \subseteq Nat /\ Ts \subseteq Versions
  /\ Ts \subseteq Nat /\ 0 \in Versions /\ Inode \notin Pages /\ NoThread \notin Threads
BY ReclaimAssumption DEF Versions, AnyTs, Ts

\* Types initially.
LEMMA InitType == ASSUME Init PROVE TypeOK
BY Constants DEF Init, TypeOK, Resting, Objects, Slots, AnyTs

\* The invariant holds initially.
LEMMA InitInv == ASSUME Init PROVE IInv
<1>1. TypeOK
  BY InitType
<1>2. /\ \A i \in Ts : ~(i <= 0)
      /\ InvalidTs # 0 /\ None # 0 /\ 0 <= 0 /\ 0 \in Versions
  BY ReclaimAssumption DEF Ts, Versions
<1>3. Publication
  <2>1. published = 0 /\ master_ts = 0 /\ latest_ts = 0 /\ latest_cp = 0 /\ make.pc = "idle"
    BY DEF Init
  <2>2. ASSUME NEW c \in DOMAIN gc PROVE gc[c].ms = 0
    <3>1. PICK crew \in Crews : gc = [d \in crew |-> Resting]
      BY DEF Init
    <3>2. gc[c] = Resting
      BY <3>1
    <3>3. Resting.ms = 0
      BY DEF Resting
    <3> QED  BY <3>2, <3>3
  <2>3. Newest = 0
    BY <2>1 DEF Newest
  <2> QED  BY <1>2, <2>1, <2>2, <2>3 DEF Publication
<1>4. ThreadInv
  BY DEF Init, ThreadInv, Checkout, Snapshot, HoldPcs
<1>5. LogKept
  BY <1>2 DEF Init, LogKept, Entries, Holds
<1>6. Obsoleted
  BY DEF Init, Obsoleted, Objects
<1>7. Trees
  BY <1>2 DEF Init, Trees, Sound, Head, Holds, WrittenIn, Slots
<1>8. Remembered
  BY <1>2 DEF Init, Remembered, Head
<1>9. MappedInv
  BY DEF Init, MappedInv, MappedHeld
<1>10. ReadInv
  BY DEF Init, ReadInv, Resting
<1> QED  BY <1>1, <1>3, <1>4, <1>5, <1>6, <1>7, <1>8, <1>9, <1>10 DEF IInv

\* Types after a log entry.
LEMMA CommitType == ASSUME TypeOK, NEW W \in SUBSET Pages, NewEntry(W)
  PROVE  /\ master_ts' \in Versions /\ writes' \in [Ts -> SUBSET Pages] /\ log' \subseteq Ts
BY ReclaimAssumption DEF TypeOK, NewEntry, Versions, Ts

\* Types after reading latest_checkpoint.ts.
LEMMA ReadLatestType == ASSUME TypeOK, NEW t \in Threads, ReadLatest(t) PROVE TypeOK'
BY Constants DEF TypeOK, ReadLatest, sharedVars, latestVars, objectVars, pinVars, threadVars, Goto, AnyTs

\* Types after reading latest_checkpoint.checkpoint.
LEMMA ReadPointerType == ASSUME TypeOK, NEW t \in Threads, ReadPointer(t) PROVE TypeOK'
BY Constants DEF TypeOK, ReadPointer, sharedVars, latestVars, objectVars, pinVars, threadVars, Goto, AnyTs

\* Types after storing the pin.
LEMMA PinType == ASSUME TypeOK, NEW t \in Threads, Pin(t) PROVE TypeOK'
BY Constants DEF TypeOK, Pin, sharedVars, latestVars, objectVars, pinVars, threadVars, Goto, AnyTs

\* Types after draining the store buffer.
LEMMA DrainStoreType == ASSUME TypeOK, NEW t \in Threads, DrainStore(t) PROVE TypeOK'
BY Constants DEF TypeOK, DrainStore, sharedVars, latestVars, objectVars, pinVars, threadVars, Goto, AnyTs

\* Types after the second read of latest_checkpoint.ts.
LEMMA CheckType == ASSUME TypeOK, NEW t \in Threads, Check(t) PROVE TypeOK'
BY Constants DEF TypeOK, Check, sharedVars, latestVars, objectVars, pinVars, threadVars, Goto, AnyTs

\* Types after another round of the double read.
LEMMA ReloadType == ASSUME TypeOK, NEW t \in Threads, Reload(t) PROVE TypeOK'
BY Constants DEF TypeOK, Reload, sharedVars, latestVars, objectVars, pinVars, threadVars, Goto, AnyTs

\* Types after reading the master timestamp.
LEMMA ReadMasterType == ASSUME TypeOK, NEW t \in Threads, ReadMaster(t) PROVE TypeOK'
BY Constants DEF TypeOK, ReadMaster, sharedVars, latestVars, objectVars, pinVars, threadVars, Goto, AnyTs

\* Types after the update.
LEMMA UpdateType == ASSUME TypeOK, NEW t \in Threads, Update(t) PROVE TypeOK'
BY Constants DEF TypeOK, Update, sharedVars, latestVars, objectVars, pinVars, threadVars, Goto, AnyTs

\* Types after the entry into direct access.
LEMMA EnterDirectType == ASSUME TypeOK, NEW t \in Threads, EnterDirect(t) PROVE TypeOK'
BY Constants DEF TypeOK, EnterDirect, sharedVars, latestVars, objectVars, pinVars, threadVars, Goto, AnyTs

\* Types after an update that fails.
LEMMA UpdateFailsType == ASSUME TypeOK, NEW t \in Threads, UpdateFails(t) PROVE TypeOK'
BY Constants DEF TypeOK, UpdateFails, sharedVars, latestVars, objectVars, pinVars, threadVars, Goto, AnyTs, ReturnFrom

\* Types after storing prior_checkpoint_ts.
LEMMA ReleaseType == ASSUME TypeOK, NEW t \in Threads, Release(t) PROVE TypeOK'
BY Constants DEF TypeOK, Release, sharedVars, latestVars, objectVars, pinVars, threadVars, Goto, AnyTs, ReturnFrom

\* Types after the end of a transaction.
LEMMA PauseType == ASSUME TypeOK, NEW t \in Threads, Pause(t) PROVE TypeOK'
BY Constants DEF TypeOK, Pause, sharedVars, latestVars, objectVars, pinVars, threadVars, Goto, AnyTs

\* Types after a thread's commit, and after one elsewhere.
LEMMA CommitsType ==
  ASSUME TypeOK, NEW W \in SUBSET Pages,
         CommitElsewhere(W) \/ \E t \in Threads : Commit(t, W)
  PROVE  TypeOK'
<1>1. NewEntry(W)
  BY DEF CommitElsewhere, Commit
<1>2. master_ts' \in Versions /\ writes' \in [Ts -> SUBSET Pages] /\ log' \subseteq Ts
  BY <1>1, CommitType
<1>3. CASE CommitElsewhere(W)
  BY <1>2, <1>3 DEF TypeOK, CommitElsewhere, latestVars, objectVars, pinVars, threadVars
<1>4. ASSUME NEW t \in Threads, Commit(t, W) PROVE TypeOK'
  BY <1>2, <1>4 DEF TypeOK, Commit, Goto, latestVars, objectVars, pinVars
<1> QED  BY <1>3, <1>4

\* Types after a page fault.
LEMMA FaultType == ASSUME TypeOK, NEW t \in Threads, NEW p \in Pages, Fault(t, p) PROVE TypeOK'
<1>1. <<p, tree[checkpoint[t]][p]>> \in Objects
  BY DEF TypeOK, Fault, Objects, Slots
<1>2. mapped' \in [Threads -> SUBSET Objects]
  BY <1>1 DEF TypeOK, Fault
<1> QED  BY <1>2 DEF TypeOK, Fault, sharedVars, latestVars, objectVars, pinVars

\* The objects that a new checkpoint replaces are objects.
LEMMA ReplacedType == ASSUME TypeOK PROVE Replaced \subseteq Objects
BY DEF TypeOK, Replaced, Written, Objects, Slots

\* Types after a checkpoint is built.
LEMMA MakeBuildType == ASSUME TypeOK, MakeBuild PROVE TypeOK'
<1>1. Replaced \subseteq Objects /\ make.next \in Versions
  BY ReplacedType DEF TypeOK
<1>2. tree' \in [Versions -> [Slots -> Versions]]
  BY <1>1 DEF TypeOK, MakeBuild
<1>3. alive' \subseteq Objects /\ obsoleted_entries' \subseteq Objects
  <2>1. \A o \in Objects : <<o[1], make.next>> \in Objects
    BY <1>1 DEF Objects
  <2>2. {<<o[1], make.next>> : o \in Replaced} \subseteq Objects
    BY <1>1, <2>1
  <2> QED  BY <1>1, <2>2 DEF TypeOK, MakeBuild
<1>4. obsoleted' \in [Objects -> AnyTs]
  BY <1>1 DEF TypeOK, MakeBuild, AnyTs
<1>5. make' \in [pc: {"idle", "build", "invalid", "pointer", "ts", "published"}, next: Versions]
  BY DEF TypeOK, MakeBuild
<1> QED  BY <1>2, <1>3, <1>4, <1>5 DEF TypeOK, MakeBuild, sharedVars, latestVars, pinVars, threadVars

\* Types after a checkpoint fails half-built.
LEMMA MakeFailsType == ASSUME TypeOK, NEW done, MakeFails(done) PROVE TypeOK'
<1>1. obsoleted' \in [Objects -> AnyTs]
  BY DEF TypeOK, MakeFails, AnyTs
<1>2. make' \in [pc: {"idle", "build", "invalid", "pointer", "ts", "published"}, next: Versions]
  BY Constants DEF MakeFails
<1> QED  BY <1>1, <1>2 DEF TypeOK, MakeFails, sharedVars, latestVars, pinVars, threadVars

\* Types after the steps that publish a checkpoint.
LEMMA PublishType ==
  ASSUME TypeOK, MakeStart \/ PublishInvalid \/ PublishPointer \/ PublishTs \/ Publish
  PROVE  TypeOK'
<1>1. make.next \in Versions /\ 0 \in Versions
  BY Constants DEF TypeOK
<1>2. make' \in [pc: {"idle", "build", "invalid", "pointer", "ts", "published"}, next: Versions]
  <2>1. CASE MakeStart
    BY <1>1, <2>1 DEF TypeOK, MakeStart
  <2>2. CASE Publish
    BY <1>1, <2>2 DEF TypeOK, Publish
  <2>3. CASE PublishInvalid \/ PublishPointer \/ PublishTs
    <3>1. PICK to \in {"pointer", "ts", "published"} : make' = [make EXCEPT !.pc = to]
      BY <2>3 DEF PublishInvalid, PublishPointer, PublishTs
    <3> QED  BY <3>1 DEF TypeOK
  <2> QED  BY <2>1, <2>2, <2>3
<1>3. latest_ts' \in AnyTs /\ latest_cp' \in Versions /\ published' \in Versions
  BY <1>1 DEF TypeOK, MakeStart, PublishInvalid, PublishPointer, PublishTs, Publish, latestVars, AnyTs
<1>4. UNCHANGED <<sharedVars, objectVars, gc, pinVars, threadVars>>
  BY DEF MakeStart, PublishInvalid, PublishPointer, PublishTs, Publish
<1> QED  BY <1>2, <1>3, <1>4 DEF TypeOK, sharedVars, objectVars, pinVars, threadVars

\* The state of a collector.
GcStates == [pc: {"idle", "published", "scan", "stopped"}, ms: Versions, todo: SUBSET Threads,
             half: Threads \cup {NoThread}, versions: SUBSET Versions]

\* A collector's step changes its own state only.
LEMMA GcType ==
  ASSUME TypeOK, NEW c \in DOMAIN gc, NEW r \in GcStates, gc' = [gc EXCEPT ![c] = r]
  PROVE  /\ DOMAIN gc' = DOMAIN gc /\ DOMAIN gc' \in Crews /\ gc' \in [DOMAIN gc' -> GcStates]
         /\ gc'[c] = r /\ \A d \in DOMAIN gc : d # c => gc'[d] = gc[d]
BY DEF TypeOK, GcStates

\* A collector at rest has the type of one.
LEMMA RestingType == Resting \in GcStates
BY Constants DEF Resting, GcStates

\* What the sweep does to the group of each obsoleted object.
LEMMA SweepGroup ==
  ASSUME TypeOK, "pages" \in DOMAIN gc, NEW swept, GcSweep(swept), NEW o \in Objects
  PROVE  /\ group'[o] \in AnyTs \cup {None}
         /\ group'[o] = None => group[o] = None \/ (o \in swept /\ Collectable(o, gc["pages"].ms, gc["pages"].versions))
<1> DEFINE ms == gc["pages"].ms
           versions == gc["pages"].versions
           free == {q \in swept : Collectable(q, ms, versions)}
<1>1. group'[o] = IF o \notin swept THEN group[o]
                  ELSE IF o \in free THEN None
                  ELSE IF obsoleted[o] > ms THEN ms
                  ELSE CHOOSE v \in Blockers(o, versions) : TRUE
  BY DEF GcSweep
<1>2. ms \in Versions /\ versions \subseteq Versions /\ obsoleted[o] \in AnyTs
  BY DEF TypeOK
<1> HIDE DEF ms, versions
<1>3. o \in swept /\ o \notin free /\ ~(obsoleted[o] > ms) => Blockers(o, versions) # {}
  <2>1. ms \in Nat /\ obsoleted[o] \in Nat
    BY <1>2, Constants, ReclaimAssumption DEF AnyTs
  <2>2. ~(obsoleted[o] > ms) => obsoleted[o] <= ms
    BY <2>1
  <2> QED  BY <2>2 DEF Collectable
<1>4. Blockers(o, versions) \subseteq Versions
  BY <1>2 DEF Blockers
<1>5. o \in swept /\ o \notin free /\ ~(obsoleted[o] > ms)
        => (CHOOSE v \in Blockers(o, versions) : TRUE) \in Versions
  BY <1>3, <1>4
<1>6. group'[o] \in AnyTs \cup {None}
  BY <1>1, <1>2, <1>5 DEF TypeOK, AnyTs
<1>7. group'[o] = None => group[o] = None \/ o \in free
  BY <1>1, <1>2, <1>5, Constants DEF AnyTs
<1> QED  BY <1>6, <1>7 DEF ms, versions

\* What each step of a collector does to its state.
LEMMA GcStartEffect ==
  ASSUME TypeOK, NEW c \in DOMAIN gc, GcStart(c)
  PROVE  gc' = [gc EXCEPT ![c] = [gc[c] EXCEPT !.pc = "published"]]
         /\ [gc[c] EXCEPT !.pc = "published"] \in GcStates
<1>1. gc[c] \in GcStates
  BY DEF TypeOK, GcStates
<1>2. [gc[c] EXCEPT !.pc = "published"] \in GcStates
  BY <1>1 DEF GcStates
<1>3. gc' = [gc EXCEPT ![c] = [gc[c] EXCEPT !.pc = "published"]]
  BY DEF GcStart
<1> QED  BY <1>2, <1>3

\* A collector reads latest_checkpoint_published.
LEMMA GcReadPublishedEffect ==
  ASSUME TypeOK, NEW c \in DOMAIN gc, GcReadPublished(c)
  PROVE  \E r \in GcStates : /\ gc' = [gc EXCEPT ![c] = r]
           /\ r.pc = "scan" /\ r.ms = published /\ r.todo = Threads /\ r.half = NoThread /\ r.versions = {}
<1> DEFINE r == [Resting EXCEPT !.pc = "scan", !.ms = published, !.todo = Threads]
<1>1. published \in Versions
  BY DEF TypeOK
<1>2. r \in GcStates
  BY <1>1, RestingType DEF GcStates
<1>3. gc' = [gc EXCEPT ![c] = r]
  BY DEF GcReadPublished
<1> QED  BY <1>2, <1>3 DEF Resting

\* A collector reads a thread's checkpoint_ts.
LEMMA GcReadCheckpointEffect ==
  ASSUME TypeOK, NEW c \in DOMAIN gc, NEW t \in Threads, GcReadCheckpoint(c, t)
  PROVE  \E r \in GcStates : /\ gc' = [gc EXCEPT ![c] = r]
           /\ r.pc = "scan" /\ r.ms = gc[c].ms /\ r.todo = gc[c].todo /\ r.half = t
           /\ r.versions = gc[c].versions \cup ({checkpoint_ts[t]} \ {InvalidTs})
<1> DEFINE r == [gc[c] EXCEPT !.half = t, !.versions = @ \cup ({checkpoint_ts[t]} \ {InvalidTs})]
<1>1. gc[c] \in GcStates /\ gc[c].pc = "scan"
  BY DEF TypeOK, GcStates, GcReadCheckpoint
<1>2. {checkpoint_ts[t]} \ {InvalidTs} \subseteq Versions
  BY DEF TypeOK, AnyTs
<1>3. r \in GcStates
  BY <1>1, <1>2 DEF GcStates
<1>4. gc' = [gc EXCEPT ![c] = r]
  BY <1>1 DEF GcReadCheckpoint, GcStates
<1> QED  BY <1>1, <1>3, <1>4 DEF GcStates

\* A collector reads a thread's prior_checkpoint_ts.
LEMMA GcReadPriorEffect ==
  ASSUME TypeOK, NEW c \in DOMAIN gc, NEW t \in Threads, GcReadPrior(c, t)
  PROVE  \E r \in GcStates : /\ gc' = [gc EXCEPT ![c] = r]
           /\ r.pc = "scan" /\ r.ms = gc[c].ms /\ r.todo = gc[c].todo \ {t} /\ r.half = NoThread
           /\ r.versions = gc[c].versions \cup ({prior_checkpoint_ts[t]} \ {InvalidTs})
<1> DEFINE r == [gc[c] EXCEPT !.half = NoThread, !.todo = @ \ {t},
                              !.versions = @ \cup ({prior_checkpoint_ts[t]} \ {InvalidTs})]
<1>1. gc[c] \in GcStates /\ gc[c].pc = "scan"
  BY DEF TypeOK, GcStates, GcReadPrior
<1>2. {prior_checkpoint_ts[t]} \ {InvalidTs} \subseteq Versions
  BY DEF TypeOK, AnyTs
<1>3. r \in GcStates
  BY <1>1, <1>2 DEF GcStates
<1>4. gc' = [gc EXCEPT ![c] = r]
  BY <1>1 DEF GcReadPrior, GcStates
<1> QED  BY <1>1, <1>3, <1>4 DEF GcStates

\* A collection that ends, or fails, goes to rest or stops.
LEMMA GcEndEffect ==
  ASSUME TypeOK, NEW c \in DOMAIN gc, NEW swept,
         GcFails(c) \/ (c = "pages" /\ GcSweep(swept)) \/ (c = "log" /\ GcDeleteLog)
  PROVE  \E r \in GcStates : gc' = [gc EXCEPT ![c] = r] /\ r.pc \in {"idle", "stopped"} /\ r.ms = 0
<1>1. \A to \in {"idle", "stopped"} : LET r == [Resting EXCEPT !.pc = to]
                                      IN  r \in GcStates /\ r.pc = to /\ r.ms = 0
  BY RestingType DEF Resting, GcStates
<1>2. Resting = [Resting EXCEPT !.pc = "idle"]
  BY DEF Resting
<1>3. \E to \in {"idle", "stopped"} : gc' = [gc EXCEPT ![c] = [Resting EXCEPT !.pc = to]]
  <2>1. CASE GcFails(c)
    BY <2>1 DEF GcFails
  <2>2. CASE c = "pages" /\ GcSweep(swept)
    BY <2>2 DEF GcSweep
  <2>3. CASE c = "log" /\ GcDeleteLog
    BY <1>2, <2>3 DEF GcDeleteLog
  <2> QED  BY <2>1, <2>2, <2>3
<1> QED  BY <1>1, <1>3

\* The collectors leave the threads, the checkpointer and the trees alone.
LEMMA GcFrame ==
  ASSUME GcStep
  PROVE  UNCHANGED <<master_ts, writes, latestVars, tree, obsoleted, make, pinVars, threadVars>>
BY DEF GcStep, GcStart, GcReadPublished, GcReadCheckpoint, GcReadPrior, GcFails, GcSweep, GcDeleteLog,
       sharedVars, objectVars

\* Types after a collector's step.
LEMMA GcStepType == ASSUME TypeOK, GcStep PROVE TypeOK'
<1>1. PICK c \in DOMAIN gc, r \in GcStates : gc' = [gc EXCEPT ![c] = r]
  <2>1. ASSUME NEW c \in DOMAIN gc, GcStart(c)
        PROVE  \E r \in GcStates : gc' = [gc EXCEPT ![c] = r]
    BY <2>1, GcStartEffect
  <2>2. ASSUME NEW c \in DOMAIN gc, GcReadPublished(c)
        PROVE  \E r \in GcStates : gc' = [gc EXCEPT ![c] = r]
    BY <2>2, GcReadPublishedEffect
  <2>3. ASSUME NEW c \in DOMAIN gc, NEW t \in Threads, GcReadCheckpoint(c, t) \/ GcReadPrior(c, t)
        PROVE  \E r \in GcStates : gc' = [gc EXCEPT ![c] = r]
    BY <2>3, GcReadCheckpointEffect, GcReadPriorEffect
  <2>4. ASSUME NEW c \in DOMAIN gc, NEW swept,
               GcFails(c) \/ (c = "pages" /\ GcSweep(swept)) \/ (c = "log" /\ GcDeleteLog)
        PROVE  \E r \in GcStates : gc' = [gc EXCEPT ![c] = r]
    BY <2>4, GcEndEffect
  <2>5. \E c \in DOMAIN gc : \E r \in GcStates : gc' = [gc EXCEPT ![c] = r]
    BY <2>1, <2>2, <2>3, <2>4 DEF GcStep
  <2> QED  BY <2>5
<1>2. DOMAIN gc' \in Crews /\ gc' \in [DOMAIN gc' -> GcStates]
  BY <1>1, GcType
<1>3. log' \subseteq Ts /\ alive' \subseteq Objects /\ obsoleted_entries' \subseteq Objects
  BY ZenonT(20) DEF TypeOK, GcStep, GcStart, GcReadPublished, GcReadCheckpoint, GcReadPrior, GcFails, GcSweep,
         GcDeleteLog, sharedVars, objectVars
<1>4. group' \in [Objects -> AnyTs \cup {None}]
  <2>1. ASSUME "pages" \in DOMAIN gc, NEW swept, GcSweep(swept)
        PROVE  group' \in [Objects -> AnyTs \cup {None}]
    <3>1. \A o \in Objects : group'[o] \in AnyTs \cup {None}
      BY <2>1, SweepGroup
    <3>2. group' = [o \in Objects |-> group'[o]]
      BY <2>1 DEF GcSweep
    <3> QED  BY <3>1, <3>2
  <2>2. ASSUME NEW d \in DOMAIN gc, GcStart(d)
        PROVE  group' \in [Objects -> AnyTs \cup {None}]
    BY <2>2 DEF TypeOK, GcStart, AnyTs
  <2>3. CASE UNCHANGED group
    BY <2>3 DEF TypeOK
  <2> QED  BY <2>1, <2>2, <2>3 DEF GcStep, GcReadPublished, GcReadCheckpoint, GcReadPrior, GcFails,
              GcDeleteLog, objectVars
<1>5. UNCHANGED <<master_ts, writes, latestVars, tree, obsoleted, make, pinVars, threadVars>>
  BY GcFrame
<1> QED  BY <1>2, <1>3, <1>4, <1>5 DEF TypeOK, GcStates, latestVars, pinVars, threadVars

\* Types after any step.
LEMMA StepType == ASSUME TypeOK, [Next]_vars PROVE TypeOK'
<1>1. CASE UNCHANGED vars
  BY <1>1 DEF vars, TypeOK, sharedVars, latestVars, objectVars, pinVars, threadVars
<1>2. ASSUME NEW t \in Threads, ThreadStep(t) PROVE TypeOK'
  BY <1>2, CommitsType, FaultType, ReadLatestType, ReadPointerType, PinType, DrainStoreType, CheckType,
     ReloadType, ReadMasterType, UpdateType, EnterDirectType, UpdateFailsType, ReleaseType, PauseType
     DEF ThreadStep
<1>3. CASE MakeStep
  BY <1>3, MakeBuildType, MakeFailsType, PublishType DEF MakeStep
<1> QED  BY <1>1, <1>2, <1>3, CommitsType, GcStepType DEF Next

-----------------------------------------------------------------------------
(* The checkpointer *)

\* Written, as a predicate on the entries between two timestamps.
LEMMA WrittenMember ==
  \A lo, hi, p : p \in Written(lo, hi) <=> WrittenIn(writes, p, lo, hi)
BY DEF Written, WrittenIn

\* Commits change no entry that exists; other steps change no entry at all.
LEMMA EntriesStay ==
  ASSUME TypeOK, [Next]_vars
  PROVE  /\ master_ts <= master_ts'
         /\ \A i \in Ts : i <= master_ts => writes'[i] = writes[i]
         /\ \A i \in Ts : master_ts < i /\ i <= master_ts' => i \in log'
         /\ GcStep \/ log \subseteq log'
<1>1. ASSUME NEW W, NewEntry(W)
      PROVE  /\ master_ts <= master_ts'
             /\ \A i \in Ts : i <= master_ts => writes'[i] = writes[i]
             /\ \A i \in Ts : master_ts < i /\ i <= master_ts' => i \in log'
             /\ log \subseteq log'
  <2>1. /\ master_ts \in Nat /\ master_ts' = master_ts + 1 /\ log' = log \cup {master_ts + 1}
        /\ writes' = [writes EXCEPT ![master_ts + 1] = W]
    BY <1>1, Constants DEF NewEntry, TypeOK
  <2>2. \A i \in Ts : i <= master_ts => i # master_ts + 1
    BY <2>1, Constants
  <2>3. \A i \in Ts : master_ts < i /\ i <= master_ts' => i = master_ts + 1
    BY <2>1, Constants
  <2>4. \A i \in Ts : i # master_ts + 1 => writes'[i] = writes[i]
    BY <2>1 DEF TypeOK
  <2> QED  BY <2>1, <2>2, <2>3, <2>4
<1>2. ASSUME UNCHANGED <<master_ts, writes>>
      PROVE  /\ master_ts <= master_ts'
             /\ \A i \in Ts : i <= master_ts => writes'[i] = writes[i]
             /\ \A i \in Ts : master_ts < i /\ i <= master_ts' => i \in log'
  BY <1>2, Constants DEF TypeOK
<1>3. (\E W : NewEntry(W)) \/ (UNCHANGED <<master_ts, writes, log>>) \/ (GcStep /\ UNCHANGED <<master_ts, writes>>)
  <2>1. CASE UNCHANGED vars
    BY <2>1 DEF vars, sharedVars
  <2>2. ASSUME NEW t \in Threads, ThreadStep(t)
        PROVE  (\E W : NewEntry(W)) \/ (UNCHANGED <<master_ts, writes, log>>)
    BY <2>2 DEF ThreadStep, Commit, ReadLatest, ReadPointer, Pin, DrainStore, Check, Reload, ReadMaster,
       Update, EnterDirect, UpdateFails, Release, Fault, Pause, sharedVars
  <2>3. CASE MakeStep
    BY <2>3 DEF MakeStep, MakeStart, MakeBuild, MakeFails, PublishInvalid, PublishPointer, PublishTs,
       Publish, sharedVars
  <2>4. CASE GcStep
    BY <2>4, GcFrame
  <2> QED  BY <2>1, <2>2, <2>3, <2>4 DEF Next, CommitElsewhere
<1> QED  BY <1>1, <1>2, <1>3

\* Threads leave the checkpointer, the objects and the collectors alone.
LEMMA ThreadFrame ==
  ASSUME NEW t \in Threads, ThreadStep(t)
  PROVE  UNCHANGED <<latestVars, objectVars, make, gc>>
BY DEF ThreadStep, Commit, ReadLatest, ReadPointer, Pin, DrainStore, Check, Reload, ReadMaster,
   Update, EnterDirect, UpdateFails, Release, Fault, Pause

\* The checkpointer touches no thread and no collector.
LEMMA MakeFrame ==
  ASSUME MakeStep
  PROVE  UNCHANGED <<master_ts, writes, log, group, gc, pinVars, threadVars>>
BY DEF MakeStep, MakeStart, MakeBuild, MakeFails, PublishInvalid, PublishPointer, PublishTs,
   Publish, sharedVars, objectVars

\* A collector's timestamp is one that was published.
LEMMA GcMs ==
  ASSUME IInv, GcStep, NEW c \in DOMAIN gc'
  PROVE  gc'[c].ms <= published /\ DOMAIN gc' = DOMAIN gc
<1>1. published \in Nat /\ 0 <= published
  BY Constants DEF IInv, TypeOK
<1>2. TypeOK /\ \A d \in DOMAIN gc : gc[d].ms <= published
  BY DEF IInv, Publication
<1>3. ASSUME NEW d \in DOMAIN gc, NEW r \in GcStates, gc' = [gc EXCEPT ![d] = r], r.ms <= published
      PROVE  gc'[c].ms <= published /\ DOMAIN gc' = DOMAIN gc
  BY <1>2, <1>3, GcType
<1>4. ASSUME NEW d \in DOMAIN gc, GcStart(d)
      PROVE  gc'[c].ms <= published /\ DOMAIN gc' = DOMAIN gc
  <2>1. [gc[d] EXCEPT !.pc = "published"].ms = gc[d].ms
    BY <1>2 DEF TypeOK
  <2> QED  BY <1>2, <1>3, <1>4, <2>1, GcStartEffect
<1>5. ASSUME NEW d \in DOMAIN gc, GcReadPublished(d)
      PROVE  gc'[c].ms <= published /\ DOMAIN gc' = DOMAIN gc
  BY <1>1, <1>2, <1>3, <1>5, GcReadPublishedEffect
<1>6. ASSUME NEW d \in DOMAIN gc, NEW t \in Threads, GcReadCheckpoint(d, t) \/ GcReadPrior(d, t)
      PROVE  gc'[c].ms <= published /\ DOMAIN gc' = DOMAIN gc
  BY <1>2, <1>3, <1>6, GcReadCheckpointEffect, GcReadPriorEffect
<1>7. ASSUME NEW d \in DOMAIN gc, NEW swept,
             GcFails(d) \/ (d = "pages" /\ GcSweep(swept)) \/ (d = "log" /\ GcDeleteLog)
      PROVE  gc'[c].ms <= published /\ DOMAIN gc' = DOMAIN gc
  BY <1>1, <1>2, <1>3, <1>7, GcEndEffect
<1> QED  BY <1>4, <1>5, <1>6, <1>7 DEF GcStep

\* Every step preserves Publication.
LEMMA PublicationStep == ASSUME IInv, [Next]_vars PROVE Publication'
<1>1. /\ TypeOK /\ Publication /\ master_ts \in Nat /\ master_ts' \in Nat /\ master_ts <= master_ts'
      /\ published \in Nat /\ make.next \in Nat
  BY StepType, EntriesStay, Constants DEF IInv, TypeOK
<1>2. CASE UNCHANGED <<latestVars, make, gc>>
  BY <1>1, <1>2 DEF Publication, Newest, latestVars
<1>3. CASE MakeStep
  <2>1. UNCHANGED <<master_ts, gc>>
    BY <1>3, MakeFrame
  <2>2. CASE MakeStart
    <3>1. /\ make.pc = "idle" /\ make'.pc = "build" /\ make'.next = master_ts /\ UNCHANGED latestVars
          /\ latest_ts = published /\ latest_ts # master_ts
      BY <1>1, <2>2 DEF MakeStart, Publication, Newest
    <3>2. published < master_ts
      BY <1>1, <3>1 DEF Publication
    <3> QED  BY <1>1, <2>1, <3>1, <3>2 DEF Publication, Newest, latestVars
  <2>3. CASE MakeBuild
    BY <1>1, <2>1, <2>3 DEF TypeOK, MakeBuild, Publication, Newest, latestVars
  <2>4. ASSUME NEW done, MakeFails(done) PROVE Publication'
    BY <1>1, <2>1, <2>4 DEF TypeOK, MakeFails, Publication, Newest, latestVars
  <2>5. CASE PublishInvalid
    BY <1>1, <2>1, <2>5 DEF TypeOK, PublishInvalid, Publication, Newest
  <2>6. CASE PublishPointer
    BY <1>1, <2>1, <2>6 DEF TypeOK, PublishPointer, Publication, Newest
  <2>7. CASE PublishTs
    BY <1>1, <2>1, <2>7 DEF TypeOK, PublishTs, Publication, Newest
  <2>8. CASE Publish
    <3>1. published' = make.next /\ make'.pc = "idle" /\ UNCHANGED <<latest_ts, latest_cp>> /\ make.pc = "published"
      BY <2>8 DEF Publish
    <3>2. \A c \in DOMAIN gc : gc[c].ms \in Nat
      BY <1>1, Constants DEF TypeOK
    <3>3. \A c \in DOMAIN gc : gc[c].ms <= make.next
      BY <1>1, <3>1, <3>2 DEF Publication
    <3> QED  BY <1>1, <2>1, <3>1, <3>3 DEF Publication, Newest
  <2> QED  BY <1>3, <2>2, <2>3, <2>4, <2>5, <2>6, <2>7, <2>8 DEF MakeStep
<1>4. CASE GcStep
  <2>1. UNCHANGED <<master_ts, latestVars, make>>
    BY <1>4, GcFrame
  <2> QED  BY <1>1, <1>4, <2>1, GcMs DEF Publication, Newest, latestVars
<1> QED  BY <1>2, <1>3, <1>4, ThreadFrame DEF Next, CommitElsewhere, vars
-----------------------------------------------------------------------------
(* Checkout *)

\* The pin is visible before the check, and no thread begins while a checkpoint is
\* published.
Ordered == Fenced = TRUE /\ WindowBegins = FALSE

\* The fields of thread u that are of no concern to the collectors' work.
SameThread(u) ==
  /\ pc'[u] = pc[u] /\ ts'[u] = ts[u] /\ checkpoint'[u] = checkpoint[u] /\ loc'[u] = loc[u]
  /\ next_ts'[u] = next_ts[u] /\ direct'[u] = direct[u] /\ mapped'[u] = mapped[u]
  /\ checkpoint_ts'[u] = checkpoint_ts[u] /\ buffer'[u] = buffer[u]
  /\ prior_checkpoint_ts'[u] = prior_checkpoint_ts[u]

\* A step is this thread's own or leaves the thread as it was.
LEMMA OthersSame ==
  ASSUME TypeOK, [Next]_vars, NEW u \in Threads
  PROVE  SameThread(u) \/ ThreadStep(u)
<1>1. CASE UNCHANGED <<pinVars, threadVars>>
  BY <1>1 DEF SameThread, pinVars, threadVars
<1>2. ASSUME NEW t \in Threads, t # u, ThreadStep(t) PROVE SameThread(u)
  <2>1. CASE \E W \in SUBSET Pages : Commit(t, W)
    BY <1>2, <2>1, ZenonT(20) DEF TypeOK, SameThread, pinVars, Commit, Goto
  <2>2. CASE ReadLatest(t)
    BY <1>2, <2>2 DEF TypeOK, SameThread, pinVars, ReadLatest, Goto
  <2>3. CASE ReadPointer(t)
    BY <1>2, <2>3 DEF TypeOK, SameThread, pinVars, ReadPointer, Goto
  <2>4. CASE Pin(t)
    BY <1>2, <2>4 DEF TypeOK, SameThread, Pin, Goto
  <2>5. CASE DrainStore(t)
    BY <1>2, <2>5 DEF TypeOK, SameThread, threadVars, DrainStore
  <2>6. CASE Check(t)
    BY <1>2, <2>6 DEF TypeOK, SameThread, pinVars, Check, Goto
  <2>7. CASE Reload(t)
    BY <1>2, <2>7 DEF TypeOK, SameThread, pinVars, Reload, Goto
  <2>8. CASE ReadMaster(t)
    BY <1>2, <2>8 DEF TypeOK, SameThread, pinVars, ReadMaster, Goto
  <2>9. CASE Update(t)
    BY <1>2, <2>9 DEF TypeOK, SameThread, pinVars, Update, Goto
  <2>10. CASE EnterDirect(t)
    BY <1>2, <2>10 DEF TypeOK, SameThread, pinVars, EnterDirect, Goto
  <2>11. CASE UpdateFails(t)
    BY <1>2, <2>11 DEF TypeOK, SameThread, pinVars, UpdateFails, Goto, ReturnFrom
  <2>12. CASE Release(t)
    BY <1>2, <2>12 DEF TypeOK, SameThread, Release, Goto, ReturnFrom
  <2>13. CASE \E p \in Pages : Fault(t, p)
    BY <1>2, <2>13 DEF TypeOK, SameThread, pinVars, Fault
  <2>14. CASE Pause(t)
    BY <1>2, <2>14 DEF TypeOK, SameThread, Pause
  <2> QED  BY <1>2, <2>1, <2>2, <2>3, <2>4, <2>5, <2>6, <2>7, <2>8, <2>9, <2>10, <2>11, <2>12,
              <2>13, <2>14 DEF ThreadStep
<1> QED  BY <1>1, <1>2, MakeFrame, GcFrame DEF Next, CommitElsewhere, vars

\* The newest timestamp changes only when the checkpointer publishes one.
LEMMA NewestStep ==
  ASSUME IInv, [Next]_vars
  PROVE  /\ Newest \in Versions /\ Newest' \in Versions /\ Newest <= Newest' /\ Newest' <= master_ts'
         /\ latest_ts' = latest_ts \/ latest_ts' = InvalidTs \/ Newest < latest_ts'
<1>1. TypeOK /\ TypeOK' /\ Publication /\ Publication'
  BY StepType, PublicationStep DEF IInv
<1>2. Newest \in Versions /\ Newest' \in Versions /\ Newest' <= master_ts'
  BY <1>1 DEF TypeOK, Newest, Publication
<1>3. published \in Nat /\ make.next \in Nat
  BY <1>1, Constants DEF TypeOK
<1>4. CASE UNCHANGED <<latestVars, make>>
  <2>1. Newest' = Newest /\ latest_ts' = latest_ts
    BY <1>4 DEF Newest, latestVars
  <2>2. Newest \in Nat
    BY <1>2, Constants
  <2> QED  BY <1>2, <2>1, <2>2
<1>5. CASE MakeStep
  <2>1. Newest <= Newest'
    <3>1. CASE MakeStart
      BY <1>3, <3>1 DEF MakeStart, latestVars, Newest
    <3>2. CASE MakeBuild
      BY <1>1, <1>3, <3>2 DEF MakeBuild, latestVars, Newest, TypeOK
    <3>3. ASSUME NEW done, MakeFails(done) PROVE Newest <= Newest'
      BY <1>3, <3>3 DEF MakeFails, latestVars, Newest
    <3>4. CASE PublishInvalid \/ PublishPointer \/ PublishTs
      <4>1. make'.next = make.next /\ make.pc # "idle" /\ make.pc # "published" /\ published' = published
        BY <1>1, <3>4 DEF PublishInvalid, PublishPointer, PublishTs, TypeOK
      <4>2. published < make.next
        BY <1>1, <4>1 DEF Publication
      <4> QED  BY <1>3, <4>1, <4>2 DEF Newest
    <3>5. CASE Publish
      BY <1>3, <3>5 DEF Publish, Newest
    <3> QED  BY <1>5, <3>1, <3>2, <3>3, <3>4, <3>5 DEF MakeStep
  <2>2. latest_ts' = latest_ts \/ latest_ts' = InvalidTs \/ Newest < latest_ts'
    BY <1>1, <1>3, <1>5 DEF MakeStep, MakeStart, MakeBuild, MakeFails, PublishInvalid, PublishPointer,
       PublishTs, Publish, latestVars, Newest, Publication
  <2> QED  BY <1>2, <2>1, <2>2
<1> QED  BY <1>4, <1>5, ThreadFrame, GcFrame DEF Next, CommitElsewhere, vars

\* What others do keeps what Checkout and Snapshot say of a thread.
LEMMA SameThreadInv ==
  ASSUME IInv, [Next]_vars, NEW u \in Threads, SameThread(u)
  PROVE  Checkout(u)' /\ Snapshot(u)'
<1>1. /\ Newest \in Nat /\ Newest' \in Nat /\ Newest <= Newest'
      /\ latest_ts' = latest_ts \/ latest_ts' = InvalidTs \/ Newest < latest_ts'
      /\ master_ts \in Nat /\ master_ts' \in Nat /\ master_ts <= master_ts'
  BY NewestStep, StepType, EntriesStay, Constants DEF IInv, TypeOK
<1>2. /\ Checkout(u) /\ Snapshot(u)
      /\ loc[u] \in Nat /\ prior_checkpoint_ts[u] \in Nat /\ ts[u] \in Nat /\ next_ts[u] \in Nat
      /\ checkpoint[u] # None => checkpoint[u] \in Nat
  BY Constants, ReclaimAssumption DEF IInv, ThreadInv, TypeOK, AnyTs
<1>3. Checkout(u)'
  BY <1>1, <1>2 DEF Checkout, SameThread
<1>4. Snapshot(u)'
  BY <1>1, <1>2 DEF Snapshot, SameThread
<1> QED  BY <1>3, <1>4

\* What the thread that takes a step can rely on.
Facts(t) ==
  /\ Checkout(t) /\ Snapshot(t) /\ Newest \in Nat /\ master_ts \in Nat /\ Newest <= master_ts
  /\ latest_ts = InvalidTs \/ (latest_ts = Newest /\ latest_cp = Newest)
  /\ InvalidTs \in Nat /\ Newest # InvalidTs /\ None \notin Nat /\ latest_cp \in Nat
  /\ loc[t] \in Nat /\ prior_checkpoint_ts[t] \in Nat /\ ts[t] \in Nat /\ next_ts[t] \in Nat
  /\ checkpoint_ts[t] \in Nat /\ next_ts[t] # InvalidTs /\ master_ts # InvalidTs
  /\ checkpoint[t] # None => checkpoint[t] \in Nat /\ checkpoint[t] # InvalidTs

\* The invariant gives the facts that the lemmas on a thread use.
LEMMA FactsHold == ASSUME IInv, NEW t \in Threads PROVE Facts(t)
<1>1. TypeOK /\ Publication /\ Checkout(t) /\ Snapshot(t)
  BY DEF IInv, ThreadInv
<1>2. InvalidTs \in Nat /\ None \notin Nat /\ InvalidTs \notin Versions /\ Versions \subseteq Nat
  BY ReclaimAssumption, Constants
<1>3. Newest \in Versions /\ Newest <= master_ts
  BY <1>1 DEF Newest, TypeOK, Publication
<1>4. latest_ts = InvalidTs \/ (latest_ts = Newest /\ latest_cp = Newest)
  BY <1>1 DEF Newest, Publication
<1>5. /\ loc[t] \in Nat /\ prior_checkpoint_ts[t] \in Nat /\ ts[t] \in Nat /\ checkpoint_ts[t] \in Nat
      /\ next_ts[t] \in Versions /\ master_ts \in Versions /\ latest_cp \in Versions
      /\ checkpoint[t] # None => checkpoint[t] \in Versions
  BY <1>1, <1>2 DEF TypeOK, AnyTs
<1> QED  BY <1>1, <1>2, <1>3, <1>4, <1>5 DEF Facts

\* Each step of a thread preserves what relates its fields.
LEMMA CommitThread ==
  ASSUME IInv, NEW t \in Threads, NEW W, Commit(t, W), TypeOK'
  PROVE  Checkout(t)' /\ Snapshot(t)'
<1>1. /\ pc[t] = "idle" /\ ts[t] # InvalidTs /\ pc'[t] = "latest" /\ master_ts' = master_ts + 1
      /\ UNCHANGED <<latest_ts, Newest, pinVars, ts, checkpoint, loc, next_ts>>
  BY DEF IInv, TypeOK, Commit, NewEntry, Goto, latestVars, Newest
<1>2. Facts(t)
  BY FactsHold
<1>3. Checkout(t)'
  BY <1>1, <1>2 DEF Facts, Checkout, HoldPcs, pinVars
<1>4. Snapshot(t)'
  BY <1>1, <1>2 DEF Facts, Snapshot, pinVars
<1> QED  BY <1>3, <1>4

\* The first read of latest_checkpoint.ts keeps what Checkout and Snapshot say of the thread.
LEMMA ReadLatestThread ==
  ASSUME IInv, Ordered, NEW t \in Threads, ReadLatest(t)
  PROVE  Checkout(t)' /\ Snapshot(t)'
<1>1. /\ pc[t] \in {"idle", "latest"} /\ loc'[t] = latest_ts
      /\ pc'[t] = IF checkpoint_ts[t] = latest_ts THEN "master" ELSE "pointer"
      /\ latest_ts = InvalidTs => checkpoint_ts[t] # InvalidTs
      /\ UNCHANGED <<latest_ts, master_ts, Newest, pinVars, ts, checkpoint, next_ts, mapped>>
  BY DEF IInv, TypeOK, ReadLatest, Goto, latestVars, sharedVars, Newest, Ordered
<1>2. Facts(t)
  BY FactsHold
<1>3. Checkout(t)'
  BY <1>1, <1>2 DEF Facts, Checkout, HoldPcs, pinVars
<1>4. Snapshot(t)'
  BY <1>1, <1>2 DEF Facts, Snapshot, pinVars
<1> QED  BY <1>3, <1>4

\* The read of latest_checkpoint.checkpoint keeps what Checkout and Snapshot say of the thread.
LEMMA ReadPointerThread ==
  ASSUME IInv, NEW t \in Threads, ReadPointer(t)
  PROVE  Checkout(t)' /\ Snapshot(t)'
<1>1. /\ pc[t] = "pointer" /\ checkpoint'[t] = latest_cp /\ pc'[t] = "pin"
      /\ UNCHANGED <<latest_ts, master_ts, Newest, pinVars, ts, loc, next_ts, mapped>>
  BY DEF IInv, TypeOK, ReadPointer, Goto, latestVars, sharedVars, Newest
<1>2. Facts(t)
  BY FactsHold
<1>3. Checkout(t)'
  BY <1>1, <1>2 DEF Facts, Checkout, HoldPcs, pinVars
<1>4. Snapshot(t)'
  BY <1>1, <1>2 DEF Facts, Snapshot, pinVars
<1> QED  BY <1>3, <1>4

\* The store of the pin keeps what Checkout and Snapshot say of the thread.
LEMMA PinThread ==
  ASSUME IInv, NEW t \in Threads, Pin(t)
  PROVE  Checkout(t)' /\ Snapshot(t)'
<1>1. /\ pc[t] = "pin" /\ buffer'[t] = loc[t] /\ pc'[t] = "check"
      /\ UNCHANGED <<latest_ts, master_ts, Newest, checkpoint_ts, prior_checkpoint_ts, ts, checkpoint,
                     loc, next_ts, mapped>>
  BY DEF IInv, TypeOK, Pin, Goto, latestVars, sharedVars, Newest
<1>2. Facts(t)
  BY FactsHold
<1>3. Checkout(t)'
  BY <1>1, <1>2 DEF Facts, Checkout, HoldPcs
<1>4. Snapshot(t)'
  BY <1>1, <1>2 DEF Facts, Snapshot
<1> QED  BY <1>3, <1>4

\* Draining the store buffer keeps what Checkout and Snapshot say of the thread.
LEMMA DrainStoreThread ==
  ASSUME IInv, NEW t \in Threads, DrainStore(t)
  PROVE  Checkout(t)' /\ Snapshot(t)'
<1>1. /\ buffer[t] # None /\ checkpoint_ts'[t] = buffer[t] /\ buffer'[t] = None
      /\ UNCHANGED <<latest_ts, master_ts, Newest, prior_checkpoint_ts, threadVars>>
  BY DEF IInv, TypeOK, DrainStore, latestVars, sharedVars, Newest
<1>2. Facts(t)
  BY FactsHold
<1>3. Checkout(t)'
  BY <1>1, <1>2 DEF Facts, Checkout, HoldPcs, threadVars
<1>4. Snapshot(t)'
  BY <1>1, <1>2 DEF Facts, Snapshot, threadVars
<1> QED  BY <1>3, <1>4

\* The second read of latest_checkpoint.ts keeps what Checkout and Snapshot say of the thread.
LEMMA CheckThread ==
  ASSUME IInv, Ordered, NEW t \in Threads, Check(t)
  PROVE  Checkout(t)' /\ Snapshot(t)'
<1>1. /\ pc[t] = "check" /\ buffer[t] = None
      /\ pc'[t] = IF latest_ts = loc[t] /\ loc[t] # InvalidTs THEN "master" ELSE "reload"
      /\ UNCHANGED <<latest_ts, master_ts, Newest, pinVars, ts, checkpoint, loc, next_ts, mapped>>
  BY DEF IInv, TypeOK, Check, Goto, latestVars, sharedVars, Newest, Ordered
<1>2. Facts(t)
  BY FactsHold
<1>3. Checkout(t)'
  BY <1>1, <1>2 DEF Facts, Checkout, HoldPcs, pinVars
<1>4. Snapshot(t)'
  BY <1>1, <1>2 DEF Facts, Snapshot, pinVars
<1> QED  BY <1>3, <1>4

\* Another round of the double read keeps what Checkout and Snapshot say of the thread.
LEMMA ReloadThread ==
  ASSUME IInv, NEW t \in Threads, Reload(t)
  PROVE  Checkout(t)' /\ Snapshot(t)'
<1>1. /\ pc[t] = "reload" /\ buffer[t] = None /\ loc'[t] = latest_ts /\ pc'[t] = "pointer"
      /\ UNCHANGED <<latest_ts, master_ts, Newest, pinVars, ts, checkpoint, next_ts, mapped>>
  BY DEF IInv, TypeOK, Reload, Goto, latestVars, sharedVars, Newest
<1>2. Facts(t)
  BY FactsHold
<1>3. Checkout(t)'
  BY <1>1, <1>2 DEF Facts, Checkout, HoldPcs, pinVars
<1>4. Snapshot(t)'
  BY <1>1, <1>2 DEF Facts, Snapshot, pinVars
<1> QED  BY <1>3, <1>4

\* The read of the master timestamp keeps what Checkout and Snapshot say of the thread.
LEMMA ReadMasterThread ==
  ASSUME IInv, NEW t \in Threads, ReadMaster(t)
  PROVE  Checkout(t)' /\ Snapshot(t)'
<1>1. /\ pc[t] = "master" /\ next_ts'[t] = master_ts /\ pc'[t] = "update"
      /\ UNCHANGED <<latest_ts, master_ts, Newest, pinVars, ts, checkpoint, loc, mapped>>
  BY DEF IInv, TypeOK, ReadMaster, Goto, latestVars, sharedVars, Newest
<1>2. Facts(t)
  BY FactsHold
<1>3. Checkout(t)'
  BY <1>1, <1>2 DEF Facts, Checkout, HoldPcs, pinVars
<1>4. loc[t] <= master_ts
  BY <1>1, <1>2 DEF Facts, Checkout, HoldPcs
<1>5. Snapshot(t)'
  BY <1>1, <1>2, <1>4 DEF Facts, Snapshot, pinVars
<1> QED  BY <1>3, <1>5

\* The update keeps what Checkout and Snapshot say of the thread.
LEMMA UpdateThread ==
  ASSUME IInv, NEW t \in Threads, Update(t) \/ EnterDirect(t)
  PROVE  Checkout(t)' /\ Snapshot(t)'
<1>1. /\ pc[t] = "update" /\ ts'[t] = next_ts[t] /\ pc'[t] = "release"
      /\ UNCHANGED <<latest_ts, master_ts, Newest, pinVars, checkpoint, loc, next_ts>>
  BY DEF IInv, TypeOK, Update, EnterDirect, Goto, latestVars, sharedVars, Newest
<1>2. Facts(t)
  BY FactsHold
<1>3. Checkout(t)'
  BY <1>1, <1>2 DEF Facts, Checkout, HoldPcs, pinVars
<1>4. Snapshot(t)'
  BY <1>1, <1>2 DEF Facts, Snapshot, pinVars
<1> QED  BY <1>3, <1>4

\* The end of sivfs_update keeps what Checkout and Snapshot say of the thread.
LEMMA ReturnThread ==
  ASSUME IInv, NEW t \in Threads, UpdateFails(t) \/ Release(t)
  PROVE  Checkout(t)' /\ Snapshot(t)'
<1>1. /\ pc[t] \in {"update", "release"} /\ buffer[t] = None /\ pc'[t] = "idle"
      /\ prior_checkpoint_ts'[t] = IF pc[t] = "update" THEN prior_checkpoint_ts[t] ELSE loc[t]
      /\ UNCHANGED <<latest_ts, master_ts, Newest, checkpoint_ts, buffer, ts, checkpoint, mapped>>
  BY ZenonT(20) DEF IInv, TypeOK, UpdateFails, Release, ReturnFrom, Goto, latestVars, sharedVars, pinVars, Newest
<1>2. Facts(t)
  BY FactsHold
<1>3. Checkout(t)'
  BY <1>1, <1>2 DEF Facts, Checkout, HoldPcs
<1>4. Snapshot(t)'
  BY <1>1, <1>2 DEF Facts, Checkout, HoldPcs, Snapshot
<1> QED  BY <1>3, <1>4

\* A page fault keeps what Checkout and Snapshot say of the thread.
LEMMA FaultThread ==
  ASSUME IInv, NEW t \in Threads, NEW p, Fault(t, p)
  PROVE  Checkout(t)' /\ Snapshot(t)'
<1>1. /\ pc[t] = "idle" /\ ts[t] # InvalidTs
      /\ UNCHANGED <<latest_ts, master_ts, Newest, pinVars, pc, ts, checkpoint, loc, next_ts>>
  BY DEF IInv, TypeOK, Fault, latestVars, sharedVars, Newest
<1>2. Facts(t)
  BY FactsHold
<1>3. Checkout(t)'
  BY <1>1, <1>2 DEF Facts, Checkout, HoldPcs, pinVars
<1>4. Snapshot(t)'
  BY <1>1, <1>2 DEF Facts, Snapshot, pinVars
<1> QED  BY <1>3, <1>4

\* The end of a transaction keeps what Checkout and Snapshot say of the thread.
LEMMA PauseThread ==
  ASSUME IInv, NEW t \in Threads, Pause(t)
  PROVE  Checkout(t)' /\ Snapshot(t)'
<1>1. /\ pc[t] = "idle" /\ pc' = pc /\ buffer[t] = None /\ buffer' = buffer
      /\ mapped'[t] = {} /\ ts'[t] = InvalidTs /\ checkpoint_ts'[t] = InvalidTs
      /\ prior_checkpoint_ts'[t] = InvalidTs /\ checkpoint'[t] = None
  BY DEF IInv, TypeOK, Pause
<1>2. Facts(t)
  BY FactsHold
<1>3. Checkout(t)'
  BY <1>1, <1>2 DEF Checkout, HoldPcs
<1>4. Snapshot(t)'
  BY <1>1, <1>2 DEF Snapshot
<1> QED  BY <1>3, <1>4

\* Every step preserves ThreadInv.
LEMMA ThreadInvStep == ASSUME IInv, Ordered, [Next]_vars PROVE ThreadInv'
<1> SUFFICES ASSUME NEW u \in Threads PROVE Checkout(u)' /\ Snapshot(u)'
  BY DEF ThreadInv
<1>1. TypeOK /\ TypeOK'
  BY StepType DEF IInv
<1>2. CASE SameThread(u)
  BY <1>2, SameThreadInv
<1>3. CASE ThreadStep(u)
  BY <1>1, <1>3, CommitThread, ReadLatestThread, ReadPointerThread, PinThread, DrainStoreThread,
     CheckThread, ReloadThread, ReadMasterThread, UpdateThread, ReturnThread, FaultThread, PauseThread
     DEF ThreadStep
<1> QED  BY <1>1, <1>2, <1>3, OthersSame

\* A thread that holds a checkpoint held it before or has checked out the latest.
LEMMA HoldsStep ==
  ASSUME IInv, Ordered, [Next]_vars, NEW u \in Threads, Holds(u)'
  PROVE  /\ checkpoint'[u] = checkpoint[u] /\ checkpoint[u] \in Versions
         /\ Holds(u) \/ (checkpoint[u] = latest_cp /\ checkpoint[u] = Newest)
<1>1. TypeOK /\ Facts(u)
  BY FactsHold DEF IInv
<1>2. CASE SameThread(u)
  BY <1>1, <1>2 DEF SameThread, Holds, TypeOK
<1>3. CASE ThreadStep(u)
  <2>1. CASE Check(u)
    <3>1. /\ pc[u] = "check" /\ buffer[u] = None /\ checkpoint'[u] = checkpoint[u] /\ checkpoint[u] # None
          /\ latest_ts = loc[u] /\ loc[u] # InvalidTs
      BY <1>1, <2>1 DEF TypeOK, Check, Goto, Ordered, Holds
    <3> QED  BY <1>1, <3>1 DEF Facts, Checkout, TypeOK
  <2>2. CASE ~Check(u)
    <3>1. pc'[u] \in HoldPcs => pc[u] \in HoldPcs /\ (checkpoint'[u] = checkpoint[u] \/ checkpoint'[u] = None)
      BY <1>1, <1>3, <2>2, ZenonT(20) DEF TypeOK, ThreadStep, Commit, ReadLatest, ReadPointer, Pin, DrainStore,
         Reload, ReadMaster, Update, EnterDirect, UpdateFails, Release, Fault, Pause, Goto, ReturnFrom,
         threadVars, HoldPcs
    <3> QED  BY <1>1, <3>1 DEF Holds, HoldPcs, TypeOK
  <2> QED  BY <2>1, <2>2
<1> QED  BY <1>1, <1>2, <1>3, OthersSame

\* A thread's timestamp only moves on, when it updates.
LEMMA TsStep ==
  ASSUME IInv, [Next]_vars, NEW u \in Threads, ts'[u] # InvalidTs
  PROVE  /\ ts[u] # InvalidTs => ts[u] <= ts'[u]
         /\ ts'[u] # ts[u] => pc[u] = "update" /\ ts'[u] = next_ts[u]
<1>1. TypeOK /\ Facts(u)
  BY FactsHold DEF IInv
<1>2. ts'[u] = ts[u] \/ (pc[u] = "update" /\ ts'[u] = next_ts[u])
  <2>1. CASE SameThread(u)
    BY <2>1 DEF SameThread
  <2>2. CASE ThreadStep(u)
    BY <1>1, <2>2 DEF TypeOK, ThreadStep, Commit, ReadLatest, ReadPointer, Pin, DrainStore, Check,
       Reload, ReadMaster, Update, EnterDirect, UpdateFails, Release, Fault, Pause, threadVars
  <2> QED  BY <1>1, <2>1, <2>2, OthersSame
<1>3. CASE ts'[u] = ts[u]
  <2>1. ts[u] # InvalidTs => ts[u] \in Nat
    BY <1>1, ReclaimAssumption DEF TypeOK, AnyTs, Versions
  <2> QED  BY <1>3, <2>1
<1>4. CASE pc[u] = "update" /\ ts'[u] = next_ts[u]
  BY <1>1, <1>4 DEF Facts, Snapshot
<1> QED  BY <1>2, <1>3, <1>4

\* A thread that is about to update holds a checkpoint from before its next timestamp.
LEMMA UpdateHolds ==
  ASSUME IInv, NEW u \in Threads, pc[u] \in {"update", "release"}
  PROVE  /\ Holds(u) /\ checkpoint[u] \in Nat /\ checkpoint[u] = loc[u]
         /\ pc[u] = "update" => checkpoint[u] <= next_ts[u]
         /\ pc[u] = "release" => checkpoint[u] <= ts[u]
<1>1. Facts(u)
  BY FactsHold
<1> QED  BY <1>1 DEF Facts, Checkout, Snapshot, Holds, HoldPcs

-----------------------------------------------------------------------------
(* Objects *)

\* What was written up to now stays so.
LEMMA WrittenStays ==
  ASSUME IInv, [Next]_vars, NEW p, NEW lo \in Nat, NEW hi \in Nat, hi <= master_ts
  PROVE  WrittenIn(writes', p, lo, hi) <=> WrittenIn(writes, p, lo, hi)
<1>1. master_ts \in Nat /\ \A i \in Ts : i <= master_ts => writes'[i] = writes[i]
  BY EntriesStay, Constants DEF IInv, TypeOK
<1>2. \A i \in Ts : i \in Nat /\ (i <= hi => i <= master_ts)
  BY <1>1, Constants
<1> QED  BY <1>1, <1>2 DEF WrittenIn

\* The objects that a new checkpoint replaces, and those that it keeps.
LEMMA ReplacedIs ==
  ASSUME IInv, make.pc = "build", NEW s \in Slots, NEW b \in Versions
  PROVE  /\ <<s, b>> \in Replaced <=>
              /\ b = tree[latest_cp][s]
              /\ s = Inode \/ WrittenIn(writes, s, latest_cp, make.next)
         /\ <<s, b>> \in Replaced => b <= latest_cp
<1>1. latest_ts = latest_cp /\ TypeOK /\ Sound(latest_cp)
  BY DEF IInv, Publication, Newest, Trees
<1>2. <<s, b>> \in Replaced <=> b = tree[latest_cp][s] /\ s \in Written(latest_ts, make.next) \cup {Inode}
  BY DEF Replaced
<1>3. s \in Written(latest_ts, make.next) <=> WrittenIn(writes, s, latest_cp, make.next)
  BY <1>1, WrittenMember
<1>4. tree[latest_cp][s] <= latest_cp
  BY <1>1, Constants DEF Sound, Slots, TypeOK
<1> QED  BY <1>1, <1>2, <1>3, <1>4

\* Every step preserves Obsoleted.
LEMMA ObsoletedStep == ASSUME IInv, [Next]_vars PROVE Obsoleted'
<1> SUFFICES ASSUME NEW s \in Slots, NEW b \in Versions, obsoleted'[<<s, b>>] # InvalidTs
             PROVE  /\ b < obsoleted'[<<s, b>>] /\ obsoleted'[<<s, b>>] <= master_ts'
                    /\ s \in Pages => WrittenIn(writes', s, b, obsoleted'[<<s, b>>])
  BY DEF Obsoleted
<1>1. /\ TypeOK /\ TypeOK' /\ Publication /\ Obsoleted /\ <<s, b>> \in Objects /\ b \in Nat
      /\ master_ts \in Nat /\ master_ts' \in Nat /\ master_ts <= master_ts'
  BY StepType, EntriesStay, Constants DEF IInv, TypeOK, Objects
<1>2. CASE obsoleted'[<<s, b>>] = obsoleted[<<s, b>>]
  <2>1. obsoleted[<<s, b>>] \in Nat
    BY ReclaimAssumption, Constants DEF IInv, TypeOK, AnyTs, Objects
  <2>2. /\ b < obsoleted[<<s, b>>] /\ obsoleted[<<s, b>>] <= master_ts
        /\ s \in Pages => WrittenIn(writes, s, b, obsoleted[<<s, b>>])
    BY <1>2 DEF IInv, Obsoleted
  <2>3. s \in Pages => WrittenIn(writes', s, b, obsoleted[<<s, b>>])
    BY <1>1, <2>1, <2>2, WrittenStays
  <2> QED  BY <1>1, <1>2, <2>1, <2>2, <2>3
<1>3. CASE make.pc = "build" /\ <<s, b>> \in Replaced /\ obsoleted'[<<s, b>>] = make.next
  <2>1. /\ b <= latest_cp /\ latest_cp = published /\ published < make.next /\ make.next <= master_ts
        /\ make.next \in Nat /\ latest_cp \in Nat
    BY <1>1, <1>3, ReplacedIs, Constants DEF Publication, TypeOK
  <2>2. s \in Pages => WrittenIn(writes, s, latest_cp, make.next)
    BY <1>3, ReplacedIs, Constants
  <2>3. s \in Pages => WrittenIn(writes, s, b, make.next)
    <3>1. b \in Nat /\ \A i \in Ts : i \in Nat
      BY <1>1, Constants
    <3>2. \A i \in Ts : latest_cp < i => b < i
      BY <2>1, <3>1
    <3> QED  BY <2>2, <3>2 DEF WrittenIn
  <2>4. s \in Pages => WrittenIn(writes', s, b, make.next)
    BY <1>1, <2>1, <2>3, WrittenStays
  <2> QED  BY <1>1, <1>3, <2>1, <2>4
<1>4. UNCHANGED obsoleted \/ (make.pc = "build" /\ \E done \in SUBSET Replaced :
        obsoleted' = [o \in Objects |-> IF o \in done THEN make.next ELSE obsoleted[o]])
  <2>1. CASE MakeStep
    BY <2>1 DEF MakeStep, MakeStart, MakeBuild, MakeFails, PublishInvalid, PublishPointer, PublishTs,
       Publish, objectVars
  <2> QED  BY <2>1, ThreadFrame, GcFrame DEF Next, CommitElsewhere, vars, objectVars
<1> QED  BY <1>1, <1>2, <1>3, <1>4

\* An object of a checkpoint is obsoleted after it.
LEMMA Lifetime ==
  ASSUME IInv, NEW c \in Versions, Sound(c), NEW s \in Slots
  PROVE  tree[c][s] \in Versions /\ tree[c][s] <= c /\ c < obsoleted[<<s, tree[c][s]>>]
<1> DEFINE b == tree[c][s]
           d == obsoleted[<<s, b>>]
<1>1. b \in Versions /\ b \in Nat /\ c \in Nat /\ c <= MaxTs /\ <<s, b>> \in Objects
  BY Constants DEF IInv, TypeOK, Versions, Objects
<1>2. d \in Nat
  BY <1>1, Constants, ReclaimAssumption DEF IInv, TypeOK, AnyTs
<1>3. b <= c
  BY <1>1 DEF Sound, Slots
<1> HIDE DEF b, d
<1>4. CASE d = InvalidTs
  BY <1>1, <1>2, <1>3, <1>4, ReclaimAssumption DEF b, d
<1>5. CASE d # InvalidTs
  <2>1. b < d /\ (s \in Pages => WrittenIn(writes, s, b, d))
    BY <1>1, <1>5 DEF IInv, Obsoleted, d
  <2>2. CASE s = Inode
    BY <1>1, <1>3, <2>1, <2>2 DEF Sound, b, d
  <2>3. CASE s \in Pages
    <3>1. ~WrittenIn(writes, s, b, c)
      BY <2>3 DEF Sound, b
    <3>2. d <= c => WrittenIn(writes, s, b, c)
      BY <1>1, <1>2, <2>1, <2>3, Constants DEF WrittenIn
    <3> QED  BY <1>1, <1>2, <1>3, <3>1, <3>2 DEF b, d
  <2> QED  BY <2>2, <2>3 DEF Slots
<1> QED  BY <1>4, <1>5

\* What the collector frees is in none of the versions that it has read.
LEMMA Freed ==
  ASSUME IInv, GcStep, NEW s \in Slots, NEW b \in Versions, <<s, b>> \in alive, <<s, b>> \notin alive'
  PROVE  /\ "pages" \in DOMAIN gc /\ Scanned("pages")
         /\ obsoleted[<<s, b>>] \in Nat /\ obsoleted[<<s, b>>] <= gc["pages"].ms
         /\ \A v \in gc["pages"].versions : ~(b <= v /\ v < obsoleted[<<s, b>>])
<1>1. PICK swept : "pages" \in DOMAIN gc /\ GcSweep(swept)
  BY DEF GcStep, GcStart, GcReadPublished, GcReadCheckpoint, GcReadPrior, GcFails, GcDeleteLog, objectVars
<1>2. Scanned("pages") /\ Collectable(<<s, b>>, gc["pages"].ms, gc["pages"].versions)
  BY <1>1 DEF GcSweep
<1>3. obsoleted[<<s, b>>] \in Nat
  BY Constants, ReclaimAssumption DEF IInv, TypeOK, AnyTs, Objects
<1> QED  BY <1>1, <1>2, <1>3 DEF Collectable, Blockers

\* A checkpoint that is as new as what the collector started from, or that it has read,
\* is kept.
LEMMA TreeKept ==
  ASSUME IInv, GcStep, NEW c \in Versions, Sound(c), NEW s \in Slots,
         "pages" \in DOMAIN gc /\ Scanned("pages") =>
           gc["pages"].ms <= c \/ c \in gc["pages"].versions
  PROVE  <<s, tree[c][s]>> \in alive'
<1>1. /\ tree[c][s] \in Versions /\ tree[c][s] <= c /\ c < obsoleted[<<s, tree[c][s]>>]
      /\ <<s, tree[c][s]>> \in alive
  BY Lifetime DEF Sound
<1>2. c \in Nat /\ ("pages" \in DOMAIN gc => gc["pages"].ms \in Nat)
  BY Constants DEF IInv, TypeOK
<1> SUFFICES ASSUME <<s, tree[c][s]>> \notin alive' PROVE FALSE
  OBVIOUS
<1>3. /\ "pages" \in DOMAIN gc /\ Scanned("pages")
      /\ obsoleted[<<s, tree[c][s]>>] \in Nat /\ obsoleted[<<s, tree[c][s]>>] <= gc["pages"].ms
      /\ \A v \in gc["pages"].versions : ~(tree[c][s] <= v /\ v < obsoleted[<<s, tree[c][s]>>])
  BY <1>1, Freed
<1> QED  BY <1>1, <1>2, <1>3

\* Sound(c) after a step, of a checkpoint c of now.
SoundNext(c) ==
  /\ c <= master_ts' /\ tree'[c][Inode] = c
  /\ \A p \in Pages : tree'[c][p] <= c /\ ~WrittenIn(writes', p, tree'[c][p], c)
  /\ \A s \in Slots : <<s, tree'[c][s]>> \in alive'

\* A checkpoint whose objects stay allocated stays sound.
LEMMA SoundStays ==
  ASSUME IInv, [Next]_vars, NEW c \in Versions, Sound(c), tree'[c] = tree[c],
         \A s \in Slots : <<s, tree[c][s]>> \in alive'
  PROVE  SoundNext(c)
<1>1. /\ master_ts \in Nat /\ master_ts' \in Nat /\ master_ts <= master_ts' /\ c \in Nat
      /\ \A p \in Pages : tree[c][p] \in Nat
  <2>1. TypeOK /\ TypeOK' /\ master_ts <= master_ts'
    BY StepType, EntriesStay DEF IInv
  <2>2. \A p \in Pages : tree[c][p] \in Versions
    BY <2>1 DEF TypeOK, Slots
  <2> QED  BY <2>1, <2>2, Constants DEF TypeOK
<1>2. c <= master_ts'
  BY <1>1 DEF Sound
<1>3. \A p \in Pages : ~WrittenIn(writes', p, tree[c][p], c)
  BY <1>1, WrittenStays DEF Sound
<1> QED  BY <1>2, <1>3 DEF Sound, SoundNext

\* Until the next checkpoint is built the last one stays.
LEMMA HeadStep ==
  ASSUME IInv, MakeStep, ~MakeBuild
  PROVE  Head' = Head /\ latest_cp' \in {latest_cp, Head} /\ UNCHANGED <<tree, alive, obsoleted_entries, group>>
<1>1. TypeOK /\ Publication
  BY DEF IInv
<1>2. CASE MakeStart
  BY <1>1, <1>2 DEF MakeStart, Head, latestVars, objectVars
<1>3. ASSUME NEW done, MakeFails(done)
      PROVE  Head' = Head /\ latest_cp' \in {latest_cp, Head} /\ UNCHANGED <<tree, alive, obsoleted_entries, group>>
  BY <1>3 DEF MakeFails, Head, latestVars
<1>4. CASE PublishInvalid
  BY <1>1, <1>4 DEF PublishInvalid, Head, objectVars, TypeOK
<1>5. CASE PublishPointer
  BY <1>1, <1>5 DEF PublishPointer, Head, objectVars, TypeOK
<1>6. CASE PublishTs
  BY <1>1, <1>6 DEF PublishTs, Head, objectVars, TypeOK
<1>7. CASE Publish
  BY <1>1, <1>7 DEF Publish, Head, objectVars
<1> QED  BY <1>2, <1>3, <1>4, <1>5, <1>6, <1>7 DEF MakeStep

\* The tree that sivfs_make_checkpoint builds.
LEMMA Built ==
  ASSUME IInv, MakeBuild
  PROVE  /\ Head = latest_cp /\ Head' = make.next /\ latest_cp' = latest_cp
         /\ latest_cp < make.next /\ make.next <= master_ts
         /\ \A c \in Versions : c # make.next => tree'[c] = tree[c]
         /\ \A s \in Slots : tree'[make.next][s] =
              IF s = Inode \/ WrittenIn(writes, s, latest_cp, make.next) THEN make.next ELSE tree[latest_cp][s]
         /\ \A s \in Slots, b \in Versions :
              /\ <<s, b>> \in alive' <=>
                   \/ <<s, b>> \in alive
                   \/ b = make.next /\ (s = Inode \/ WrittenIn(writes, s, latest_cp, make.next))
              /\ <<s, b>> \in obsoleted_entries' <=>
                   <<s, b>> \in obsoleted_entries \/ <<s, b>> \in Replaced
<1>1. /\ TypeOK /\ Publication /\ make.pc = "build" /\ make.next \in Versions /\ latest_ts = latest_cp
      /\ latest_cp \in Versions
  BY DEF IInv, MakeBuild, TypeOK, Publication, Newest
<1>2. Head = latest_cp /\ Head' = make.next /\ latest_cp' = latest_cp
  BY <1>1 DEF MakeBuild, Head, TypeOK, latestVars
<1>3. latest_cp < make.next /\ make.next <= master_ts
  BY <1>1 DEF Publication
<1>4. /\ \A c \in Versions : c # make.next => tree'[c] = tree[c]
      /\ \A s \in Slots : tree'[make.next][s] =
           IF s = Inode \/ WrittenIn(writes, s, latest_cp, make.next) THEN make.next ELSE tree[latest_cp][s]
  BY <1>1, WrittenMember DEF MakeBuild, TypeOK
<1>5. ASSUME NEW s \in Slots, NEW b \in Versions
      PROVE  <<s, b>> \in alive' <=>
               \/ <<s, b>> \in alive
               \/ b = make.next /\ (s = Inode \/ WrittenIn(writes, s, latest_cp, make.next))
  <2>1. (\E o \in Replaced : o[1] = s) <=> s = Inode \/ WrittenIn(writes, s, latest_cp, make.next)
    <3> DEFINE S == Written(latest_ts, make.next) \cup {Inode}
               P == {<<x, tree[latest_cp][x]>> : x \in S}
    <3>1. (\E o \in Replaced : o[1] = s) <=> s \in Written(latest_ts, make.next) \cup {Inode}
      <4>1. Replaced = P
        BY DEF Replaced
      <4> HIDE DEF S
      <4>2. s \in S => <<s, tree[latest_cp][s]>> \in P
        OBVIOUS
      <4>3. \A o \in P : o[1] \in S
        OBVIOUS
      <4>4. (\E o \in P : o[1] = s) <=> s \in S
        BY <4>2, <4>3
      <4> QED  BY <4>1, <4>4 DEF S
    <3> QED  BY <1>1, <3>1, WrittenMember
  <2>2. <<s, b>> \in {<<o[1], make.next>> : o \in Replaced} <=> b = make.next /\ \E o \in Replaced : o[1] = s
    OBVIOUS
  <2>3. alive' = alive \cup {<<o[1], make.next>> : o \in Replaced}
    BY DEF MakeBuild
  <2> QED  BY <2>1, <2>2, <2>3
<1>6. obsoleted_entries' = obsoleted_entries \cup Replaced
  BY DEF MakeBuild
<1> QED  BY <1>2, <1>3, <1>4, <1>5, <1>6

\* Every step preserves Trees: the sweep spares the checkpoints in use.
LEMMA TreesStep == ASSUME IInv, Ordered, [Next]_vars PROVE Trees'
<1>1. /\ TypeOK /\ Publication /\ Trees /\ latest_cp \in Versions /\ Head \in Versions
      /\ \A t \in Threads : Holds(t) => checkpoint[t] \in Versions
  BY DEF IInv, TypeOK, Head, Holds
<1>2. CASE MakeBuild
  <2>1. /\ make.next \in Versions /\ make.next \in Nat /\ latest_cp \in Nat /\ master_ts \in Nat
        /\ \A s \in Slots : tree[latest_cp][s] \in Versions
    BY <1>1, Constants DEF TypeOK
  <2>2. UNCHANGED <<master_ts, writes, threadVars>> /\ alive \subseteq alive'
    BY <1>2 DEF MakeBuild, sharedVars
  <2>3. SoundNext(make.next)
    <3>1. make.next <= master_ts' /\ tree'[make.next][Inode] = make.next
      BY <1>2, <2>2, Built DEF Slots
    <3>2. ASSUME NEW p \in Pages
          PROVE  tree'[make.next][p] <= make.next /\ ~WrittenIn(writes', p, tree'[make.next][p], make.next)
      <4>1. latest_cp < make.next /\ p \in Slots /\ p # Inode
        BY <1>2, Built, Constants DEF Slots
      <4>2. CASE WrittenIn(writes, p, latest_cp, make.next)
        <5>1. tree'[make.next][p] = make.next
          BY <1>2, <4>1, <4>2, Built
        <5>2. ~WrittenIn(writes', p, make.next, make.next)
          BY <2>1, Constants DEF WrittenIn
        <5> QED  BY <2>1, <5>1, <5>2
      <4>3. CASE ~WrittenIn(writes, p, latest_cp, make.next)
        <5>1. tree'[make.next][p] = tree[latest_cp][p] /\ tree[latest_cp][p] \in Nat
          BY <1>2, <2>1, <4>1, <4>3, Built, Constants
        <5>2. tree[latest_cp][p] <= latest_cp /\ ~WrittenIn(writes, p, tree[latest_cp][p], latest_cp)
          BY <1>1 DEF Trees, Sound
        <5>3. ~WrittenIn(writes, p, tree[latest_cp][p], make.next)
          <6> SUFFICES ASSUME NEW i \in Ts, tree[latest_cp][p] < i, i <= make.next, p \in writes[i]
                       PROVE  FALSE
            BY DEF WrittenIn
          <6>1. i \in Nat
            BY Constants
          <6>2. CASE i <= latest_cp
            BY <5>2, <6>2 DEF WrittenIn
          <6>3. CASE latest_cp < i
            BY <4>3, <6>3 DEF WrittenIn
          <6> QED  BY <2>1, <6>1, <6>2, <6>3
        <5> QED  BY <2>1, <2>2, <4>1, <5>1, <5>2, <5>3
      <4> QED  BY <4>2, <4>3
    <3>3. ASSUME NEW s \in Slots PROVE <<s, tree'[make.next][s]>> \in alive'
      <4>1. <<s, tree[latest_cp][s]>> \in alive
        BY <1>1, <3>3 DEF Trees, Sound
      <4> QED  BY <1>2, <2>1, <2>2, <3>3, <4>1, Built
    <3> QED  BY <3>1, <3>2, <3>3 DEF SoundNext
  <2>4. ASSUME NEW c \in Versions, Sound(c), c <= latest_cp PROVE SoundNext(c)
    <3>1. c # make.next
      BY <1>2, <2>1, <2>4, Built, Constants
    <3>2. tree'[c] = tree[c] /\ \A s \in Slots : <<s, tree[c][s]>> \in alive'
      BY <1>2, <2>2, <2>4, <3>1, Built DEF Sound
    <3> QED  BY <2>4, <3>2, SoundStays
  <2>5. Newest = latest_cp
    BY <1>1, <1>2 DEF Newest, Publication, MakeBuild
  <2>6. \A t \in Threads : Holds(t) => checkpoint[t] <= latest_cp
    BY <2>5 DEF IInv, ThreadInv, Checkout, Holds, HoldPcs
  <2>7. \A t \in Threads : Holds(t) => SoundNext(checkpoint[t])
    BY <1>1, <2>4, <2>6 DEF Trees
  <2>8. SoundNext(latest_cp)
    BY <1>1, <2>1, <2>4 DEF Trees
  <2>9. latest_cp' = latest_cp /\ Head' = make.next
    BY <1>2, Built
  <2>10. Sound(latest_cp)'
    BY <2>8, <2>9 DEF Sound, SoundNext
  <2>11. Sound(Head)'
    BY <2>3, <2>9 DEF Sound, SoundNext
  <2>12. \A t \in Threads : Holds(t)' => Sound(checkpoint[t])'
    BY <2>2, <2>7 DEF Holds, Sound, SoundNext, threadVars
  <2> QED  BY <2>10, <2>11, <2>12 DEF Trees
<1>3. CASE ~MakeBuild
  <2>1. UNCHANGED tree /\ (GcStep \/ alive' = alive)
    BY <1>3, ThreadFrame, GcFrame, HeadStep DEF Next, CommitElsewhere, vars, objectVars
  <2>2. Head' = Head /\ latest_cp' \in {latest_cp, Head}
    BY <1>3, ThreadFrame, GcFrame, HeadStep DEF Next, CommitElsewhere, vars, latestVars, Head
  <2>3. ASSUME NEW c \in Versions, Sound(c), GcStep /\ "pages" \in DOMAIN gc /\ Scanned("pages") =>
                 gc["pages"].ms <= c \/ c \in gc["pages"].versions
        PROVE  SoundNext(c)
    <3>1. \A s \in Slots : <<s, tree[c][s]>> \in alive'
      <4>1. CASE GcStep
        BY <2>3, <4>1, TreeKept
      <4>2. CASE alive' = alive
        BY <2>3, <4>2 DEF Sound
      <4> QED  BY <2>1, <4>1, <4>2
    <3> QED  BY <2>1, <2>3, <3>1, SoundStays
  <2>4. "pages" \in DOMAIN gc => gc["pages"].ms <= latest_cp /\ gc["pages"].ms <= Head
    <3>1. published <= latest_cp /\ published <= Head /\ published \in Nat /\ latest_cp \in Nat /\ Head \in Nat
      BY <1>1, Constants DEF Publication, Head, TypeOK
    <3>2. "pages" \in DOMAIN gc => gc["pages"].ms <= published /\ gc["pages"].ms \in Nat
      BY <1>1, Constants DEF Publication, TypeOK
    <3> QED  BY <3>1, <3>2
  <2>5. SoundNext(latest_cp) /\ SoundNext(Head)
    BY <1>1, <2>3, <2>4 DEF Trees
  <2>6. Sound(latest_cp)' /\ Sound(Head)'
    <3>1. Sound(Head)'
      BY <2>2, <2>5 DEF Sound, SoundNext
    <3>2. Sound(latest_cp)'
      BY <2>2, <2>5 DEF Sound, SoundNext
    <3> QED  BY <3>1, <3>2
  <2>7. ASSUME NEW t \in Threads, Holds(t)' PROVE Sound(checkpoint[t])'
    <3>1. checkpoint'[t] = checkpoint[t] /\ (Holds(t) \/ checkpoint[t] = latest_cp)
      BY <2>7, HoldsStep
    <3>2. SoundNext(checkpoint[t])
      <4>1. CASE checkpoint[t] = latest_cp
        BY <2>5, <4>1
      <4>2. CASE Holds(t)
        <5>1. "pages" \in DOMAIN gc /\ Scanned("pages") =>
                gc["pages"].ms <= checkpoint[t] \/ checkpoint[t] \in gc["pages"].versions
          BY <4>2 DEF IInv, ReadInv, Read, Scanned
        <5> QED  BY <1>1, <2>3, <4>2, <5>1 DEF Trees
      <4> QED  BY <3>1, <4>1, <4>2
    <3> QED  BY <3>1, <3>2 DEF Sound, SoundNext
  <2> QED  BY <2>6, <2>7 DEF Trees
<1> QED  BY <1>2, <1>3

\* The crew of collectors does not change.
LEMMA DomainStep == ASSUME IInv, [Next]_vars PROVE DOMAIN gc' = DOMAIN gc
<1>1. CASE GcStep
  <2>1. TypeOK
    BY DEF IInv
  <2>2. ASSUME NEW c \in DOMAIN gc, GcStart(c) \/ GcReadPublished(c) \/ GcFails(c)
        PROVE  DOMAIN gc' = DOMAIN gc
    BY <2>1, <2>2 DEF GcStart, GcReadPublished, GcFails, TypeOK
  <2>3. ASSUME NEW c \in DOMAIN gc, NEW t \in Threads, GcReadCheckpoint(c, t) \/ GcReadPrior(c, t)
        PROVE  DOMAIN gc' = DOMAIN gc
    BY <2>1, <2>3 DEF GcReadCheckpoint, GcReadPrior, TypeOK
  <2>4. ASSUME NEW swept, GcSweep(swept) \/ GcDeleteLog
        PROVE  DOMAIN gc' = DOMAIN gc
    BY <2>1, <2>4 DEF GcSweep, GcDeleteLog, TypeOK
  <2> QED  BY <1>1, <2>2, <2>3, <2>4 DEF GcStep
<1> QED  BY <1>1, ThreadFrame, MakeFrame DEF Next, CommitElsewhere, vars

\* Every step preserves Remembered.
LEMMA RememberedStep == ASSUME IInv, [Next]_vars PROVE Remembered'
<1> SUFFICES ASSUME NEW s \in Slots, NEW b \in Versions, <<s, b>> \in alive', "pages" \in DOMAIN gc'
             PROVE  \/ tree'[Head'][s] = b
                    \/ <<s, b>> \in obsoleted_entries'
                    \/ group'[<<s, b>>] # None
  BY DEF Remembered
<1>1. /\ TypeOK /\ "pages" \in DOMAIN gc /\ <<s, b>> \in Objects
      /\ <<s, b>> \in alive => \/ tree[Head][s] = b
                               \/ <<s, b>> \in obsoleted_entries
                               \/ group[<<s, b>>] # None
  BY DomainStep DEF IInv, Remembered, Objects
<1>2. CASE MakeBuild
  <2>1. group' = group /\ make.pc = "build"
    BY <1>2 DEF MakeBuild
  <2>2. CASE <<s, b>> \in alive
    <3>1. CASE tree[Head][s] = b
      BY <1>1, <1>2, <2>1, <3>1, Built, ReplacedIs
    <3>2. CASE <<s, b>> \in obsoleted_entries
      BY <1>2, <3>2, Built
    <3>3. CASE group[<<s, b>>] # None
      BY <2>1, <3>3
    <3> QED  BY <1>1, <2>2, <3>1, <3>2, <3>3
  <2>3. CASE <<s, b>> \notin alive
    BY <1>2, <2>3, Built
  <2> QED  BY <2>2, <2>3
<1>3. CASE GcStep
  <2>1. UNCHANGED <<tree, Head>>
    BY <1>3, GcFrame DEF Head, latestVars
  <2>2. <<s, b>> \in alive
    BY <1>3 DEF GcStep, GcStart, GcReadPublished, GcReadCheckpoint, GcReadPrior, GcFails, GcSweep,
       GcDeleteLog, objectVars
  <2>3. CASE UNCHANGED <<obsoleted_entries, group>>
    BY <1>1, <2>1, <2>2, <2>3
  <2>4. ASSUME NEW c, GcStart(c), c = "pages"
        PROVE  tree'[Head'][s] = b \/ group'[<<s, b>>] # None
    <3>1. group'[<<s, b>>] = IF <<s, b>> \in obsoleted_entries THEN InvalidTs ELSE group[<<s, b>>]
      BY <1>1, <2>4 DEF GcStart
    <3>2. InvalidTs # None
      BY ReclaimAssumption
    <3> QED  BY <1>1, <2>1, <2>2, <3>1, <3>2
  <2>5. ASSUME NEW swept, GcSweep(swept)
        PROVE  \/ tree'[Head'][s] = b
               \/ <<s, b>> \in obsoleted_entries'
               \/ group'[<<s, b>>] # None
    <3>1. obsoleted_entries' = obsoleted_entries
      BY <2>5 DEF GcSweep
    <3>2. ~(<<s, b>> \in swept /\ Collectable(<<s, b>>, gc["pages"].ms, gc["pages"].versions))
      BY <2>5 DEF GcSweep
    <3>3. group'[<<s, b>>] = None => group[<<s, b>>] = None
      BY <1>1, <2>5, <3>2, SweepGroup
    <3> QED  BY <1>1, <2>1, <2>2, <3>1, <3>3
  <2> QED  BY <1>3, <2>3, <2>4, <2>5 DEF GcStep, GcStart, GcReadPublished, GcReadCheckpoint, GcReadPrior,
              GcFails, GcDeleteLog, objectVars
<1>4. CASE ~MakeBuild /\ ~GcStep
  <2>1. UNCHANGED <<tree, alive, obsoleted_entries, group, Head>>
    BY <1>4, ThreadFrame, HeadStep DEF Next, CommitElsewhere, vars, objectVars, latestVars, Head
  <2> QED  BY <1>1, <2>1
<1> QED  BY <1>2, <1>3, <1>4
-----------------------------------------------------------------------------
(* What the invariant says *)

\* What is checked out exists.
LEMMA CheckedOutAliveFollows == IInv => CheckedOutAlive
BY DEF IInv, Trees, Sound, CheckedOutAlive, TreeOf

\* So does what is mapped.
LEMMA MappedAliveFollows == IInv => MappedAlive
<1> SUFFICES ASSUME IInv, ~AsksDirect, NEW t \in Threads, NEW o \in mapped[t]
             PROVE  o \in alive
  BY DEF MappedAlive, MappedAllocated
<1>1. MappedHeld(t)
  BY DEF IInv, MappedInv
<1>2. o \in Objects
  BY DEF IInv, TypeOK
<1>3. PICK s \in Slots, b \in Versions : o = <<s, b>>
  BY <1>2 DEF Objects
<1> QED  BY <1>1, <1>3 DEF MappedHeld

\* What is mapped shows the snapshot.
LEMMA MappedCurrentFollows == IInv => MappedCurrent
<1> SUFFICES ASSUME IInv, ~AsksDirect, NEW t \in Threads, NEW o \in mapped[t]
             PROVE  o[1] \notin Written(o[2], ts[t])
  BY DEF MappedCurrent, MappedShowsSnapshot
<1>1. PICK s \in Slots, b \in Versions : o = <<s, b>>
  BY DEF IInv, TypeOK, Objects
<1>2. ~WrittenIn(writes, s, b, ts[t])
  BY <1>1 DEF IInv, MappedInv, MappedHeld
<1> QED  BY <1>1, <1>2, WrittenMember

\* The log has the entries that are needed.
LEMMA LogHeldFollows == IInv => LogHeld
<1> SUFFICES ASSUME IInv PROVE LogHeld
  OBVIOUS
<1>1. ASSUME NEW t \in Threads, ts[t] # InvalidTs, pc[t] = "idle"
      PROVE  Entries(checkpoint[t], ts[t]) \subseteq log
  <2>1. Facts(t)
    BY FactsHold
  <2>2. Holds(t) /\ ts[t] <= master_ts /\ ts[t] \in Nat /\ master_ts \in Nat
    BY <1>1, <2>1 DEF Facts, Checkout, HoldPcs, Holds, Snapshot
  <2>3. Entries(checkpoint[t], master_ts) \subseteq log
    BY <2>2 DEF IInv, LogKept
  <2>4. \A i \in Ts : i \in Nat /\ (i <= ts[t] => i <= master_ts)
    BY <2>2, Constants
  <2> QED  BY <2>3, <2>4 DEF Entries
<1>2. \A t \in Threads : ts[t] # InvalidTs => Entries(ts[t], master_ts) \subseteq log
  BY DEF IInv, LogKept
<1>3. latest_ts # InvalidTs => Entries(latest_ts, master_ts) \subseteq log
  <2>1. latest_ts # InvalidTs => /\ published \in Nat /\ latest_ts \in Nat /\ published <= latest_ts
    BY Constants DEF IInv, TypeOK, Publication, Newest
  <2>2. Entries(published, master_ts) \subseteq log
    BY DEF IInv, LogKept
  <2>3. latest_ts # InvalidTs => \A i \in Ts : i \in Nat /\ (latest_ts < i => published < i)
    BY <2>1, Constants
  <2> QED  BY <2>2, <2>3 DEF Entries
<1> QED  BY <1>1, <1>2, <1>3 DEF LogHeld

\* Nothing is forgotten.
LEMMA NoneForgottenFollows == IInv => NoneForgotten
<1> SUFFICES ASSUME IInv, NEW o \in alive
             PROVE  \/ o \in TreeOf(latest_cp)
                    \/ make.pc \in {"invalid", "pointer"} /\ o \in TreeOf(make.next)
                    \/ o \in obsoleted_entries \/ ("pages" \in DOMAIN gc => group[o] # None)
  BY DEF NoneForgotten, IInv
<1>1. PICK s \in Slots, b \in Versions : o = <<s, b>>
  BY DEF IInv, TypeOK, Objects
<1>2. CASE tree[Head][s] = b
  BY <1>1, <1>2 DEF TreeOf, Head
<1> QED  BY <1>1, <1>2 DEF IInv, Remembered

-----------------------------------------------------------------------------
(* Mapped pages *)

\* A page that is mapped was so before, or is faulted from the checkpoint held.
LEMMA MappedStep ==
  ASSUME IInv, [Next]_vars, NEW u \in Threads, NEW o \in mapped'[u]
  PROVE  \/ o \in mapped[u]
         \/ \E p \in Pages : Fault(u, p) /\ o = <<p, tree[checkpoint[u]][p]>>
<1>1. TypeOK
  BY DEF IInv
<1>2. CASE SameThread(u)
  BY <1>2 DEF SameThread
<1>3. CASE ThreadStep(u)
  <2>1. ASSUME NEW p \in Pages, Fault(u, p)
        PROVE  o \in mapped[u] \/ o = <<p, tree[checkpoint[u]][p]>>
    <3>1. mapped'[u] = mapped[u] \cup {<<p, tree[checkpoint[u]][p]>>}
      BY <1>1, <2>1 DEF TypeOK, Fault
    <3> QED  BY <3>1
  <2>2. CASE \E W \in SUBSET Pages : Commit(u, W)
    <3>1. PICK W \in SUBSET Pages : mapped'[u] = {q \in mapped[u] : q[1] \notin W}
      BY <1>1, <2>2 DEF TypeOK, Commit
    <3> QED  BY <3>1
  <2>3. CASE Update(u)
    <3>1. mapped'[u] = IF direct[u] THEN {}
                       ELSE {q \in mapped[u] : q[1] \notin Written(ts[u], next_ts[u])}
      BY <1>1, <2>3 DEF TypeOK, Update
    <3> QED  BY <3>1
  <2>4. CASE Pause(u)
    <3>1. mapped'[u] = {}
      BY <1>1, <2>4 DEF TypeOK, Pause
    <3> QED  BY <3>1
  <2>5. CASE mapped' = mapped
    BY <2>5
  <2> QED  BY <1>3, <2>1, <2>2, <2>3, <2>4, <2>5 DEF ThreadStep, ReadLatest, ReadPointer, Pin, DrainStore,
              Check, Reload, ReadMaster, EnterDirect, UpdateFails, Release, threadVars
<1> QED  BY <1>1, <1>2, <1>3, OthersSame

\* The page that is faulted, and that its checkpoint is held and not ahead.
LEMMA Faulted ==
  ASSUME IInv, NEW u \in Threads, NEW p \in Pages, Fault(u, p)
  PROVE  /\ Holds(u) /\ ts[u] # InvalidTs /\ ts[u] \in Nat /\ checkpoint[u] \in Versions
         /\ checkpoint[u] \in Nat /\ checkpoint[u] <= ts[u] /\ Sound(checkpoint[u])
         /\ tree[checkpoint[u]][p] \in Versions /\ tree[checkpoint[u]][p] \in Nat
         /\ tree[checkpoint[u]][p] <= checkpoint[u]
         /\ ~WrittenIn(writes, p, tree[checkpoint[u]][p], ts[u])
<1>1. /\ Holds(u) /\ ts[u] # InvalidTs /\ checkpoint[u] <= ts[u]
      /\ p \notin Written(checkpoint[u], ts[u])
  BY DEF Fault, Holds
<1>2. TypeOK /\ Sound(checkpoint[u])
  BY <1>1 DEF IInv, Trees
<1>3. /\ checkpoint[u] \in Versions /\ checkpoint[u] \in Nat /\ ts[u] \in Nat
  BY <1>1, <1>2, Constants, ReclaimAssumption DEF TypeOK, AnyTs, Holds
<1>4. tree[checkpoint[u]][p] \in Versions /\ tree[checkpoint[u]][p] \in Nat
  BY <1>2, <1>3, Constants DEF TypeOK, Slots
<1>5. tree[checkpoint[u]][p] <= checkpoint[u] /\ ~WrittenIn(writes, p, tree[checkpoint[u]][p], checkpoint[u])
  BY <1>2 DEF Sound
<1>6. ~WrittenIn(writes, p, checkpoint[u], ts[u])
  BY <1>1, WrittenMember
<1>7. ~WrittenIn(writes, p, tree[checkpoint[u]][p], ts[u])
  <2> SUFFICES ASSUME NEW i \in Ts, tree[checkpoint[u]][p] < i, i <= ts[u], p \in writes[i]
               PROVE  FALSE
    BY DEF WrittenIn
  <2>1. i \in Nat
    BY Constants
  <2>2. CASE i <= checkpoint[u]
    BY <1>5, <2>2 DEF WrittenIn
  <2>3. CASE checkpoint[u] < i
    BY <1>6, <2>3 DEF WrittenIn
  <2> QED  BY <1>3, <2>1, <2>2, <2>3
<1> QED  BY <1>1, <1>2, <1>3, <1>4, <1>5, <1>7

\* No page that is mapped is freed.
LEMMA MappedKept ==
  ASSUME IInv, ~AsksDirect, [Next]_vars, NEW u \in Threads, NEW s \in Slots, NEW b \in Versions,
         <<s, b>> \in mapped[u]
  PROVE  <<s, b>> \in alive'
<1>1. <<s, b>> \in alive /\ s \in Pages /\ ~WrittenIn(writes, s, b, ts[u])
  BY DEF IInv, MappedInv, MappedHeld
<1>2. CASE GcStep
  <2> SUFFICES ASSUME <<s, b>> \notin alive' PROVE FALSE
    OBVIOUS
  <2> DEFINE d == obsoleted[<<s, b>>]
  <2>1. /\ "pages" \in DOMAIN gc /\ Scanned("pages") /\ d \in Nat /\ d <= gc["pages"].ms
        /\ \A v \in gc["pages"].versions : ~(b <= v /\ v < d)
    BY <1>1, <1>2, Freed
  <2> HIDE DEF d
  <2>2. /\ TypeOK /\ b \in Nat /\ gc["pages"].ms \in Nat /\ gc["pages"].ms \in Versions
        /\ gc["pages"].versions \subseteq Nat /\ ts[u] \in Nat
    BY <2>1, Constants, ReclaimAssumption DEF IInv, TypeOK, AnyTs
  <2>3. d # InvalidTs
    BY <2>1, <2>2, ReclaimAssumption DEF Versions
  <2>4. WrittenIn(writes, s, b, d)
    BY <1>1, <2>3 DEF IInv, Obsoleted, d
  <2>5. ts[u] < d
    BY <1>1, <2>1, <2>2, <2>4, Constants DEF WrittenIn
  <2>6. gc["pages"].ms <= ts[u] \/ \E v \in gc["pages"].versions : b <= v /\ v <= ts[u]
    BY <2>1 DEF IInv, ReadInv, Read, Scanned
  <2> QED  BY <2>1, <2>2, <2>5, <2>6
<1>3. CASE ~GcStep
  <2>1. alive \subseteq alive'
    BY <1>3, ThreadFrame, HeadStep DEF Next, CommitElsewhere, vars, objectVars, MakeBuild
  <2> QED  BY <1>1, <2>1
<1> QED  BY <1>2, <1>3

\* Without direct access an update never finds the log gone.
LEMMA NoUpdateFails ==
  ASSUME IInv, ~AsksDirect, NEW u \in Threads, UpdateFails(u)
  PROVE  FALSE
<1>1. pc[u] = "update" /\ ts[u] # InvalidTs /\ ~(Entries(ts[u], next_ts[u]) \subseteq log)
  BY DEF UpdateFails
<1>2. Entries(ts[u], master_ts) \subseteq log
  BY <1>1 DEF IInv, LogKept
<1>3. next_ts[u] <= master_ts /\ next_ts[u] \in Nat /\ master_ts \in Nat
  BY <1>1, FactsHold DEF Facts, Snapshot
<1>4. \A i \in Ts : i \in Nat /\ (i <= next_ts[u] => i <= master_ts)
  BY <1>3, Constants
<1>5. Entries(ts[u], next_ts[u]) \subseteq Entries(ts[u], master_ts)
  BY <1>4 DEF Entries
<1> QED  BY <1>1, <1>2, <1>5

\* How a step changes what MappedHeld says of a thread's fields.
LEMMA PriorStep ==
  ASSUME IInv, ~AsksDirect, [Next]_vars, NEW u \in Threads
  PROVE  /\ ~direct'[u]
         /\ pc'[u] \in {"idle", "latest"} /\ ts'[u] # InvalidTs => prior_checkpoint_ts'[u] = checkpoint'[u]
         /\ \/ prior_checkpoint_ts'[u] = prior_checkpoint_ts[u]
            \/ mapped'[u] = {}
            \/ pc[u] = "release" /\ prior_checkpoint_ts'[u] = loc[u]
<1>1. TypeOK /\ Facts(u) /\ MappedHeld(u)
  BY FactsHold DEF IInv, MappedInv
<1>2. CASE SameThread(u)
  BY <1>1, <1>2 DEF SameThread, MappedHeld
<1>3. CASE ThreadStep(u)
  <2>1. CASE Release(u)
    <3>1. /\ pc[u] = "release" /\ prior_checkpoint_ts'[u] = loc[u] /\ checkpoint'[u] = checkpoint[u]
          /\ direct'[u] = direct[u]
      BY <1>1, <2>1 DEF TypeOK, Release
    <3>2. checkpoint[u] = loc[u]
      BY <3>1, UpdateHolds
    <3> QED  BY <1>1, <3>1, <3>2 DEF MappedHeld
  <2>2. CASE Pause(u)
    BY <1>1, <2>2 DEF TypeOK, Pause, MappedHeld
  <2>3. CASE Update(u)
    BY <1>1, <2>3 DEF TypeOK, Update, Goto, pinVars
  <2>4. CASE DrainStore(u)
    BY <1>1, <2>4 DEF TypeOK, DrainStore, Facts, Checkout, MappedHeld, threadVars
  <2>5. CASE UpdateFails(u) \/ EnterDirect(u)
    BY <2>5, NoUpdateFails DEF EnterDirect
  <2>6. CASE (\E W \in SUBSET Pages : Commit(u, W)) \/ (\E p \in Pages : Fault(u, p))
    BY <1>1, <2>6 DEF TypeOK, Commit, Fault, Goto, pinVars, MappedHeld
  <2>7. CASE ReadLatest(u) \/ ReadPointer(u) \/ Pin(u) \/ Check(u) \/ Reload(u) \/ ReadMaster(u)
    BY <1>1, <2>7 DEF TypeOK, ReadLatest, ReadPointer, Pin, Check, Reload, ReadMaster, Goto, pinVars,
       MappedHeld
  <2> QED  BY <1>3, <2>1, <2>2, <2>3, <2>4, <2>5, <2>6, <2>7 DEF ThreadStep
<1> QED  BY <1>1, <1>2, <1>3, OthersSame

\* A page that stays mapped has not been written up to the new timestamp.
LEMMA ShownStep ==
  ASSUME IInv, ~AsksDirect, [Next]_vars, NEW u \in Threads, NEW s \in Slots, NEW b \in Versions,
         <<s, b>> \in mapped[u], <<s, b>> \in mapped'[u]
  PROVE  ~WrittenIn(writes', s, b, ts'[u])
<1>1. /\ TypeOK /\ TypeOK' /\ Facts(u) /\ ~direct[u] /\ ~WrittenIn(writes, s, b, ts[u]) /\ ts[u] # InvalidTs
      /\ b \in Nat
  BY FactsHold, StepType, Constants DEF IInv, MappedInv, MappedHeld, ThreadInv, Snapshot
<1>2. ts[u] \in Nat /\ ts[u] <= master_ts /\ master_ts \in Nat
  BY <1>1 DEF Facts, Snapshot
<1>3. CASE ts'[u] = ts[u]
  BY <1>1, <1>2, <1>3, WrittenStays
<1>4. CASE ts'[u] # ts[u] /\ ts'[u] # InvalidTs
  <2>1. pc[u] = "update" /\ ts'[u] = next_ts[u]
    BY <1>4, TsStep
  <2>2. next_ts[u] \in Nat /\ next_ts[u] <= master_ts
    BY <1>1, <2>1 DEF Facts, Snapshot
  <2>3. ThreadStep(u)
    BY <1>1, <1>4, OthersSame DEF SameThread
  <2>4. Update(u)
    BY <1>1, <1>4, <2>1, <2>3, NoUpdateFails DEF ThreadStep, Commit, ReadLatest, ReadPointer, Pin, DrainStore,
       Check, Reload, ReadMaster, EnterDirect, Release, Fault, Pause, threadVars
  <2>5. mapped'[u] = {q \in mapped[u] : q[1] \notin Written(ts[u], next_ts[u])}
    BY <1>1, <2>4, ZenonT(20) DEF Update, TypeOK
  <2>6. ~WrittenIn(writes, s, ts[u], next_ts[u])
    BY <2>5, WrittenMember
  <2>7. ~WrittenIn(writes, s, b, next_ts[u])
    <3> SUFFICES ASSUME NEW i \in Ts, b < i, i <= next_ts[u], s \in writes[i]
                 PROVE  FALSE
      BY DEF WrittenIn
    <3>1. i \in Nat
      BY Constants
    <3>2. CASE i <= ts[u]
      BY <1>1, <3>2 DEF WrittenIn
    <3>3. CASE ts[u] < i
      BY <2>6, <3>3 DEF WrittenIn
    <3> QED  BY <1>2, <3>1, <3>2, <3>3
  <2> QED  BY <1>1, <2>1, <2>2, <2>7, WrittenStays
<1>5. CASE ts'[u] # ts[u] /\ ts'[u] = InvalidTs
  <2>1. ThreadStep(u)
    BY <1>1, <1>5, OthersSame DEF SameThread
  <2>2. Pause(u)
    BY <1>1, <1>5, <2>1 DEF ThreadStep, Commit, ReadLatest, ReadPointer, Pin, DrainStore, Check, Reload,
       ReadMaster, Update, EnterDirect, UpdateFails, Release, Fault, threadVars, TypeOK, Facts
  <2> QED  BY <1>1, <2>2 DEF Pause, TypeOK
<1> QED  BY <1>3, <1>4, <1>5

\* Every step preserves MappedInv.
LEMMA MappedInvStep == ASSUME IInv, [Next]_vars PROVE MappedInv'
<1> SUFFICES ASSUME ~AsksDirect, NEW u \in Threads PROVE MappedHeld(u)'
  BY DomainStep DEF MappedInv, AsksDirect
<1>1. TypeOK /\ TypeOK' /\ Facts(u) /\ MappedHeld(u)
  BY FactsHold, StepType DEF IInv, MappedInv
<1>2. ASSUME NEW s \in Slots, NEW b \in Versions, <<s, b>> \in mapped'[u]
      PROVE  /\ <<s, b>> \in alive' /\ s \in Pages /\ ~WrittenIn(writes', s, b, ts'[u])
             /\ prior_checkpoint_ts'[u] # InvalidTs /\ b <= prior_checkpoint_ts'[u]
  <2>1. CASE <<s, b>> \in mapped[u]
    <3>1. <<s, b>> \in alive' /\ ~WrittenIn(writes', s, b, ts'[u])
      BY <1>2, <2>1, MappedKept, ShownStep
    <3>2. s \in Pages /\ prior_checkpoint_ts[u] # InvalidTs /\ b <= prior_checkpoint_ts[u] /\ b \in Nat
      BY <1>1, <2>1, Constants DEF MappedHeld
    <3>3. CASE prior_checkpoint_ts'[u] = prior_checkpoint_ts[u]
      BY <3>1, <3>2, <3>3
    <3>4. CASE pc[u] = "release" /\ prior_checkpoint_ts'[u] = loc[u]
      <4>1. loc[u] # InvalidTs
        BY <1>1, <3>4, UpdateHolds DEF Facts, Holds
      <4>2. prior_checkpoint_ts[u] <= loc[u]
        BY <1>1, <3>2, <3>4, <4>1 DEF Facts, Snapshot
      <4> QED  BY <1>1, <3>1, <3>2, <3>4, <4>1, <4>2 DEF Facts
    <3> QED  BY <1>2, <3>3, <3>4, PriorStep
  <2>2. ASSUME NEW p \in Pages, Fault(u, p), <<s, b>> = <<p, tree[checkpoint[u]][p]>>
        PROVE  /\ <<s, b>> \in alive' /\ s \in Pages /\ ~WrittenIn(writes', s, b, ts'[u])
               /\ prior_checkpoint_ts'[u] # InvalidTs /\ b <= prior_checkpoint_ts'[u]
    <3>1. s = p /\ b = tree[checkpoint[u]][p]
      BY <2>2
    <3>2. /\ UNCHANGED <<alive, writes, ts, prior_checkpoint_ts>> /\ pc[u] = "idle"
      BY <2>2 DEF Fault, objectVars, sharedVars, pinVars
    <3>3. /\ Holds(u) /\ ts[u] # InvalidTs /\ Sound(checkpoint[u]) /\ b <= checkpoint[u]
          /\ ~WrittenIn(writes, p, b, ts[u]) /\ checkpoint[u] \in Versions
      BY <2>2, <3>1, Faulted
    <3>4. prior_checkpoint_ts[u] = checkpoint[u]
      BY <1>1, <3>2, <3>3 DEF MappedHeld
    <3>5. <<s, b>> \in alive
      BY <3>1, <3>3 DEF Sound, Slots
    <3> QED  BY <3>1, <3>2, <3>3, <3>4, <3>5, Constants
  <2> QED  BY <1>2, <2>1, <2>2, MappedStep
<1>3. /\ ~direct'[u]
      /\ pc'[u] \in {"idle", "latest"} /\ ts'[u] # InvalidTs => prior_checkpoint_ts'[u] = checkpoint'[u]
  BY PriorStep
<1> QED  BY <1>2, <1>3 DEF MappedHeld

-----------------------------------------------------------------------------
(* The log *)

\* Every step preserves LogKept: sivfs_gc_log stops at the oldest version read.
LEMMA LogKeptStep == ASSUME IInv, Ordered, [Next]_vars PROVE LogKept'
<1>1. /\ TypeOK /\ TypeOK' /\ LogKept /\ Publication /\ Publication'
      /\ master_ts \in Nat /\ master_ts' \in Nat /\ published \in Nat
  BY StepType, PublicationStep, Constants DEF IInv, TypeOK
<1>2. CASE GcStep
  <2>1. UNCHANGED <<master_ts, published, pc, checkpoint, ts>>
    BY <1>2, GcFrame DEF latestVars, threadVars
  <2>2. CASE "log" \in DOMAIN gc /\ GcDeleteLog
    <3> DEFINE K == gc["log"].versions \cup {gc["log"].ms}
    <3>1. K \in SUBSET Nat /\ K # {}
      BY <1>1, <2>2, Constants DEF TypeOK
    <3>3. log' = {i \in log : \E k \in K : i >= k}
      BY <2>2 DEF GcDeleteLog
    <3> HIDE DEF K
    <3>4. ASSUME NEW x \in Nat, NEW k \in K, k <= x, Entries(x, master_ts) \subseteq log
          PROVE  Entries(x, master_ts) \subseteq log'
      <4> SUFFICES ASSUME NEW i \in Entries(x, master_ts) PROVE i \in log'
        OBVIOUS
      <4>1. i \in Nat /\ x < i /\ i \in log /\ k \in Nat
        BY <3>1, <3>4, Constants DEF Entries
      <4>2. i >= k
        BY <3>4, <4>1
      <4> QED  BY <3>3, <4>1, <4>2
    <3>5. gc["log"].ms \in K /\ gc["log"].versions \subseteq K /\ gc["log"].ms <= published
      BY <1>1, <2>2 DEF K, Publication
    <3>6. \A u \in Threads : Read("log", u) /\ u \notin gc["log"].todo
      BY <2>2 DEF IInv, ReadInv, GcDeleteLog, Scanned
    <3>7. Entries(published, master_ts) \subseteq log'
      BY <1>1, <3>4, <3>5 DEF LogKept
    <3>8. ASSUME NEW u \in Threads, Holds(u)
          PROVE  Entries(checkpoint[u], master_ts) \subseteq log'
      <4>1. checkpoint[u] \in Nat
        BY <1>1, <3>8, Constants DEF TypeOK, Holds
      <4>2. \E k \in K : k <= checkpoint[u]
        BY <3>5, <3>6, <3>8, <4>1 DEF Read
      <4> QED  BY <1>1, <3>4, <3>8, <4>1, <4>2 DEF LogKept
    <3>9. ASSUME NEW u \in Threads, ts[u] # InvalidTs
          PROVE  Entries(ts[u], master_ts) \subseteq log'
      <4>1. ts[u] \in Nat
        BY <1>1, <3>9, Constants DEF TypeOK, AnyTs
      <4>2. \E k \in K : k <= ts[u]
        BY <3>5, <3>6, <3>9, <4>1 DEF Read
      <4> QED  BY <1>1, <3>4, <3>9, <4>1, <4>2 DEF LogKept
    <3> QED  BY <2>1, <3>7, <3>8, <3>9 DEF LogKept, Holds, Entries
  <2>3. CASE UNCHANGED log
    BY <1>1, <2>1, <2>3 DEF LogKept, Holds, Entries
  <2> QED  BY <1>2, <2>2, <2>3 DEF GcStep, GcStart, GcReadPublished, GcReadCheckpoint, GcReadPrior,
              GcFails, GcSweep, sharedVars
<1>3. CASE ~GcStep
  <2>1. /\ log \subseteq log' /\ master_ts <= master_ts'
        /\ \A i \in Ts : master_ts < i /\ i <= master_ts' => i \in log'
    BY <1>1, <1>3, EntriesStay
  <2>2. ASSUME NEW x \in Nat, NEW y \in Nat, x <= y, Entries(x, master_ts) \subseteq log
        PROVE  Entries(y, master_ts') \subseteq log'
    <3> SUFFICES ASSUME NEW i \in Ts, y < i, i <= master_ts' PROVE i \in log'
      BY DEF Entries
    <3>1. i \in Nat
      BY Constants
    <3>2. CASE i <= master_ts
      BY <2>1, <2>2, <3>1, <3>2 DEF Entries
    <3>3. CASE master_ts < i
      BY <2>1, <3>3
    <3> QED  BY <1>1, <3>1, <3>2, <3>3
  <2>3. published' \in Nat /\ published <= published' /\ Newest \in Nat /\ published <= Newest
    <3>1. published <= published' /\ published' \in Nat
      BY <1>1, <1>3, ThreadFrame, Constants DEF Next, CommitElsewhere, vars, latestVars, MakeStep, MakeStart, MakeBuild,
         MakeFails, PublishInvalid, PublishPointer, PublishTs, Publish, Publication, TypeOK
    <3>2. Newest \in Nat /\ published <= Newest
      BY <1>1, Constants DEF Newest, Publication, TypeOK
    <3> QED  BY <3>1, <3>2
  <2>4. Entries(published', master_ts') \subseteq log'
    BY <1>1, <2>2, <2>3 DEF LogKept
  <2>5. ASSUME NEW u \in Threads, Holds(u)'
        PROVE  Entries(checkpoint'[u], master_ts') \subseteq log'
    <3>1. /\ checkpoint'[u] = checkpoint[u] /\ checkpoint[u] \in Nat
          /\ Holds(u) \/ checkpoint[u] = Newest
      BY <2>5, HoldsStep, Constants
    <3> QED  BY <1>1, <2>2, <2>3, <3>1 DEF LogKept
  <2>6. ASSUME NEW u \in Threads, ts'[u] # InvalidTs
        PROVE  Entries(ts'[u], master_ts') \subseteq log'
    <3>1. ts'[u] \in Nat /\ ts[u] \in Nat
      BY <1>1, ReclaimAssumption, Constants DEF TypeOK, AnyTs
    <3>2. CASE ts[u] # InvalidTs
      BY <1>1, <2>2, <2>6, <3>1, <3>2, TsStep DEF LogKept
    <3>3. CASE ts[u] = InvalidTs
      <4>1. pc[u] = "update" /\ ts'[u] = next_ts[u]
        BY <2>6, <3>3, TsStep
      <4>2. Holds(u) /\ checkpoint[u] \in Nat /\ checkpoint[u] <= ts'[u]
        BY <4>1, UpdateHolds
      <4> QED  BY <1>1, <2>2, <3>1, <4>2 DEF LogKept
    <3> QED  BY <3>2, <3>3
  <2> QED  BY <2>4, <2>5, <2>6 DEF LogKept, Entries
<1> QED  BY <1>2, <1>3

-----------------------------------------------------------------------------
(* What the collectors have read *)

\* A step of a thread does not invalidate what a collector has read.
LEMMA ReadStays ==
  ASSUME IInv, Ordered, [Next]_vars, NEW c \in DOMAIN gc, gc'[c] = gc[c], DOMAIN gc' = DOMAIN gc,
         NEW u \in Threads, Read(c, u)
  PROVE  Read(c, u)'
<1>1. /\ TypeOK /\ TypeOK' /\ Facts(u) /\ gc[c].ms \in Nat /\ gc[c].ms <= published /\ gc[c].versions \subseteq Nat
      /\ published \in Nat /\ Newest \in Nat /\ published <= Newest /\ Newest \in Versions
  <2>1. TypeOK /\ TypeOK' /\ Facts(u)
    BY FactsHold, StepType DEF IInv
  <2>2. published \in Versions /\ make.next \in Versions /\ gc[c].ms \in Versions /\ gc[c].versions \subseteq Versions
    BY <2>1 DEF TypeOK
  <2>3. gc[c].ms <= published /\ (make.pc = "published" => published < make.next)
    BY DEF IInv, Publication
  <2>4. Newest \in Versions
    BY <2>2 DEF Newest
  <2>5. published <= Newest
    <3>1. published \in Nat /\ make.next \in Nat
      BY <2>2, Constants
    <3> QED  BY <2>3, <3>1 DEF Newest
  <2> QED  BY <2>1, <2>2, <2>3, <2>4, <2>5, Constants
<1>2. ts[u] \in Nat /\ ts'[u] \in Nat
  BY <1>1, Constants, ReclaimAssumption DEF TypeOK, AnyTs
<1>3. ASSUME u \notin gc[c].todo \/ u = gc[c].half, Holds(u)'
      PROVE  gc[c].ms <= checkpoint'[u] \/ checkpoint'[u] \in gc[c].versions
  <2>1. checkpoint'[u] = checkpoint[u] /\ (Holds(u) \/ checkpoint[u] = Newest)
    BY <1>3, HoldsStep
  <2>2. CASE Holds(u)
    BY <1>3, <2>1, <2>2 DEF Read
  <2>3. CASE checkpoint[u] = Newest
    BY <1>1, <2>1, <2>3
  <2> QED  BY <2>1, <2>2, <2>3
<1>4. ASSUME u \notin gc[c].todo, ts'[u] # InvalidTs
      PROVE  gc[c].ms <= ts'[u] \/ \E v \in gc[c].versions : v <= ts'[u]
  <2>1. CASE ts[u] # InvalidTs
    <3>1. ts[u] <= ts'[u]
      BY <1>4, <2>1, TsStep
    <3>2. gc[c].ms <= ts[u] \/ \E v \in gc[c].versions : v <= ts[u]
      BY <1>4, <2>1 DEF Read
    <3> QED  BY <1>1, <1>2, <3>1, <3>2
  <2>2. CASE ts[u] = InvalidTs
    <3>1. pc[u] = "update" /\ ts'[u] = next_ts[u]
      BY <1>4, <2>2, TsStep
    <3>2. Holds(u) /\ checkpoint[u] \in Nat /\ checkpoint[u] <= ts'[u]
      BY <3>1, UpdateHolds
    <3>3. gc[c].ms <= checkpoint[u] \/ checkpoint[u] \in gc[c].versions
      BY <1>4, <3>2 DEF Read
    <3> QED  BY <1>1, <1>2, <3>2, <3>3
  <2> QED  BY <2>1, <2>2
<1>5. ASSUME ~AsksDirect, u \notin gc[c].todo, NEW s \in Slots, NEW b \in Versions, <<s, b>> \in mapped'[u]
      PROVE  gc[c].ms <= ts'[u] \/ \E v \in gc[c].versions : b <= v /\ v <= ts'[u]
  <2>1. CASE <<s, b>> \in mapped[u]
    <3>1. ts[u] # InvalidTs
      BY <1>1, <2>1 DEF Facts, Snapshot
    <3>2. ts'[u] # InvalidTs
      BY <1>5, ThreadInvStep DEF ThreadInv, Snapshot
    <3>3. ts[u] <= ts'[u]
      BY <3>1, <3>2, TsStep
    <3>4. gc[c].ms <= ts[u] \/ \E v \in gc[c].versions : b <= v /\ v <= ts[u]
      BY <1>5, <2>1 DEF Read
    <3> QED  BY <1>1, <1>2, <3>3, <3>4
  <2>2. ASSUME NEW p \in Pages, Fault(u, p), <<s, b>> = <<p, tree[checkpoint[u]][p]>>
        PROVE  gc[c].ms <= ts'[u] \/ \E v \in gc[c].versions : b <= v /\ v <= ts'[u]
    <3>1. Holds(u) /\ checkpoint[u] \in Nat /\ b <= checkpoint[u] /\ checkpoint[u] <= ts[u] /\ ts'[u] = ts[u]
      BY <2>2, Faulted DEF Fault
    <3>2. gc[c].ms <= checkpoint[u] \/ checkpoint[u] \in gc[c].versions
      BY <1>5, <3>1 DEF Read
    <3> QED  BY <1>1, <1>2, <3>1, <3>2
  <2> QED  BY <1>5, <2>1, <2>2, MappedStep
<1> QED  BY <1>3, <1>4, <1>5 DEF Read, AsksDirect

\* Every step preserves ReadInv: a thread that was read holds nothing older.
LEMMA ReadInvStep == ASSUME IInv, Ordered, [Next]_vars PROVE ReadInv'
<1> SUFFICES ASSUME NEW c \in DOMAIN gc', NEW u \in Threads, gc'[c].pc = "scan"
             PROVE  Read(c, u)'
  BY DEF ReadInv
<1>1. TypeOK /\ c \in DOMAIN gc /\ DOMAIN gc' = DOMAIN gc
  BY DomainStep DEF IInv
<1>2. CASE gc'[c] = gc[c]
  <2>1. Read(c, u)
    BY <1>1, <1>2 DEF IInv, ReadInv
  <2> QED  BY <1>1, <1>2, <2>1, ReadStays
<1>3. CASE gc'[c] # gc[c]
  <2>1. GcStep
    BY <1>3, ThreadFrame, MakeFrame DEF Next, CommitElsewhere, vars
  <2>2. /\ UNCHANGED <<pc, ts, checkpoint, mapped, checkpoint_ts, prior_checkpoint_ts>> /\ Facts(u)
        /\ (Holds(u)' <=> Holds(u))
    BY <2>1, GcFrame, FactsHold DEF threadVars, pinVars, Holds
  <2>3. ASSUME NEW d \in DOMAIN gc, NEW r \in GcStates, gc' = [gc EXCEPT ![d] = r]
        PROVE  d = c /\ gc'[c] = r
    BY <1>1, <1>3, <2>3, GcType
  <2>4. ASSUME NEW d \in DOMAIN gc, GcReadPublished(d) PROVE Read(c, u)'
    <3>1. gc'[c].todo = Threads /\ gc'[c].half = NoThread
      BY <1>1, <2>3, <2>4, GcReadPublishedEffect, ZenonT(20)
    <3> QED  BY <3>1, Constants DEF Read
  <2>5. ASSUME NEW d \in DOMAIN gc, NEW t \in Threads, GcReadCheckpoint(d, t) PROVE Read(c, u)'
    <3>1. /\ d = c /\ gc'[c].ms = gc[c].ms /\ gc'[c].todo = gc[c].todo /\ gc'[c].half = t
          /\ gc'[c].versions = gc[c].versions \cup ({checkpoint_ts[t]} \ {InvalidTs})
      BY <1>1, <2>3, <2>5, GcReadCheckpointEffect
    <3>2. Read(c, u)
      BY <2>5, <3>1 DEF IInv, ReadInv, GcReadCheckpoint
    <3>3. u = t /\ Holds(u) => checkpoint[u] \in gc'[c].versions
      BY <2>2, <3>1 DEF Facts, Checkout, Holds, HoldPcs
    <3>4. u \notin gc'[c].todo \/ u = gc'[c].half =>
            (Holds(u) => gc'[c].ms <= checkpoint[u] \/ checkpoint[u] \in gc'[c].versions)
      BY <3>1, <3>2, <3>3 DEF Read
    <3> QED  BY <1>1, <2>2, <3>1, <3>2, <3>4 DEF Read, AsksDirect
  <2>6. ASSUME NEW d \in DOMAIN gc, NEW t \in Threads, GcReadPrior(d, t) PROVE Read(c, u)'
    <3>1. /\ d = c /\ gc'[c].ms = gc[c].ms /\ gc'[c].todo = gc[c].todo \ {t} /\ gc'[c].half = NoThread
          /\ gc'[c].versions = gc[c].versions \cup ({prior_checkpoint_ts[t]} \ {InvalidTs})
      BY <1>1, <2>3, <2>6, GcReadPriorEffect
    <3>2. Read(c, u) /\ gc[c].half = t
      BY <2>6, <3>1 DEF IInv, ReadInv, GcReadPrior
    <3>3. u \notin gc'[c].todo \/ u = gc'[c].half =>
            (Holds(u) => gc'[c].ms <= checkpoint[u] \/ checkpoint[u] \in gc'[c].versions)
      BY <3>1, <3>2, Constants DEF Read
    <3>4. u \notin gc'[c].todo /\ ts[u] # InvalidTs =>
            gc'[c].ms <= ts[u] \/ \E v \in gc'[c].versions : v <= ts[u]
      <4>1. CASE u # t
        BY <3>1, <3>2, <4>1 DEF Read
      <4>2. CASE u = t
        <5> SUFFICES ASSUME ts[u] # InvalidTs
                     PROVE  gc'[c].ms <= ts[u] \/ \E v \in gc'[c].versions : v <= ts[u]
          OBVIOUS
        <5>1. CASE prior_checkpoint_ts[u] # InvalidTs
          <6>1. prior_checkpoint_ts[u] <= ts[u]
            BY <2>2, <5>1 DEF Facts, Snapshot
          <6> QED  BY <3>1, <4>2, <5>1, <6>1
        <5>2. CASE prior_checkpoint_ts[u] = InvalidTs
          <6>1. pc[u] = "release"
            BY <2>2, <5>2 DEF Facts, Snapshot
          <6>2. Holds(u) /\ checkpoint[u] <= ts[u] /\ checkpoint[u] \in Nat
            BY <6>1, UpdateHolds
          <6>3. gc[c].ms <= checkpoint[u] \/ checkpoint[u] \in gc[c].versions
            BY <3>2, <4>2, <6>2 DEF Read
          <6>4. gc[c].ms \in Nat /\ ts[u] \in Nat
            BY <1>1, <2>2, Constants DEF TypeOK, Facts
          <6> QED  BY <3>1, <6>2, <6>3, <6>4
        <5> QED  BY <5>1, <5>2
      <4> QED  BY <4>1, <4>2
    <3>5. ASSUME ~AsksDirect, u \notin gc'[c].todo, NEW s \in Slots, NEW b \in Versions, <<s, b>> \in mapped[u]
          PROVE  gc'[c].ms <= ts[u] \/ \E v \in gc'[c].versions : b <= v /\ v <= ts[u]
      <4>1. CASE u # t
        BY <3>1, <3>2, <3>5, <4>1 DEF Read
      <4>2. CASE u = t
        <5>1. prior_checkpoint_ts[u] # InvalidTs /\ b <= prior_checkpoint_ts[u]
          BY <3>5 DEF IInv, MappedInv, MappedHeld
        <5>2. prior_checkpoint_ts[u] <= ts[u]
          BY <2>2, <3>5, <5>1 DEF Facts, Snapshot
        <5> QED  BY <3>1, <4>2, <5>1, <5>2
      <4> QED  BY <4>1, <4>2
    <3> QED  BY <1>1, <2>2, <3>3, <3>4, <3>5 DEF Read, AsksDirect
  <2>7. ASSUME NEW d \in DOMAIN gc, GcStart(d) PROVE FALSE
    BY <1>1, <2>3, <2>7, GcStartEffect DEF GcStates
  <2>8. ASSUME NEW d \in DOMAIN gc, NEW swept,
               GcFails(d) \/ (d = "pages" /\ GcSweep(swept)) \/ (d = "log" /\ GcDeleteLog)
        PROVE  FALSE
    BY <1>1, <2>3, <2>8, GcEndEffect
  <2> QED  BY <2>1, <2>4, <2>5, <2>6, <2>7, <2>8 DEF GcStep
<1> QED  BY <1>2, <1>3

-----------------------------------------------------------------------------
(* Theorems *)

\* Every step preserves the invariant.
LEMMA StepInv == ASSUME IInv, Ordered, [Next]_vars PROVE IInv'
BY StepType, PublicationStep, ThreadInvStep, LogKeptStep, ObsoletedStep, TreesStep, RememberedStep,
   MappedInvStep, ReadInvStep DEF IInv

\* The invariant holds in every state.
LEMMA Invariance == ASSUME Ordered PROVE Spec => []IInv
<1>1. Init => IInv
  BY InitInv
<1>2. IInv /\ [Next]_vars => IInv'
  BY StepInv
<1> QED  BY <1>1, <1>2, PTL DEF Spec

\* sivfs_gc_checkpoints frees no page and no inode of a checkpoint that is checked out,
\* for any number of threads, pages and checkpoints, if the pin is visible before the
\* second read of latest_checkpoint.ts.
THEOREM CheckedOutStaysAlive ==
  ASSUME Ordered
  PROVE  Spec => []CheckedOutAlive
BY CheckedOutAliveFollows, Invariance, PTL

\* Nor does put_checkpoint_page get a page that a thread has mapped, although the page
\* may be of an older checkpoint than the one held, if no thread asks for direct access.
THEOREM MappedStaysAlive ==
  ASSUME Ordered
  PROVE  Spec => []MappedAlive
BY MappedAliveFollows, Invariance, PTL

\* sivfs_update unmaps what the entries between the two snapshots wrote, which leaves
\* only pages mapped that show the new snapshot, if no thread asks for direct access.
THEOREM MappedStaysCurrent ==
  ASSUME Ordered
  PROVE  Spec => []MappedCurrent
BY MappedCurrentFollows, Invariance, PTL

\* sivfs_gc_log keeps the entries that faults, updates and the checkpointer need.
THEOREM LogStaysHeld ==
  ASSUME Ordered
  PROVE  Spec => []LogHeld
BY LogHeldFollows, Invariance, PTL

\* What is allocated is in the last checkpoint or known to sivfs_gc_checkpoints, also
\* after the checkpointer or a collection has failed half-way.
THEOREM NothingForgotten ==
  ASSUME Ordered
  PROVE  Spec => []NoneForgotten
BY NoneForgottenFollows, Invariance, PTL
=============================================================================
