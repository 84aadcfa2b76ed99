----------------------------- MODULE CommitLog -----------------------------
(***************************************************************************)
(* The commit path of sivfs: sivfs_commit_changes, sivfs_validate and the  *)
(* snapshot part of my_sivfs_commit_update                                 *)
(* (kern/sivfs_commit_update_checkpoints.c).                               *)
(*                                                                         *)
(* A thread that calls the commit ioctl with a nonempty writeset           *)
(*   1. takes commit_lock, allocates the next timestamp and a log entry,   *)
(*      copies its writeset into the entry and drops the lock;             *)
(*   2. validates its entry, in parallel with the other committers,        *)
(*      against every entry after its snapshot, one entry at a time;       *)
(*   3. waits for master_ts (the sequence lock) and advances it;           *)
(*   4. reads master_ts and moves its snapshot there.                      *)
(* A call with an empty writeset, or one that was asked to abort, does     *)
(* only step 4.                                                            *)
(*                                                                         *)
(* Not here: adding metadata to the writeset, the working set of pages,    *)
(* the block allocator and the choice of a checkpoint, which are other     *)
(* calls of the same function and the business of other modules.           *)
(***************************************************************************)
EXTENDS Naturals

CONSTANTS
  Threads,       \* the tasks that have a sivfs_state
  NoThread,      \* commit_lock when nobody holds it
  Words,         \* (inode number, file offset) pairs
  MaxTs,         \* bound on commit_started_ts
  InvalidTs,     \* SIVFS_INVALID_TS, the largest value of a sivfs_ts
  PausedCommits  \* may a thread commit writes while it is not in a transaction

ASSUME ThreadsAssumption == NoThread \notin Threads
ASSUME TsAssumption == MaxTs \in Nat /\ InvalidTs \in Nat /\ MaxTs + 2 < InvalidTs
ASSUME PausedAssumption == PausedCommits \in BOOLEAN

VARIABLES
  commit_lock,           \* sstate->commit_lock: its holder or NoThread
  commit_started_ts,     \* sstate->commit_started_ts
  master_ts,             \* sstate->master_ts
  master_log_deleted_ts, \* sstate->master_log_deleted_ts
  log,                   \* the log entries, indexed by timestamp
  pc,                    \* where each thread is in my_sivfs_commit_update
  ts,                    \* state->ts
  ws,                    \* log_writeset->ws of the running call
  ticket,                \* next_ts of sivfs_commit_changes
  cursor,                \* the entry sivfs_validate looks at next
  next_ts,               \* next_ts of my_sivfs_commit_update
  floor                  \* history: master_ts when the call began, or the
                         \* timestamp the call committed at

vars == <<commit_lock, commit_started_ts, master_ts, master_log_deleted_ts, log,
          pc, ts, ws, ticket, cursor, next_ts, floor>>

logVars == <<commit_started_ts, log>>
localVars == <<ts, ws, ticket, cursor, next_ts, floor>>

-----------------------------------------------------------------------------
(* Timestamps *)

Ts == 1..MaxTs
AnyTs == (0..MaxTs) \cup {InvalidTs}

\* Variant: addition that does not wrap.
PlusUnbounded(a, n) == a + n

\* Unsigned addition of a small n to a sivfs_ts, which wraps after InvalidTs.
Plus(a, n) == IF a + n > InvalidTs THEN a + n - (InvalidTs + 1) ELSE a + n

\* An entry keeps, besides its fields in the code, the snapshot of the thread
\* that made it (base).
Entry == [ws : SUBSET Words, aborted : BOOLEAN, base : AnyTs]
Blank == [ws |-> {}, aborted |-> FALSE, base |-> 0]

Steps == {"idle", "lock", "locked", "fill", "lookup", "validate", "seq",
          "master", "update", "oops"}

Goto(t, to) == pc' = [pc EXCEPT ![t] = to]

\* sivfs_ws_ent_conflicts over two writesets.
Conflicts(a, b) == a.ws \cap b.ws # {}

-----------------------------------------------------------------------------
(* The actions *)

Init ==
  /\ commit_lock = NoThread
  /\ commit_started_ts = 0
  /\ master_ts = 0
  /\ master_log_deleted_ts = 0
  /\ log = [i \in Ts |-> Blank]
  /\ pc = [t \in Threads |-> "idle"]
  /\ ts = [t \in Threads |-> InvalidTs]
  /\ ws = [t \in Threads |-> {}]
  /\ ticket = [t \in Threads |-> 0]
  /\ cursor = [t \in Threads |-> 0]
  /\ next_ts = [t \in Threads |-> 0]
  /\ floor = [t \in Threads |-> 0]

\* The ioctl is entered.  W = {} is a call that commits nothing: an empty
\* writeset, or a transaction that is to be aborted.
Call(t, W) ==
  /\ pc[t] = "idle"
  /\ W # {} => (ts[t] # InvalidTs \/ PausedCommits)
  /\ ws' = [ws EXCEPT ![t] = W]
  /\ floor' = [floor EXCEPT ![t] = master_ts]
  /\ Goto(t, IF W = {} THEN "master" ELSE "lock")
  /\ UNCHANGED <<commit_lock, master_ts, master_log_deleted_ts, logVars, ts,
                 ticket, cursor, next_ts>>

\* Variant: the result of spin_trylock is not looked at.
LockUnchecked(t) ==
  /\ pc[t] = "lock"
  /\ commit_lock' = t
  /\ Goto(t, "locked")
  /\ UNCHANGED <<master_ts, master_log_deleted_ts, logVars, localVars>>

\* spin_trylock succeeds.
Lock(t) ==
  /\ pc[t] = "lock"
  /\ commit_lock = NoThread
  /\ commit_lock' = t
  /\ Goto(t, "locked")
  /\ UNCHANGED <<master_ts, master_log_deleted_ts, logVars, localVars>>

\* The call returns an error to its caller, which keeps its snapshot.
Return(t) ==
  /\ ws' = [ws EXCEPT ![t] = {}]
  /\ Goto(t, "idle")
  /\ UNCHANGED <<master_ts, master_log_deleted_ts, logVars, ts, ticket, cursor,
                 next_ts, floor>>

\* Ten trylocks failed and a signal is pending: -EINTR.
Interrupted(t) ==
  /\ pc[t] = "lock"
  /\ commit_lock # NoThread
  /\ Return(t)
  /\ UNCHANGED commit_lock

\* sivfs_create_log_entry found no memory: the lock is released and nothing
\* else has changed.
CreateFails(t) ==
  /\ pc[t] = "locked"
  /\ commit_lock' = NoThread
  /\ Return(t)

\* The next timestamp is drawn and an empty log entry is made for it.
Create(t) ==
  LET n == commit_started_ts + 1 IN
  /\ pc[t] = "locked"
  /\ n <= MaxTs
  /\ log' = [log EXCEPT ![n] = Blank]
  /\ ticket' = [ticket EXCEPT ![t] = n]
  /\ Goto(t, "fill")
  /\ UNCHANGED <<commit_lock, commit_started_ts, master_ts, master_log_deleted_ts,
                 ts, ws, cursor, next_ts, floor>>

\* The end of section I, for a validation that starts at first and is needed
\* from the timestamp least on.
FillFrom(t, first, least) ==
  /\ pc[t] = "fill"
  /\ commit_started_ts' = ticket[t]
  /\ log' = [log EXCEPT ![ticket[t]] =
               [ws |-> ws[t], aborted |-> FALSE, base |-> ts[t]]]
  /\ cursor' = [cursor EXCEPT ![t] = first]
  /\ commit_lock' = NoThread
  /\ Goto(t, IF ticket[t] >= least THEN "lookup" ELSE "seq")
  /\ UNCHANGED <<master_ts, master_log_deleted_ts, ts, ws, ticket, next_ts, floor>>

\* Variant: a single concurrent transaction is overlooked.
FillOverlooksOne(t) == FillFrom(t, Plus(ts[t], 1), Plus(ts[t], 3))

\* Variant: validation starts with the snapshot's own entry.
FillFromSnapshot(t) ==
  FillFrom(t, IF ts[t] = InvalidTs THEN 0 ELSE ts[t], Plus(ts[t], 2))

\* The timestamp is taken, the writeset is copied, the lock is dropped.  There
\* is something to validate against only if another timestamp lies between the
\* snapshot and the new one.
Fill(t) == FillFrom(t, Plus(ts[t], 1), Plus(ts[t], 2))

AbortEntry(t) ==
  log' = [log EXCEPT ![ticket[t]] =
            [ws |-> @.ws, aborted |-> TRUE, base |-> @.base]]

\* sivfs_validate looks up the first entry of its range.  A timestamp whose
\* entry was deleted is an error, which aborts; one that never had an entry
\* yields a NULL entry, which the loop then dereferences.
ValidateLookup(t) ==
  /\ pc[t] = "lookup"
  /\ \/ /\ cursor[t] < master_log_deleted_ts
        /\ AbortEntry(t)
        /\ Goto(t, "seq")
     \/ /\ cursor[t] >= master_log_deleted_ts
        /\ UNCHANGED log
        /\ Goto(t, IF cursor[t] \in Ts THEN "validate" ELSE "oops")
  /\ UNCHANGED <<commit_lock, commit_started_ts, master_ts,
                 master_log_deleted_ts, localVars>>

\* Variant: an aborted entry is skipped before the loop advances.
ValidateStuck(t) ==
  LET other == log[cursor[t]] IN
  /\ pc[t] = "validate"
  /\ \/ /\ ~other.aborted
        /\ Conflicts(other, log[ticket[t]])
        /\ AbortEntry(t)
        /\ Goto(t, "seq")
        /\ UNCHANGED cursor
     \/ /\ other.aborted
        /\ UNCHANGED <<cursor, pc, log>>
     \/ /\ ~other.aborted /\ ~Conflicts(other, log[ticket[t]])
        /\ cursor' = [cursor EXCEPT ![t] = @ + 1]
        /\ Goto(t, IF cursor[t] = ticket[t] - 1 THEN "seq" ELSE "validate")
        /\ UNCHANGED log
  /\ UNCHANGED <<commit_lock, commit_started_ts, master_ts,
                 master_log_deleted_ts, ts, ws, ticket, next_ts, floor>>

\* One turn of the loop of sivfs_validate.
Validate(t) ==
  LET other == log[cursor[t]] IN
  /\ pc[t] = "validate"
  /\ \/ /\ ~other.aborted
        /\ Conflicts(other, log[ticket[t]])
        /\ AbortEntry(t)
        /\ Goto(t, "seq")
        /\ UNCHANGED cursor
     \/ /\ other.aborted \/ ~Conflicts(other, log[ticket[t]])
        /\ cursor' = [cursor EXCEPT ![t] = @ + 1]
        /\ Goto(t, IF cursor[t] = ticket[t] - 1 THEN "seq" ELSE "validate")
        /\ UNCHANGED log
  /\ UNCHANGED <<commit_lock, commit_started_ts, master_ts,
                 master_log_deleted_ts, ts, ws, ticket, next_ts, floor>>

\* Variant: a committer that has validated does not wait for its turn.
SequenceNoWait(t) ==
  /\ pc[t] = "seq"
  /\ master_ts' = ticket[t]
  /\ floor' = [floor EXCEPT ![t] = ticket[t]]
  /\ Goto(t, "master")
  /\ UNCHANGED <<commit_lock, master_log_deleted_ts, logVars, ts, ws, ticket,
                 cursor, next_ts>>

\* Section III: the sequence lock.
Sequence(t) ==
  /\ pc[t] = "seq"
  /\ master_ts = ticket[t] - 1
  /\ master_ts' = ticket[t]
  /\ floor' = [floor EXCEPT ![t] = ticket[t]]
  /\ Goto(t, "master")
  /\ UNCHANGED <<commit_lock, master_log_deleted_ts, logVars, ts, ws, ticket,
                 cursor, next_ts>>

\* Variant: the snapshot is the newest timestamp drawn.
ReadStarted(t) ==
  /\ pc[t] = "master"
  /\ next_ts' = [next_ts EXCEPT ![t] = commit_started_ts]
  /\ Goto(t, "update")
  /\ UNCHANGED <<commit_lock, master_ts, master_log_deleted_ts, logVars, ts, ws,
                 ticket, cursor, floor>>

\* next_ts = master_ts, after the checkpoint was chosen.
ReadMaster(t) ==
  /\ pc[t] = "master"
  /\ next_ts' = [next_ts EXCEPT ![t] = master_ts]
  /\ Goto(t, "update")
  /\ UNCHANGED <<commit_lock, master_ts, master_log_deleted_ts, logVars, ts, ws,
                 ticket, cursor, floor>>

\* sivfs_update: the snapshot moves, and the call returns.
Update(t) ==
  /\ pc[t] = "update"
  /\ ts' = [ts EXCEPT ![t] = next_ts[t]]
  /\ ws' = [ws EXCEPT ![t] = {}]
  /\ ticket' = [ticket EXCEPT ![t] = 0]
  /\ cursor' = [cursor EXCEPT ![t] = 0]
  /\ next_ts' = [next_ts EXCEPT ![t] = 0]
  /\ Goto(t, "idle")
  /\ UNCHANGED <<commit_lock, master_ts, master_log_deleted_ts, logVars, floor>>

\* sivfs_ioctl_txn_pause.
Pause(t) ==
  /\ pc[t] = "idle"
  /\ ts' = [ts EXCEPT ![t] = InvalidTs]
  /\ UNCHANGED <<commit_lock, master_ts, master_log_deleted_ts, logVars, pc, ws,
                 ticket, cursor, next_ts, floor>>

\* sivfs_delete_log, under commit_lock.  The log collector never asks to delete
\* past a snapshot, one that is being taken, or master_ts: that is what
\* CheckpointReclaim shows.  It may ask for less than it asked for before.
DeleteLog(stop) ==
  /\ commit_lock = NoThread
  /\ stop <= master_ts
  /\ \A t \in Threads : stop <= ts[t] /\ (pc[t] = "update" => stop <= next_ts[t])
  /\ master_log_deleted_ts' = stop
  /\ UNCHANGED <<commit_lock, master_ts, logVars, pc, localVars>>

\* What a thread does on its own once it has a timestamp, or needs none.
Progress(t) ==
  \/ ValidateLookup(t)
  \/ Validate(t)
  \/ Sequence(t)
  \/ ReadMaster(t)
  \/ Update(t)

Next ==
  \/ \E t \in Threads :
       \/ \E W \in SUBSET Words : Call(t, W)
       \/ Lock(t)
       \/ Interrupted(t)
       \/ CreateFails(t)
       \/ Create(t)
       \/ Fill(t)
       \/ Progress(t)
       \/ Pause(t)
  \/ \E stop \in Ts : DeleteLog(stop)

Spec == Init /\ [][Next]_vars

\* After its critical section a committer runs loops that wait for nothing but
\* other committers that are past theirs, and the kernel keeps scheduling it.
\* Nothing is assumed of the lock, of signals or of the users.
Fairness == \A t \in Threads : WF_vars(Progress(t))

FairSpec == Spec /\ Fairness

-----------------------------------------------------------------------------
(* Properties *)

\* The fields and locals of the commit path have the types the code gives them.
TypeOK ==
  /\ commit_lock \in Threads \cup {NoThread}
  /\ commit_started_ts \in 0..MaxTs
  /\ master_ts \in 0..MaxTs
  /\ master_log_deleted_ts \in 0..MaxTs
  /\ log \in [Ts -> Entry]
  /\ pc \in [Threads -> Steps]
  /\ ts \in [Threads -> AnyTs]
  /\ ws \in [Threads -> SUBSET Words]
  /\ ticket \in [Threads -> 0..MaxTs]
  /\ cursor \in [Threads -> 0..(MaxTs + 1)]
  /\ next_ts \in [Threads -> 0..MaxTs]
  /\ floor \in [Threads -> 0..MaxTs]

\* A committer that has drawn a timestamp and not yet released it.
InFlight(t) == pc[t] \in {"lookup", "validate", "seq", "oops"}

\* Every timestamp between master_ts and commit_started_ts belongs to exactly
\* one committer that will still release it: the chain the sequence lock of
\* sivfs_commit_changes waits on has no missing link and no double one.
TicketsOwned ==
  /\ master_ts <= commit_started_ts
  /\ \A i \in Ts : (master_ts < i /\ i <= commit_started_ts) <=>
        \E t \in Threads : InFlight(t) /\ ticket[t] = i
  /\ \A t, u \in Threads :
        InFlight(t) /\ InFlight(u) /\ ticket[t] = ticket[u] => t = u

\* First committer wins: of two committed entries that wrote a common word, the
\* later one was made by a thread whose snapshot already held the earlier one.
FirstCommitterWins ==
  \A i, j \in Ts :
    /\ i < j
    /\ j <= master_ts
    /\ ~log[i].aborted
    /\ ~log[j].aborted
    /\ Conflicts(log[i], log[j])
    => log[j].base # InvalidTs /\ i <= log[j].base

\* Validation is not too strict either: a transaction is aborted only if an
\* entry between its snapshot and itself wrote one of its words.
AbortJustified ==
  \A j \in Ts :
    log[j].aborted /\ log[j].base # InvalidTs =>
      \E i \in Ts : log[j].base < i /\ i < j /\ Conflicts(log[i], log[j])

\* What a snapshot contains never changes: the entries up to master_ts, the
\* abort flag set by validation included, are final when master_ts passes them.
SnapshotStable ==
  [][/\ master_ts <= master_ts'
     /\ \A i \in Ts : i <= master_ts => log'[i] = log[i]]_vars

\* sivfs_validate cannot fail: what goes wrong in it aborts the transaction.
ValidationNeverFails == \A t \in Threads : pc[t] # "oops"

\* Every call that got past the critical section of the commit lock returns:
\* the sequence lock is always released to the next committer.
CommitReturns ==
  \A t \in Threads :
    pc[t] \in {"lookup", "validate", "seq", "master", "update"} ~> pc[t] = "idle"

\* The commit path implements snapshot isolation: an attempt is decided when
\* master_ts reaches it.
SI == INSTANCE SnapshotIsolation WITH
  NoSnapshot <- InvalidTs,
  MaxVersion <- MaxTs,
  history <- [i \in Ts |->
                [ws |-> IF i <= master_ts THEN log[i].ws ELSE {},
                 aborted |-> i <= master_ts /\ log[i].aborted]],
  version <- master_ts,
  snapshot <- ts

\* The commits and snapshots of my_sivfs_commit_update are those of the abstract
\* specification, in real-time order.
ImplementsSnapshotIsolation == SI!SISpec
=============================================================================
