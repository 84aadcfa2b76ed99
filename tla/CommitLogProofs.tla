-------------------------- MODULE CommitLogProofs --------------------------
(***************************************************************************)
(* Proofs about the commit path, for any number of threads, words and      *)
(* timestamps.                                                             *)
(***************************************************************************)
EXTENDS CommitLog, TLAPS

\* Most leaves are logic, the others arithmetic.
USE ZenonT(5), SMTT(15)

-----------------------------------------------------------------------------
(* The inductive invariant *)

\* commit_lock is held by the thread that is between its lock and its unlock.
LockInv ==
  \A t \in Threads : pc[t] \in {"locked", "fill"} => commit_lock = t

\* Where the timestamps of the threads lie: one being created is the next one,
\* those in flight are above master_ts and their entries carry their snapshot.
TicketInv ==
  /\ master_ts <= commit_started_ts
  /\ \A t \in Threads : pc[t] = "fill" => ticket[t] = commit_started_ts + 1
  /\ \A t \in Threads : InFlight(t) =>
        /\ master_ts < ticket[t]
        /\ ticket[t] <= commit_started_ts
        /\ log[ticket[t]].base = ts[t]
  /\ \A t, u \in Threads :
        InFlight(t) /\ InFlight(u) /\ ticket[t] = ticket[u] => t = u

\* No timestamp above master_ts is without a thread that will release it.
ChainInv ==
  \A i \in Ts : master_ts < i /\ i <= commit_started_ts =>
    \E t \in Threads : InFlight(t) /\ ticket[t] = i

\* The entry of t conflicts with no entry that is kept and lies after its
\* snapshot and before hi.
CleanUpTo(t, hi) ==
  \A i \in Ts :
    ts[t] < i /\ i < hi /\ ~log[i].aborted => ~Conflicts(log[i], log[ticket[t]])

\* How far the validation of thread t has come.
Validated(t) ==
  /\ pc[t] = "lookup" =>
       /\ ~log[ticket[t]].aborted
       /\ cursor[t] = Plus(ts[t], 1)
       /\ ticket[t] >= Plus(ts[t], 2)
  /\ pc[t] = "validate" =>
       /\ ~log[ticket[t]].aborted
       /\ ts[t] # InvalidTs
       /\ ts[t] < cursor[t]
       /\ cursor[t] < ticket[t]
       /\ CleanUpTo(t, cursor[t])
  /\ pc[t] = "seq" /\ ~log[ticket[t]].aborted =>
       /\ ts[t] # InvalidTs
       /\ CleanUpTo(t, ticket[t])

\* Validation looks at every entry it has to.
ValidateInv == \A t \in Threads : Validated(t)

\* The log is not deleted past a snapshot, and entries that are not yet filled
\* in are not aborted.
DeletedInv ==
  /\ master_log_deleted_ts <= master_ts
  /\ \A t \in Threads :
       /\ master_log_deleted_ts <= ts[t]
       /\ pc[t] = "update" => master_log_deleted_ts <= next_ts[t]
  /\ \A i \in Ts : i > commit_started_ts => ~log[i].aborted

IInv ==
  /\ TypeOK
  /\ LockInv
  /\ TicketInv
  /\ ChainInv
  /\ ValidateInv
  /\ DeletedInv
  /\ FirstCommitterWins
  /\ AbortJustified

-----------------------------------------------------------------------------
(* Type correctness *)

\* Adding one to a snapshot gives a timestamp that is still in range, or wraps
\* to 0 (u64 arithmetic of state->ts + 1).
LEMMA PlusOne ==
  ASSUME NEW a \in AnyTs
  PROVE  /\ a = InvalidTs => Plus(a, 1) = 0 /\ Plus(a, 2) = 1
         /\ a # InvalidTs => Plus(a, 1) = a + 1 /\ Plus(a, 2) = a + 2
BY TsAssumption DEF AnyTs, Plus

\* Every step of the commit path keeps the fields and locals in their types,
\* given that validation has not run past the thread's own entry.
LEMMA TypeStep ==
  ASSUME TypeOK, LockInv, TicketInv, ValidateInv, [Next]_vars
  PROVE  TypeOK'
<1> USE TsAssumption, ThreadsAssumption DEF TypeOK, Ts, Steps
<1>1. ASSUME NEW t \in Threads, NEW W \in SUBSET Words, Call(t, W)
      PROVE  TypeOK'
  BY <1>1 DEF Call, Goto, logVars
<1>2. ASSUME NEW t \in Threads, Lock(t)
      PROVE  TypeOK'
  BY <1>2 DEF Lock, Goto, logVars, localVars
<1>3. ASSUME NEW t \in Threads, Interrupted(t) \/ CreateFails(t)
      PROVE  TypeOK'
  BY <1>3 DEF Interrupted, CreateFails, Return, Goto, logVars
<1>4. ASSUME NEW t \in Threads, Create(t)
      PROVE  TypeOK'
  <2>1. Blank \in Entry
    BY DEF Blank, Entry, AnyTs
  <2> QED  BY <1>4, <2>1 DEF Create, Goto
<1>5. ASSUME NEW t \in Threads, Fill(t)
      PROVE  TypeOK'
  <2>1. ticket[t] = commit_started_ts + 1
    BY <1>5 DEF Fill, FillFrom, TicketInv
  <2>2. [ws |-> ws[t], aborted |-> FALSE, base |-> ts[t]] \in Entry
    BY DEF Entry
  <2>3. Plus(ts[t], 1) \in 0..(MaxTs + 1)
    <3>1. ts[t] \in AnyTs
      OBVIOUS
    <3>2. (ts[t] = InvalidTs /\ Plus(ts[t], 1) = 0) \/ (ts[t] \in 0..MaxTs /\ Plus(ts[t], 1) = ts[t] + 1)
      BY <3>1, PlusOne DEF AnyTs
    <3> QED  BY <3>2
  <2> QED  BY <1>5, <2>1, <2>2, <2>3 DEF Fill, FillFrom, Goto
<1>6. ASSUME NEW t \in Threads, ValidateLookup(t)
      PROVE  TypeOK'
  <2>1. ticket[t] \in Ts
    BY <1>6 DEF ValidateLookup, TicketInv, InFlight
  <2>2. [ws |-> log[ticket[t]].ws, aborted |-> TRUE, base |-> log[ticket[t]].base]
          \in Entry
    BY <2>1 DEF Entry
  <2>3. log' \in [Ts -> Entry]
    BY <1>6, <2>2 DEF ValidateLookup, AbortEntry
  <2> QED  BY <1>6, <2>3 DEF ValidateLookup, Goto, localVars
<1>7. ASSUME NEW t \in Threads, Validate(t)
      PROVE  TypeOK'
  <2>1. ticket[t] \in Ts
    BY <1>7 DEF Validate, TicketInv, InFlight
  <2>2. [ws |-> log[ticket[t]].ws, aborted |-> TRUE, base |-> log[ticket[t]].base]
          \in Entry
    BY <2>1 DEF Entry
  <2>3. cursor[t] < ticket[t]
    BY <1>7 DEF Validate, ValidateInv, Validated
  <2>4. log' \in [Ts -> Entry]
    BY <1>7, <2>2 DEF Validate, AbortEntry
  <2>5. cursor' \in [Threads -> 0..(MaxTs + 1)]
    <3>1. cursor' = cursor \/ cursor' = [cursor EXCEPT ![t] = cursor[t] + 1]
      BY <1>7 DEF Validate
    <3>2. cursor[t] + 1 \in 0..(MaxTs + 1)
      BY <2>1, <2>3
    <3> QED  BY <3>1, <3>2
  <2>6. pc' \in [Threads -> Steps]
    BY <1>7 DEF Validate, Goto
  <2> QED  BY <1>7, <2>4, <2>5, <2>6 DEF Validate
<1>8. ASSUME NEW t \in Threads, Sequence(t)
      PROVE  TypeOK'
  BY <1>8 DEF Sequence, Goto, logVars
<1>9. ASSUME NEW t \in Threads, ReadMaster(t) \/ Update(t) \/ Pause(t)
      PROVE  TypeOK'
  <2>1. next_ts[t] \in AnyTs /\ InvalidTs \in AnyTs
    BY DEF AnyTs
  <2>2. CASE ReadMaster(t)
    BY <2>2 DEF ReadMaster, Goto, logVars
  <2>3. CASE Update(t)
    BY <2>1, <2>3 DEF Update, Goto, logVars
  <2>4. CASE Pause(t)
    BY <2>1, <2>4 DEF Pause, logVars
  <2> QED  BY <1>9, <2>2, <2>3, <2>4
<1>10. ASSUME NEW stop \in Ts, DeleteLog(stop)
       PROVE  TypeOK'
  BY <1>10 DEF DeleteLog, logVars, localVars
<1>11. CASE UNCHANGED vars
  BY <1>11 DEF vars
<1> QED  BY <1>1, <1>2, <1>3, <1>4, <1>5, <1>6, <1>7, <1>8, <1>9, <1>10, <1>11
         DEF Next, Progress

-----------------------------------------------------------------------------
(* The lock, the timestamps and the chain of the sequence lock *)

\* No step lets a second thread between the lock and the unlock.
LEMMA LockStep ==
  ASSUME TypeOK, LockInv, [Next]_vars
  PROVE  LockInv'
<1> USE ThreadsAssumption DEF TypeOK, LockInv, Goto
<1>1. ASSUME NEW t \in Threads, NEW W \in SUBSET Words, Call(t, W)
      PROVE  LockInv'
  BY <1>1 DEF Call
<1>2. ASSUME NEW t \in Threads, Lock(t)
      PROVE  LockInv'
  BY <1>2 DEF Lock
<1>3. ASSUME NEW t \in Threads, Interrupted(t)
      PROVE  LockInv'
  BY <1>3 DEF Interrupted, Return
<1>4. ASSUME NEW t \in Threads, CreateFails(t)
      PROVE  LockInv'
  BY <1>4 DEF CreateFails, Return
<1>5. ASSUME NEW t \in Threads, Create(t)
      PROVE  LockInv'
  BY <1>5 DEF Create
<1>6. ASSUME NEW t \in Threads, Fill(t)
      PROVE  LockInv'
  BY <1>6 DEF Fill, FillFrom
<1>7. ASSUME NEW t \in Threads, ValidateLookup(t) \/ Validate(t)
      PROVE  LockInv'
  BY <1>7 DEF ValidateLookup, Validate
<1>8. ASSUME NEW t \in Threads, Sequence(t) \/ ReadMaster(t) \/ Update(t) \/ Pause(t)
      PROVE  LockInv'
  BY <1>8 DEF Sequence, ReadMaster, Update, Pause
<1>9. ASSUME NEW stop \in Ts, DeleteLog(stop)
      PROVE  LockInv'
  BY <1>9 DEF DeleteLog
<1>10. CASE UNCHANGED vars
  BY <1>10 DEF vars
<1> QED  BY <1>1, <1>2, <1>3, <1>4, <1>5, <1>6, <1>7, <1>8, <1>9, <1>10
         DEF Next, Progress

\* A thread that is making its entry or has one in flight.
Busy(t) == pc[t] = "fill" \/ InFlight(t)

\* A step that touches neither the log nor a thread that is busy before or after.
Quiet ==
  /\ UNCHANGED <<commit_started_ts, master_ts, log>>
  /\ \A u \in Threads : Busy(u) \/ Busy(u)' =>
       /\ pc'[u] = pc[u]
       /\ ts'[u] = ts[u]
       /\ ticket'[u] = ticket[u]
       /\ cursor'[u] = cursor[u]

\* What a step of thread t leaves alone in the other threads.
OthersKeep(t) ==
  \A u \in Threads \ {t} : pc'[u] = pc[u] /\ cursor'[u] = cursor[u]

\* Every step is quiet, or makes, fills in, validates or releases an entry.
LEMMA StepKinds ==
  ASSUME TypeOK, [Next]_vars
  PROVE  \/ Quiet
         \/ \E t \in Threads :
              \/ Create(t) \/ Fill(t) \/ ValidateLookup(t) \/ Validate(t)
              \/ Sequence(t)
<1> USE DEF TypeOK, Quiet, Busy, InFlight, Goto
<1>1. ASSUME NEW t \in Threads, NEW W \in SUBSET Words, Call(t, W)
      PROVE  Quiet
  BY <1>1 DEF Call, logVars
<1>2. ASSUME NEW t \in Threads, Lock(t)
      PROVE  Quiet
  BY <1>2 DEF Lock, logVars, localVars
<1>3. ASSUME NEW t \in Threads, Interrupted(t)
      PROVE  Quiet
  BY <1>3 DEF Interrupted, Return, logVars
<1>4. ASSUME NEW t \in Threads, CreateFails(t)
      PROVE  Quiet
  BY <1>4 DEF CreateFails, Return, logVars
<1>5. ASSUME NEW t \in Threads, ReadMaster(t)
      PROVE  Quiet
  BY <1>5 DEF ReadMaster, logVars
<1>6. ASSUME NEW t \in Threads, Update(t)
      PROVE  Quiet
  BY <1>6 DEF Update, logVars
<1>7. ASSUME NEW t \in Threads, Pause(t)
      PROVE  Quiet
  BY <1>7 DEF Pause, logVars
<1>8. ASSUME NEW stop \in Ts, DeleteLog(stop)
      PROVE  Quiet
  BY <1>8 DEF DeleteLog, logVars, localVars
<1>9. CASE UNCHANGED vars
  BY <1>9 DEF vars
<1> QED  BY <1>1, <1>2, <1>3, <1>4, <1>5, <1>6, <1>7, <1>8, <1>9 DEF Next, Progress

\* What Create changes.
CreateFx(t) ==
  /\ UNCHANGED <<commit_started_ts, master_ts, ts>>
  /\ commit_started_ts + 1 \in Ts
  /\ \A i \in Ts : i # commit_started_ts + 1 => log'[i] = log[i]
  /\ log'[commit_started_ts + 1] = Blank
  /\ pc[t] = "locked" /\ pc'[t] = "fill"
  /\ ticket'[t] = commit_started_ts + 1
  /\ \A u \in Threads \ {t} : ticket'[u] = ticket[u] /\ pc[u] # "fill"
  /\ OthersKeep(t)

\* The action Create has these effects.
LEMMA CreateEffect ==
  ASSUME TypeOK, LockInv, NEW t \in Threads, Create(t)
  PROVE  CreateFx(t)
BY ThreadsAssumption DEF CreateFx, TypeOK, LockInv, Create, Goto, OthersKeep, Ts

\* What Fill changes.
FillFx(t) ==
  /\ UNCHANGED <<master_ts, ts, ticket>>
  /\ ticket[t] = commit_started_ts + 1
  /\ ticket[t] \in Ts
  /\ commit_started_ts' = ticket[t]
  /\ \A i \in Ts : i # ticket[t] => log'[i] = log[i]
  /\ log'[ticket[t]] = [ws |-> ws[t], aborted |-> FALSE, base |-> ts[t]]
  /\ cursor'[t] = Plus(ts[t], 1)
  /\ pc[t] = "fill"
  /\ pc'[t] = IF ticket[t] >= Plus(ts[t], 2) THEN "lookup" ELSE "seq"
  /\ \A u \in Threads \ {t} : pc[u] # "fill"
  /\ OthersKeep(t)

\* The action Fill has these effects.
LEMMA FillEffect ==
  ASSUME TypeOK, LockInv, TicketInv, NEW t \in Threads, Fill(t)
  PROVE  FillFx(t)
<1>1. ticket[t] = commit_started_ts + 1 /\ ticket[t] \in Ts
  BY TsAssumption DEF TypeOK, Fill, FillFrom, TicketInv, Ts
<1> QED  BY <1>1, ThreadsAssumption
         DEF FillFx, TypeOK, LockInv, Fill, FillFrom, Goto, OthersKeep

\* What the two steps of sivfs_validate change: the thread stays in flight and
\* at most the abort flag of its own entry is set.
ValidateFx(t) ==
  /\ UNCHANGED <<commit_started_ts, master_ts, ts, ticket>>
  /\ ticket[t] \in Ts
  /\ \A i \in Ts : i # ticket[t] => log'[i] = log[i]
  /\ \/ log'[ticket[t]] = log[ticket[t]]
     \/ /\ log'[ticket[t]].aborted
        /\ pc'[t] = "seq"
  /\ log'[ticket[t]].ws = log[ticket[t]].ws
  /\ log'[ticket[t]].base = log[ticket[t]].base
  /\ pc[t] \in {"lookup", "validate"}
  /\ pc'[t] \in {"validate", "seq", "oops"}
  /\ OthersKeep(t)

\* The action ValidateLookup and Validate have these effects.
LEMMA ValidateEffect ==
  ASSUME TypeOK, TicketInv, NEW t \in Threads, ValidateLookup(t) \/ Validate(t)
  PROVE  ValidateFx(t)
<1>1. ticket[t] \in Ts
  BY DEF TypeOK, ValidateLookup, Validate, TicketInv, InFlight, Ts
<1>2. CASE ValidateLookup(t)
  BY <1>1, <1>2 DEF ValidateFx, TypeOK, ValidateLookup, AbortEntry, Goto, OthersKeep, localVars
<1>3. CASE Validate(t)
  BY <1>1, <1>3 DEF ValidateFx, TypeOK, Validate, AbortEntry, Goto, OthersKeep
<1> QED  BY <1>2, <1>3

\* What Sequence changes.
SequenceFx(t) ==
  /\ UNCHANGED <<commit_started_ts, log, ts, ticket, cursor>>
  /\ master_ts = ticket[t] - 1
  /\ master_ts' = ticket[t]
  /\ pc[t] = "seq" /\ pc'[t] = "master"
  /\ OthersKeep(t)

\* The action Sequence has these effects.
LEMMA SequenceEffect ==
  ASSUME TypeOK, NEW t \in Threads, Sequence(t)
  PROVE  SequenceFx(t)
BY DEF SequenceFx, TypeOK, Sequence, Goto, OthersKeep, logVars

\* The timestamps are natural numbers.
LEMMA Nats ==
  ASSUME TypeOK
  PROVE  /\ master_ts \in Nat /\ commit_started_ts \in Nat
         /\ \A u \in Threads : ticket[u] \in Nat
BY TsAssumption DEF TypeOK

\* The threads in flight have entries of the log.
LEMMA TicketsInLog ==
  ASSUME TypeOK, TicketInv
  PROVE  \A u \in Threads : InFlight(u) => ticket[u] \in Ts
BY TsAssumption DEF TypeOK, TicketInv, Ts

\* The timestamps in flight stay above master_ts, up to commit_started_ts, and
\* different from each other.
LEMMA TicketStep ==
  ASSUME TypeOK, LockInv, TicketInv, [Next]_vars
  PROVE  TicketInv'
<1> USE Nats DEF InFlight, TicketInv
<1>1. CASE Quiet
  BY <1>1 DEF Quiet, Busy
<1>2. ASSUME NEW t \in Threads, Create(t)
      PROVE  TicketInv'
  <2>1. CreateFx(t)
    BY <1>2, CreateEffect
  <2>2. \A u \in Threads : InFlight(u)' => u # t /\ InFlight(u)
    BY <2>1 DEF CreateFx, OthersKeep
  <2>3. \A u \in Threads : InFlight(u) =>
          ticket[u] # commit_started_ts + 1 /\ ticket[u] \in Ts
    BY TsAssumption DEF TypeOK, Ts
  <2>4. \A u \in Threads : pc'[u] = "fill" => u = t
    BY <2>1 DEF CreateFx, OthersKeep
  <2> QED  BY <2>1, <2>2, <2>3, <2>4 DEF CreateFx
<1>3. ASSUME NEW t \in Threads, Fill(t)
      PROVE  TicketInv'
  <2>1. FillFx(t)
    BY <1>3, FillEffect
  <2>2. \A u \in Threads : InFlight(u)' => u = t \/ InFlight(u)
    BY <2>1 DEF FillFx, OthersKeep
  <2>3. \A u \in Threads : pc'[u] # "fill"
    BY <2>1 DEF FillFx, OthersKeep
  <2>4. \A u \in Threads : InFlight(u) => ticket[u] # ticket[t] /\ ticket[u] \in Ts
    <3>1. ticket[t] = commit_started_ts + 1
      BY <2>1 DEF FillFx
    <3>2. \A u \in Threads : InFlight(u) => ticket[u] <= commit_started_ts
      OBVIOUS
    <3>3. \A u \in Threads : InFlight(u) => ticket[u] \in Ts
      BY TicketsInLog
    <3> QED  BY ONLY <3>1, <3>2, <3>3, Nats, TypeOK
  <2>5. \A u \in Threads : InFlight(u)' => log'[ticket[u]].base = ts[u]
    BY <2>1, <2>2, <2>4 DEF FillFx
  <2> QED  BY <2>1, <2>2, <2>3, <2>4, <2>5 DEF FillFx
<1>4. ASSUME NEW t \in Threads, ValidateLookup(t) \/ Validate(t)
      PROVE  TicketInv'
  <2>1. ValidateFx(t)
    BY <1>4, ValidateEffect
  <2>2. \A u \in Threads : InFlight(u)' <=> InFlight(u)
    BY <2>1 DEF ValidateFx, OthersKeep
  <2>3. \A u \in Threads : pc'[u] = "fill" => pc[u] = "fill"
    BY <2>1 DEF ValidateFx, OthersKeep
  <2>4. \A u \in Threads : InFlight(u) => ticket[u] \in Ts
    BY TsAssumption DEF TypeOK, Ts
  <2> QED  BY <2>1, <2>2, <2>3, <2>4 DEF ValidateFx
<1>5. ASSUME NEW t \in Threads, Sequence(t)
      PROVE  TicketInv'
  <2>1. SequenceFx(t)
    BY <1>5, SequenceEffect
  <2>2. \A u \in Threads : InFlight(u)' => InFlight(u) /\ u # t
    BY <2>1 DEF SequenceFx, OthersKeep
  <2>3. \A u \in Threads : pc'[u] = "fill" => pc[u] = "fill"
    BY <2>1 DEF SequenceFx, OthersKeep
  <2>4. \A u \in Threads : InFlight(u)' => master_ts' < ticket[u]
    BY <2>1, <2>2 DEF SequenceFx
  <2> QED  BY <2>1, <2>2, <2>3, <2>4 DEF SequenceFx
<1> QED  BY <1>1, <1>2, <1>3, <1>4, <1>5, StepKinds

\* No step leaves a timestamp above master_ts without a thread.
LEMMA ChainStep ==
  ASSUME TypeOK, LockInv, TicketInv, ChainInv, [Next]_vars
  PROVE  ChainInv'
<1> USE Nats DEF InFlight, ChainInv, Ts
<1>1. CASE Quiet
  BY <1>1 DEF Quiet, Busy
<1>2. ASSUME NEW t \in Threads, Create(t)
      PROVE  ChainInv'
  <2>1. CreateFx(t)
    BY <1>2, CreateEffect
  <2> QED  BY <2>1 DEF CreateFx, OthersKeep
<1>3. ASSUME NEW t \in Threads, Fill(t)
      PROVE  ChainInv'
  <2>1. FillFx(t)
    BY <1>3, FillEffect
  <2>2. InFlight(t)' /\ \A u \in Threads : InFlight(u) => InFlight(u)'
    BY <2>1 DEF FillFx, OthersKeep
  <2> QED  BY <2>1, <2>2, TsAssumption DEF FillFx
<1>4. ASSUME NEW t \in Threads, ValidateLookup(t) \/ Validate(t)
      PROVE  ChainInv'
  <2>1. ValidateFx(t)
    BY <1>4, ValidateEffect
  <2> QED  BY <2>1 DEF ValidateFx, OthersKeep
<1>5. ASSUME NEW t \in Threads, Sequence(t)
      PROVE  ChainInv'
  <2>1. SequenceFx(t)
    BY <1>5, SequenceEffect
  <2>2. \A u \in Threads : InFlight(u) /\ u # t => InFlight(u)'
    BY <2>1 DEF SequenceFx, OthersKeep
  <2> QED  BY <2>1, <2>2, TsAssumption DEF SequenceFx
<1> QED  BY <1>1, <1>2, <1>3, <1>4, <1>5, StepKinds

-----------------------------------------------------------------------------
(* Validation *)

\* What validation has found out of a thread's entry stays true when other
\* entries are made, filled in after it or aborted.
LEMMA ValidatedKeeps ==
  ASSUME TypeOK, NEW u \in Threads, Validated(u),
         InFlight(u)' => /\ ticket[u] \in Ts
                         /\ pc'[u] = pc[u]
                         /\ ts'[u] = ts[u]
                         /\ ticket'[u] = ticket[u]
                         /\ cursor'[u] = cursor[u]
                         /\ log'[ticket[u]] = log[ticket[u]]
                         /\ \A i \in Ts : i < ticket[u] /\ ~log'[i].aborted =>
                              ~log[i].aborted /\ log'[i].ws = log[i].ws
  PROVE  Validated(u)'
<1> USE TsAssumption, Nats DEF Validated, InFlight, Ts
<1>1. CASE ~InFlight(u)'
  BY <1>1
<1>2. CASE pc'[u] = "lookup"
  BY <1>2
<1>3. CASE pc'[u] = "validate"
  <2>1. cursor[u] \in Nat /\ ticket[u] \in Nat /\ cursor[u] < ticket[u]
    BY <1>3 DEF TypeOK
  <2>2. \A i \in Ts : i < cursor[u] => i < ticket[u]
    BY ONLY <2>1, TsAssumption DEF Ts
  <2>3. CleanUpTo(u, cursor[u])'
    BY <1>3, <2>2 DEF CleanUpTo, Conflicts
  <2> QED  BY <1>3, <2>1, <2>3
<1>4. CASE pc'[u] = "seq"
  BY <1>4 DEF CleanUpTo, Conflicts
<1>5. CASE pc'[u] = "oops"
  BY <1>5
<1> QED  BY <1>1, <1>2, <1>3, <1>4, <1>5

\* Validation never overlooks an entry between the snapshot and the own entry.
LEMMA ValidateStep ==
  ASSUME TypeOK, LockInv, TicketInv, ValidateInv, [Next]_vars
  PROVE  ValidateInv'
<1>0. /\ master_ts \in Nat /\ commit_started_ts \in Nat
      /\ \A u \in Threads : Validated(u) /\ ticket[u] \in Nat
      /\ \A u \in Threads : InFlight(u) => ticket[u] \in Ts /\ ticket[u] <= commit_started_ts
  BY Nats, TicketsInLog DEF ValidateInv, TicketInv
<1>1. CASE Quiet
  <2>1. ASSUME NEW u \in Threads
        PROVE  Validated(u)'
    <3>1. InFlight(u)' => /\ ticket[u] \in Ts /\ pc'[u] = pc[u] /\ ts'[u] = ts[u]
                          /\ ticket'[u] = ticket[u] /\ cursor'[u] = cursor[u]
      BY <1>0, <1>1 DEF Quiet, Busy, InFlight
    <3>2. log' = log
      BY <1>1 DEF Quiet
    <3> QED  BY <1>0, <3>1, <3>2, ValidatedKeeps
  <2> QED  BY <2>1 DEF ValidateInv
<1>2. ASSUME NEW t \in Threads, Create(t)
      PROVE  ValidateInv'
  <2>1. CreateFx(t)
    BY <1>2, CreateEffect
  <2>2. Validated(t)'
    BY <2>1 DEF CreateFx, Validated
  <2>3. ASSUME NEW u \in Threads, u # t
        PROVE  Validated(u)'
    <3>1. InFlight(u)' => /\ InFlight(u) /\ pc'[u] = pc[u] /\ ts'[u] = ts[u]
                          /\ ticket'[u] = ticket[u] /\ cursor'[u] = cursor[u]
      BY <2>1, <2>3 DEF CreateFx, OthersKeep, InFlight
    <3>2. \A i \in Ts : i <= commit_started_ts => log'[i] = log[i]
      BY <1>0, <2>1 DEF CreateFx, Ts
    <3>3. InFlight(u) => \A i \in Ts : i <= ticket[u] => log'[i] = log[i]
      BY <1>0, <3>2 DEF Ts
    <3>4. InFlight(u) => log'[ticket[u]] = log[ticket[u]]
      BY <1>0, <3>3
    <3> QED  BY <1>0, <3>1, <3>3, <3>4, ValidatedKeeps DEF Ts
  <2> QED  BY <2>2, <2>3 DEF ValidateInv
<1>3. ASSUME NEW t \in Threads, Fill(t)
      PROVE  ValidateInv'
  <2>1. FillFx(t)
    BY <1>3, FillEffect
  <2>2. Validated(t)'
    <3>0. ts'[t] = ts[t] /\ ticket'[t] = ticket[t] /\ ~log'[ticket[t]].aborted
      <4>1. ts' = ts /\ ticket' = ticket
        BY <2>1 DEF FillFx
      <4>2. log'[ticket[t]] = [ws |-> ws[t], aborted |-> FALSE, base |-> ts[t]]
        BY <2>1 DEF FillFx
      <4> QED  BY ONLY <4>1, <4>2
    <3>1. CASE pc'[t] = "lookup"
      <4>1. cursor'[t] = Plus(ts[t], 1) /\ ticket[t] >= Plus(ts[t], 2)
        BY <2>1, <3>1 DEF FillFx
      <4> QED  BY <3>0, <3>1, <4>1 DEF Validated
    <3>2. CASE pc'[t] = "seq"
      <4>1. ts[t] \in AnyTs /\ ticket[t] \in Nat /\ ticket[t] >= 1 /\ ~(ticket[t] >= Plus(ts[t], 2))
        <5>1. ticket[t] \in Ts /\ ~(ticket[t] >= Plus(ts[t], 2))
          BY <2>1, <3>2 DEF FillFx
        <5>2. ts[t] \in AnyTs
          BY DEF TypeOK
        <5> QED  BY ONLY <5>1, <5>2, TsAssumption DEF Ts
      <4>2. ts[t] # InvalidTs /\ ticket[t] <= ts[t] + 1 /\ ts[t] \in Nat
        BY <4>1, PlusOne, TsAssumption DEF AnyTs
      <4>3. \A i \in Ts : ~(ts[t] < i /\ i < ticket[t])
        BY <4>1, <4>2 DEF Ts
      <4>4. CleanUpTo(t, ticket[t])'
        BY <3>0, <4>3 DEF CleanUpTo
      <4> QED  BY <3>0, <3>2, <4>2, <4>4 DEF Validated
    <3> QED  BY <2>1, <3>1, <3>2 DEF FillFx
  <2>3. ASSUME NEW u \in Threads, u # t
        PROVE  Validated(u)'
    <3>1. InFlight(u)' => /\ InFlight(u) /\ pc'[u] = pc[u] /\ ts'[u] = ts[u]
                          /\ ticket'[u] = ticket[u] /\ cursor'[u] = cursor[u]
      BY <2>1, <2>3 DEF FillFx, OthersKeep, InFlight
    <3>2. \A i \in Ts : i <= commit_started_ts => log'[i] = log[i]
      BY <1>0, <2>1 DEF FillFx, Ts
    <3>3. InFlight(u) => \A i \in Ts : i <= ticket[u] => log'[i] = log[i]
      BY <1>0, <3>2 DEF Ts
    <3>4. InFlight(u) => log'[ticket[u]] = log[ticket[u]]
      BY <1>0, <3>3
    <3> QED  BY <1>0, <3>1, <3>3, <3>4, ValidatedKeeps DEF Ts
  <2> QED  BY <2>2, <2>3 DEF ValidateInv
<1>4. ASSUME NEW t \in Threads, ValidateLookup(t) \/ Validate(t)
      PROVE  ValidateInv'
  <2>1. ValidateFx(t)
    BY <1>4, ValidateEffect
  <2>0. ts'[t] = ts[t] /\ ticket'[t] = ticket[t] /\ ticket[t] \in Ts
    BY <2>1 DEF ValidateFx
  <2>2. ASSUME log'[ticket[t]].aborted, pc'[t] = "seq"
        PROVE  Validated(t)'
    BY <2>0, <2>2 DEF Validated
  <2>3. ASSUME ValidateLookup(t), log'[ticket[t]] = log[ticket[t]]
        PROVE  Validated(t)'
    <3>1. /\ pc[t] = "lookup" /\ cursor' = cursor
          /\ pc'[t] \in {"validate", "seq", "oops"}
          /\ pc'[t] = "seq" => log'[ticket[t]].aborted
          /\ pc'[t] = "validate" => cursor[t] \in Ts
      BY <2>0, <2>3 DEF ValidateLookup, AbortEntry, Goto, localVars, TypeOK
    <3>2. ~log[ticket[t]].aborted /\ cursor[t] = Plus(ts[t], 1) /\ ticket[t] >= Plus(ts[t], 2)
      BY <1>0, <3>1 DEF Validated
    <3>3. CASE pc'[t] = "validate"
      <4>1. ts[t] \in AnyTs /\ ticket[t] \in Nat /\ cursor[t] \in Nat /\ cursor[t] >= 1
        BY <1>0, <3>1, <3>3 DEF TypeOK, Ts
      <4>2. ts[t] # InvalidTs /\ ts[t] \in Nat /\ cursor[t] = ts[t] + 1 /\ cursor[t] < ticket[t]
        BY <3>2, <4>1, PlusOne, TsAssumption DEF AnyTs
      <4>3. \A i \in Ts : ~(ts[t] < i /\ i < cursor[t])
        BY <4>1, <4>2 DEF Ts
      <4>4. CleanUpTo(t, cursor[t])'
        BY <2>0, <3>1, <4>3 DEF CleanUpTo
      <4>5. ts[t] < cursor[t]
        BY <4>2
      <4> QED  BY <2>0, <2>3, <3>1, <3>2, <3>3, <4>2, <4>4, <4>5 DEF Validated
    <3>4. CASE pc'[t] = "seq"
      BY <2>2, <3>1, <3>4
    <3>5. CASE pc'[t] = "oops"
      BY <3>5 DEF Validated
    <3> QED  BY <3>1, <3>3, <3>4, <3>5
  <2>4. ASSUME Validate(t), log'[ticket[t]] = log[ticket[t]]
        PROVE  Validated(t)'
    <3>1. /\ pc[t] = "validate" /\ ~log[ticket[t]].aborted
          /\ ts[t] # InvalidTs /\ ts[t] < cursor[t] /\ cursor[t] < ticket[t]
          /\ CleanUpTo(t, cursor[t])
      BY <1>0, <2>4 DEF Validate, Validated
    <3>2. /\ log[cursor[t]].aborted \/ ~Conflicts(log[cursor[t]], log[ticket[t]])
          /\ cursor'[t] = cursor[t] + 1
          /\ pc'[t] = IF cursor[t] = ticket[t] - 1 THEN "seq" ELSE "validate"
          /\ log' = log
      BY <2>0, <2>4, <3>1 DEF Validate, AbortEntry, Goto, TypeOK
    <3>3. cursor[t] \in Nat /\ ts[t] \in Nat /\ ticket[t] \in Nat
      BY <1>0, TsAssumption, <3>1 DEF TypeOK, AnyTs
    <3>4. \A i \in Ts : i < cursor[t] + 1 => i < cursor[t] \/ i = cursor[t]
      BY ONLY <3>3, TsAssumption DEF Ts
    <3>5. CleanUpTo(t, cursor[t] + 1)
      BY <3>1, <3>2, <3>4 DEF CleanUpTo
    <3>6. CleanUpTo(t, cursor[t])'
      BY <2>0, <3>2, <3>5 DEF CleanUpTo
    <3>7. ts[t] < cursor[t] + 1 /\ (cursor[t] # ticket[t] - 1 => cursor[t] + 1 < ticket[t])
      BY <3>1, <3>3
    <3>8. CASE cursor[t] = ticket[t] - 1
      <4>1. cursor[t] + 1 = ticket[t] /\ pc'[t] = "seq"
        BY <3>2, <3>3, <3>8
      <4>2. CleanUpTo(t, ticket[t])'
        BY <2>0, <3>2, <3>5, <4>1 DEF CleanUpTo
      <4> QED  BY <2>0, <3>1, <4>1, <4>2 DEF Validated
    <3>9. CASE cursor[t] # ticket[t] - 1
      <4>1. pc'[t] = "validate"
        BY <3>2, <3>9
      <4> QED  BY <2>0, <3>1, <3>2, <3>6, <3>7, <3>9, <4>1 DEF Validated
    <3> QED  BY <3>8, <3>9
  <2>5. ASSUME NEW u \in Threads, u # t
        PROVE  Validated(u)'
    <3>1. InFlight(u)' => /\ InFlight(u) /\ pc'[u] = pc[u] /\ ts'[u] = ts[u]
                          /\ ticket'[u] = ticket[u] /\ cursor'[u] = cursor[u]
      BY <2>1, <2>5 DEF ValidateFx, OthersKeep, InFlight
    <3>2. InFlight(u) => ticket[u] # ticket[t]
      BY <2>1, <2>5 DEF ValidateFx, TicketInv, InFlight
    <3>3. InFlight(u) => log'[ticket[u]] = log[ticket[u]]
      BY <1>0, <2>1, <3>2 DEF ValidateFx
    <3>4. \A i \in Ts : ~log'[i].aborted => ~log[i].aborted /\ log'[i].ws = log[i].ws
      <4>1. ~log'[ticket[t]].aborted => log'[ticket[t]] = log[ticket[t]]
        BY <2>1 DEF ValidateFx
      <4>2. \A i \in Ts : i # ticket[t] => log'[i] = log[i]
        BY <2>1 DEF ValidateFx
      <4> QED  BY <4>1, <4>2
    <3> QED  BY <1>0, <3>1, <3>3, <3>4, ValidatedKeeps
  <2>6. Validated(t)'
    BY <1>4, <2>1, <2>2, <2>3, <2>4 DEF ValidateFx
  <2> QED  BY <2>5, <2>6 DEF ValidateInv
<1>5. ASSUME NEW t \in Threads, Sequence(t)
      PROVE  ValidateInv'
  <2>1. SequenceFx(t)
    BY <1>5, SequenceEffect
  <2>2. Validated(t)'
    BY <2>1 DEF SequenceFx, Validated
  <2>3. ASSUME NEW u \in Threads, u # t
        PROVE  Validated(u)'
    <3>1. InFlight(u)' => /\ InFlight(u) /\ pc'[u] = pc[u] /\ ts'[u] = ts[u]
                          /\ ticket'[u] = ticket[u] /\ cursor'[u] = cursor[u]
      BY <2>1, <2>3 DEF SequenceFx, OthersKeep, InFlight
    <3>2. log' = log
      BY <2>1 DEF SequenceFx
    <3> QED  BY <1>0, <3>1, <3>2, ValidatedKeeps
  <2> QED  BY <2>2, <2>3 DEF ValidateInv
<1> QED  BY <1>1, <1>2, <1>3, <1>4, <1>5, StepKinds

\* The log is never deleted past a snapshot, and entries beyond
\* commit_started_ts are never aborted.
LEMMA DeletedStep ==
  ASSUME TypeOK, LockInv, TicketInv, ValidateInv, DeletedInv, [Next]_vars
  PROVE  DeletedInv'
<1> USE TsAssumption DEF TypeOK, DeletedInv, Goto, Ts
<1>1. ASSUME NEW t \in Threads, NEW W \in SUBSET Words, Call(t, W)
      PROVE  DeletedInv'
  BY <1>1 DEF Call, logVars
<1>2. ASSUME NEW t \in Threads, Lock(t)
      PROVE  DeletedInv'
  BY <1>2 DEF Lock, logVars, localVars
<1>3. ASSUME NEW t \in Threads, Interrupted(t)
      PROVE  DeletedInv'
  BY <1>3 DEF Interrupted, Return, logVars
<1>4. ASSUME NEW t \in Threads, CreateFails(t)
      PROVE  DeletedInv'
  BY <1>4 DEF CreateFails, Return, logVars
<1>5. ASSUME NEW t \in Threads, Create(t)
      PROVE  DeletedInv'
  BY <1>5 DEF Create, Blank
<1>6. ASSUME NEW t \in Threads, Fill(t)
      PROVE  DeletedInv'
  BY <1>6 DEF Fill, FillFrom, TicketInv
<1>7. ASSUME NEW t \in Threads, ValidateLookup(t) \/ Validate(t)
      PROVE  DeletedInv'
  <2>1. ValidateFx(t)
    BY <1>7, ValidateEffect
  <2>2. \A i \in Ts : i > commit_started_ts => log'[i] = log[i]
    <3>1. ticket[t] <= commit_started_ts
      BY <2>1 DEF ValidateFx, TicketInv, InFlight
    <3> QED  BY <2>1, <3>1 DEF ValidateFx
  <2>3. \A u \in Threads : pc'[u] = "update" => pc[u] = "update"
    BY <2>1 DEF ValidateFx, OthersKeep
  <2>4. UNCHANGED <<master_log_deleted_ts, next_ts>>
    BY <1>7 DEF ValidateLookup, Validate, localVars
  <2> QED  BY <2>1, <2>2, <2>3, <2>4 DEF ValidateFx
<1>8. ASSUME NEW t \in Threads, Sequence(t)
      PROVE  DeletedInv'
  BY <1>8 DEF Sequence, logVars
<1>9. ASSUME NEW t \in Threads, ReadMaster(t)
       PROVE  DeletedInv'
  BY <1>9 DEF ReadMaster, logVars
<1>10. ASSUME NEW t \in Threads, Update(t)
       PROVE  DeletedInv'
  BY <1>10 DEF Update, logVars
<1>11. ASSUME NEW t \in Threads, Pause(t)
       PROVE  DeletedInv'
  BY <1>11 DEF Pause, logVars
<1>12. ASSUME NEW stop \in Ts, DeleteLog(stop)
       PROVE  DeletedInv'
  BY <1>12 DEF DeleteLog, logVars, localVars
<1>13. CASE UNCHANGED vars
  BY <1>13 DEF vars
<1> QED  BY <1>1, <1>2, <1>3, <1>4, <1>5, <1>6, <1>7, <1>8, <1>9, <1>10,
            <1>11, <1>12, <1>13
         DEF Next, Progress

-----------------------------------------------------------------------------
(* First committer wins *)

\* The entry of the thread that advances master_ts was validated against every
\* A step that releases no timestamp touches no entry up to master_ts.
LEMMA PublishedKept ==
  ASSUME TypeOK, LockInv, TicketInv, [Next]_vars
  PROVE  /\ \A i \in Ts : i <= master_ts => log'[i] = log[i]
         /\ \/ master_ts' = master_ts
            \/ \E t \in Threads : Sequence(t) /\ master_ts' = master_ts + 1 /\ log' = log
<1>0. /\ master_ts \in Nat /\ commit_started_ts \in Nat /\ master_ts <= commit_started_ts
      /\ \A i \in Ts : i \in Nat
  <2>1. \A i \in Ts : i \in Nat
    BY ONLY TsAssumption DEF Ts
  <2>2. master_ts \in Nat /\ commit_started_ts \in Nat
    BY Nats
  <2>3. master_ts <= commit_started_ts
    BY DEF TicketInv
  <2> QED  BY <2>1, <2>2, <2>3
<1>1. CASE Quiet
  BY <1>1 DEF Quiet
<1>2. ASSUME NEW t \in Threads, Create(t)
      PROVE  master_ts' = master_ts /\ \A i \in Ts : i <= master_ts => log'[i] = log[i]
  <2>1. CreateFx(t)
    BY <1>2, CreateEffect
  <2>2. master_ts' = master_ts /\ \A i \in Ts : i # commit_started_ts + 1 => log'[i] = log[i]
    BY <2>1 DEF CreateFx
  <2> QED  BY ONLY <1>0, <2>2
<1>3. ASSUME NEW t \in Threads, Fill(t)
      PROVE  master_ts' = master_ts /\ \A i \in Ts : i <= master_ts => log'[i] = log[i]
  <2>1. FillFx(t)
    BY <1>3, FillEffect
  <2>2. master_ts' = master_ts /\ \A i \in Ts : i # commit_started_ts + 1 => log'[i] = log[i]
    BY <2>1 DEF FillFx
  <2> QED  BY ONLY <1>0, <2>2
<1>4. ASSUME NEW t \in Threads, ValidateLookup(t) \/ Validate(t)
      PROVE  master_ts' = master_ts /\ \A i \in Ts : i <= master_ts => log'[i] = log[i]
  <2>1. ValidateFx(t)
    BY <1>4, ValidateEffect
  <2>2. master_ts' = master_ts /\ \A i \in Ts : i # ticket[t] => log'[i] = log[i]
    BY <2>1 DEF ValidateFx
  <2>3. master_ts < ticket[t] /\ ticket[t] \in Nat
    BY <2>1, Nats DEF ValidateFx, TicketInv, InFlight
  <2> QED  BY ONLY <1>0, <2>2, <2>3
<1>5. ASSUME NEW t \in Threads, Sequence(t)
      PROVE  master_ts' = master_ts + 1 /\ log' = log
  <2>1. SequenceFx(t)
    BY <1>5, SequenceEffect
  <2>2. master_ts = ticket[t] - 1 /\ master_ts' = ticket[t] /\ log' = log /\ ticket[t] \in Nat
    BY <2>1, Nats DEF SequenceFx
  <2> QED  BY ONLY <2>2
<1> QED  BY <1>1, <1>2, <1>3, <1>4, <1>5, StepKinds

\* A step commits an entry only once validation has found no conflict.
LEMMA WinsStep ==
  ASSUME TypeOK, LockInv, TicketInv, ValidateInv, FirstCommitterWins, [Next]_vars
  PROVE  FirstCommitterWins'
<1>0. master_ts \in Nat /\ \A i \in Ts : i \in Nat
  BY Nats DEF Ts
<1>1. CASE master_ts' = master_ts
  <2> SUFFICES ASSUME NEW i \in Ts, NEW j \in Ts, i < j, j <= master_ts,
                      ~log'[i].aborted, ~log'[j].aborted, Conflicts(log'[i], log'[j])
               PROVE  log'[j].base # InvalidTs /\ i <= log'[j].base
    BY <1>1 DEF FirstCommitterWins, Conflicts
  <2>1. i <= master_ts
    BY <1>0
  <2>2. log'[i] = log[i] /\ log'[j] = log[j]
    BY <2>1, PublishedKept
  <2> QED  BY <2>2 DEF FirstCommitterWins
<1>2. ASSUME NEW t \in Threads, Sequence(t)
      PROVE  FirstCommitterWins'
  <2>1. SequenceFx(t)
    BY <1>2, SequenceEffect
  <2>2. /\ ticket[t] \in Ts /\ log[ticket[t]].base = ts[t]
        /\ log' = log /\ master_ts' = ticket[t] /\ master_ts = ticket[t] - 1
    BY <2>1, TicketsInLog DEF SequenceFx, TicketInv, InFlight
  <2>3. ~log[ticket[t]].aborted => ts[t] # InvalidTs /\ CleanUpTo(t, ticket[t])
    BY <2>1 DEF SequenceFx, ValidateInv, Validated
  <2>4. ts[t] \in Nat
    BY TsAssumption DEF TypeOK, AnyTs
  <2> SUFFICES ASSUME NEW i \in Ts, NEW j \in Ts, i < j, j <= ticket[t],
                      ~log[i].aborted, ~log[j].aborted, Conflicts(log[i], log[j])
               PROVE  log[j].base # InvalidTs /\ i <= log[j].base
    BY <2>2 DEF FirstCommitterWins, Conflicts
  <2>5. CASE j = ticket[t]
    <3>1. ~(ts[t] < i)
      BY <2>3, <2>5 DEF CleanUpTo
    <3>2. i <= ts[t]
      BY ONLY <1>0, <2>4, <3>1
    <3> QED  BY <2>2, <2>3, <2>5, <3>2
  <2>6. CASE j # ticket[t]
    <3>1. j <= master_ts
      BY <1>0, <2>2, <2>6
    <3> QED  BY <3>1 DEF FirstCommitterWins
  <2> QED  BY <2>5, <2>6
<1> QED  BY <1>1, <1>2, PublishedKept

\* A step that changes only the entry above commit_started_ts, without aborting
\* it, leaves no aborted entry above commit_started_ts.
LEMMA NewEntryClean ==
  ASSUME TypeOK, DeletedInv,
         ~log'[commit_started_ts + 1].aborted,
         \A j \in Ts : j # commit_started_ts + 1 => log'[j] = log[j]
  PROVE  \A j \in Ts : log'[j].aborted => j <= commit_started_ts
<1>1. \A j \in Ts : log'[j].aborted => log[j].aborted
  OBVIOUS
<1>2. \A j \in Ts : j > commit_started_ts => ~log[j].aborted
  BY DEF DeletedInv
<1> QED  BY ONLY <1>1, <1>2, Nats, TypeOK, TsAssumption DEF Ts

\* A step that touches no entry up to commit_started_ts, and leaves none aborted
\* above it, keeps every abort justified.
LEMMA AbortedKept ==
  ASSUME TypeOK, AbortJustified,
         \A j \in Ts : log'[j].aborted => j <= commit_started_ts,
         \A j \in Ts : j <= commit_started_ts => log'[j] = log[j]
  PROVE  AbortJustified'
<1> SUFFICES ASSUME NEW j \in Ts, log'[j].aborted, log'[j].base # InvalidTs
             PROVE  \E i \in Ts : /\ log'[j].base < i
                                  /\ i < j
                                  /\ Conflicts(log'[i], log'[j])
  BY DEF AbortJustified, Conflicts
<1>1. log'[j] = log[j] /\ j <= commit_started_ts
  OBVIOUS
<1>2. PICK i \in Ts : log[j].base < i /\ i < j /\ Conflicts(log[i], log[j])
  BY <1>1 DEF AbortJustified
<1>3. i <= commit_started_ts
  BY <1>1, <1>2, Nats DEF Ts
<1>4. log'[i] = log[i]
  BY <1>3
<1> QED  BY <1>1, <1>2, <1>4

\* A step aborts an entry only upon a conflict in the range it validates.
LEMMA AbortStep ==
  ASSUME TypeOK, LockInv, TicketInv, ValidateInv, DeletedInv, AbortJustified,
         [Next]_vars
  PROVE  AbortJustified'
<1> USE Nats, TicketsInLog DEF InFlight, AbortJustified
<1>1. CASE Quiet
  BY <1>1 DEF Quiet, Conflicts
<1>2. ASSUME NEW t \in Threads, Create(t)
      PROVE  AbortJustified'
  <2>1. CreateFx(t)
    BY <1>2, CreateEffect
  <2>2. ~log'[commit_started_ts + 1].aborted
    BY <2>1 DEF CreateFx, Blank
  <2>5. \A j \in Ts : j # commit_started_ts + 1 => log'[j] = log[j]
    BY <2>1 DEF CreateFx
  <2>3. \A j \in Ts : log'[j].aborted => j <= commit_started_ts
    BY <2>2, <2>5, NewEntryClean
  <2>4. \A j \in Ts : j <= commit_started_ts => log'[j] = log[j]
    BY ONLY <2>5, Nats, TypeOK, TsAssumption DEF Ts
  <2> QED  BY <2>3, <2>4, AbortedKept
<1>3. ASSUME NEW t \in Threads, Fill(t)
      PROVE  AbortJustified'
  <2>1. FillFx(t)
    BY <1>3, FillEffect
  <2>3. \A j \in Ts : j # commit_started_ts + 1 => log'[j] = log[j]
    BY <2>1 DEF FillFx
  <2>5. ~log'[commit_started_ts + 1].aborted
    <3>1. log'[commit_started_ts + 1] = [ws |-> ws[t], aborted |-> FALSE, base |-> ts[t]]
      BY <2>1 DEF FillFx
    <3> QED  BY ONLY <3>1
  <2>2. \A j \in Ts : log'[j].aborted => j <= commit_started_ts
    BY <2>3, <2>5, NewEntryClean
  <2>4. \A j \in Ts : j <= commit_started_ts => log'[j] = log[j]
    BY ONLY <2>3, Nats, TypeOK, TsAssumption DEF Ts
  <2> QED  BY <2>2, <2>4, AbortedKept
<1>4. ASSUME NEW t \in Threads, ValidateLookup(t) \/ Validate(t)
      PROVE  AbortJustified'
  <2>1. ValidateFx(t)
    BY <1>4, ValidateEffect
  <2>2. \A i \in Ts : log'[i].ws = log[i].ws /\ log'[i].base = log[i].base
    BY <2>1 DEF ValidateFx
  <2>3. log[ticket[t]].base = ts[t] /\ ~log[ticket[t]].aborted
    BY <2>1 DEF ValidateFx, TicketInv, ValidateInv, Validated
  <2>4. ASSUME ValidateLookup(t), log'[ticket[t]].aborted
        PROVE  ts[t] = InvalidTs
    <3>1. cursor[t] < master_log_deleted_ts /\ cursor[t] = Plus(ts[t], 1)
      BY <2>3, <2>4 DEF ValidateLookup, ValidateInv, Validated
    <3>2. master_log_deleted_ts <= ts[t] /\ master_log_deleted_ts \in Nat /\ ts[t] \in AnyTs
      BY DEF DeletedInv, TypeOK
    <3>3. ts[t] # InvalidTs => cursor[t] = ts[t] + 1 /\ ts[t] \in Nat
      BY <3>1, <3>2, PlusOne, TsAssumption DEF AnyTs
    <3> QED  BY ONLY <3>1, <3>2, <3>3
  <2>5. ASSUME Validate(t), log'[ticket[t]].aborted
        PROVE  \E i \in Ts : ts[t] < i /\ i < ticket[t] /\ Conflicts(log[i], log[ticket[t]])
    <3>1. Conflicts(log[cursor[t]], log[ticket[t]])
      BY <2>3, <2>5 DEF Validate
    <3>2. ts[t] < cursor[t] /\ cursor[t] < ticket[t]
      BY <2>5 DEF Validate, ValidateInv, Validated
    <3>3. cursor[t] \in Ts
      <4>1. ts[t] \in Nat /\ cursor[t] \in Nat
        BY TsAssumption DEF TypeOK, AnyTs
      <4>2. ticket[t] \in Ts
        BY <2>1 DEF ValidateFx
      <4> HIDE DEF AbortJustified, InFlight
      <4> QED  BY ONLY <3>2, <4>1, <4>2, TsAssumption DEF Ts
    <3> QED  BY <3>1, <3>2, <3>3
  <2>6. \A j \in Ts : j # ticket[t] => log'[j] = log[j]
    BY <2>1 DEF ValidateFx
  <2>7. ASSUME NEW j \in Ts, log'[j].aborted, log'[j].base # InvalidTs
        PROVE  \E i \in Ts : log'[j].base < i /\ i < j /\ Conflicts(log[i], log[j])
    <3>1. CASE j = ticket[t]
      BY <1>4, <2>2, <2>3, <2>4, <2>5, <2>7, <3>1
    <3>2. CASE j # ticket[t]
      <4>1. log'[j] = log[j]
        BY <2>6, <3>2
      <4> QED  BY <2>7, <4>1
    <3> QED  BY <3>1, <3>2
  <2>8. \A i, j \in Ts : Conflicts(log'[i], log'[j]) = Conflicts(log[i], log[j])
    BY <2>2 DEF Conflicts
  <2>9. \A j \in Ts : log'[j].aborted /\ log'[j].base # InvalidTs =>
          \E i \in Ts : log'[j].base < i /\ i < j /\ Conflicts(log'[i], log'[j])
    BY <2>7, <2>8
  <2> QED  BY ONLY <2>9 DEF AbortJustified, Conflicts
<1>5. ASSUME NEW t \in Threads, Sequence(t)
      PROVE  AbortJustified'
  <2>1. SequenceFx(t)
    BY <1>5, SequenceEffect
  <2> QED  BY <2>1 DEF SequenceFx, Conflicts
<1> QED  BY <1>1, <1>2, <1>3, <1>4, <1>5, StepKinds

-----------------------------------------------------------------------------
(* The theorems *)

\* A log entry freshly allocated by sivfs_create_log_entry is well formed.
LEMMA BlankIsEntry == Blank \in Entry
<1>1. 0 \in AnyTs
  BY TsAssumption DEF AnyTs
<1>2. {} \in SUBSET Words
  OBVIOUS
<1>3. FALSE \in BOOLEAN
  OBVIOUS
<1> QED  BY <1>1, <1>2, <1>3 DEF Blank, Entry

\* The conjunction above holds initially and is kept by every step.
LEMMA Inductive == Spec => []IInv
<1>1. Init => IInv
  <2> SUFFICES ASSUME Init PROVE IInv
    OBVIOUS
  <2>1. Blank \in Entry
    BY BlankIsEntry
  <2>2. TypeOK
    BY <2>1, TsAssumption DEF Init, TypeOK, Steps, AnyTs
  <2>3. /\ commit_started_ts = 0 /\ master_ts = 0 /\ master_log_deleted_ts = 0
        /\ \A t \in Threads : pc[t] = "idle" /\ 0 <= ts[t]
        /\ \A i \in Ts : ~log[i].aborted /\ ~(i <= 0)
    <3>1. /\ commit_started_ts = 0 /\ master_ts = 0 /\ master_log_deleted_ts = 0
          /\ \A t \in Threads : pc[t] = "idle" /\ ts[t] = InvalidTs
          /\ \A i \in Ts : log[i] = Blank
      BY DEF Init
    <3>2. \A i \in Ts : ~(i <= 0)
      BY ONLY TsAssumption DEF Ts
    <3>3. ~Blank.aborted
      BY DEF Blank
    <3>4. 0 <= InvalidTs
      BY TsAssumption
    <3> QED  BY ONLY <3>1, <3>2, <3>3, <3>4
  <2>4. LockInv
    BY DEF Init, LockInv
  <2>5. TicketInv /\ ValidateInv
    BY <2>3 DEF TicketInv, ValidateInv, Validated, InFlight
  <2>6. ChainInv /\ FirstCommitterWins
    BY ONLY <2>3 DEF ChainInv, FirstCommitterWins
  <2>7. DeletedInv /\ AbortJustified
    BY ONLY <2>3 DEF DeletedInv, AbortJustified
  <2> QED  BY <2>2, <2>4, <2>5, <2>6, <2>7 DEF IInv
<1>2. IInv /\ [Next]_vars => IInv'
  BY TypeStep, LockStep, TicketStep, ChainStep, ValidateStep, DeletedStep,
     WinsStep, AbortStep
  DEF IInv
<1> QED  BY <1>1, <1>2, PTL DEF Spec

\* The fields and locals of the commit path always have their types: in
\* particular the validation cursor never leaves the log.
THEOREM TypeCorrect == Spec => []TypeOK
<1>1. IInv => TypeOK
  BY DEF IInv
<1> QED  BY <1>1, Inductive, PTL

\* Of two committed transactions that wrote a common word, the later one had the
\* earlier one in its snapshot, however many threads validate in parallel.
THEOREM FirstCommitterAlwaysWins == Spec => []FirstCommitterWins
<1>1. IInv => FirstCommitterWins
  BY DEF IInv
<1> QED  BY <1>1, Inductive, PTL

\* A transaction is aborted only because of an entry that overlaps it.
THEOREM AbortsAreJustified == Spec => []AbortJustified
<1>1. IInv => AbortJustified
  BY DEF IInv
<1> QED  BY <1>1, Inductive, PTL

\* Each timestamp above master_ts has exactly one thread that will release it.
THEOREM TicketsAlwaysOwned == Spec => []TicketsOwned
<1>1. IInv => TicketsOwned
  BY DEF IInv, TicketInv, ChainInv, TicketsOwned
<1> QED  BY <1>1, Inductive, PTL

\* The contents of a snapshot never change once master_ts has reached it.
THEOREM SnapshotsAreStable == Spec => SnapshotStable
<1>1. IInv /\ [Next]_vars =>
        [/\ master_ts <= master_ts'
         /\ \A i \in Ts : i <= master_ts => log'[i] = log[i]]_vars
  <2> SUFFICES ASSUME TypeOK, LockInv, TicketInv, [Next]_vars
               PROVE  /\ master_ts <= master_ts'
                      /\ \A i \in Ts : i <= master_ts => log'[i] = log[i]
    BY DEF IInv
  <2>1. master_ts \in Nat
    BY Nats
  <2> QED  BY <2>1, PublishedKept
<1> QED  BY <1>1, Inductive, PTL DEF Spec, SnapshotStable

-----------------------------------------------------------------------------
(* The refinement *)

\* A thread that commits is in a transaction (what PausedCommits = FALSE asks of the
\* callers), and no call gives a snapshot older than its beginning or its own commit.
CallInv ==
  \A t \in Threads :
    /\ pc[t] \in {"lock", "locked", "fill"} \/ InFlight(t) => ts[t] # InvalidTs
    /\ floor[t] <= master_ts
    /\ pc[t] = "update" => floor[t] <= next_ts[t] /\ next_ts[t] <= master_ts

\* Every step keeps that.
LEMMA CallStep ==
  ASSUME PausedCommits = FALSE, TypeOK, TicketInv, CallInv, [Next]_vars
  PROVE  CallInv'
<1>0. /\ master_ts \in Nat
      /\ \A t \in Threads : floor[t] \in Nat /\ next_ts[t] \in Nat /\ ticket[t] \in Nat
      /\ \A t \in Threads : next_ts[t] # InvalidTs
  BY TsAssumption DEF TypeOK
<1>1. ASSUME NEW t \in Threads, NEW W \in SUBSET Words, Call(t, W)
      PROVE  CallInv'
  BY <1>0, <1>1, PausedAssumption DEF TypeOK, CallInv, InFlight, Call, Goto
<1>2. ASSUME NEW t \in Threads, Lock(t)
      PROVE  CallInv'
  BY <1>0, <1>2 DEF TypeOK, CallInv, InFlight, Lock, Goto, localVars
<1>3. ASSUME NEW t \in Threads, Interrupted(t) \/ CreateFails(t)
      PROVE  CallInv'
  BY <1>0, <1>3 DEF TypeOK, CallInv, InFlight, Interrupted, CreateFails, Return, Goto
<1>4. ASSUME NEW t \in Threads, Create(t) \/ Fill(t)
      PROVE  CallInv'
  BY <1>0, <1>4 DEF TypeOK, CallInv, InFlight, Create, Fill, FillFrom, Goto
<1>5. ASSUME NEW t \in Threads, ValidateLookup(t) \/ Validate(t)
      PROVE  CallInv'
  BY <1>0, <1>5 DEF TypeOK, CallInv, InFlight, ValidateLookup, Validate, Goto, localVars
<1>6. ASSUME NEW t \in Threads, Sequence(t)
      PROVE  CallInv'
  BY <1>0, <1>6 DEF TypeOK, CallInv, InFlight, Sequence, Goto
<1>7. ASSUME NEW t \in Threads, ReadMaster(t)
      PROVE  CallInv'
  BY <1>0, <1>7 DEF TypeOK, CallInv, InFlight, ReadMaster, Goto
<1>8. ASSUME NEW t \in Threads, Update(t) \/ Pause(t)
      PROVE  CallInv'
  BY <1>0, <1>8 DEF TypeOK, CallInv, InFlight, Update, Pause, Goto
<1>9. ASSUME NEW stop \in Ts, DeleteLog(stop)
      PROVE  CallInv'
  BY <1>9 DEF CallInv, InFlight, DeleteLog, localVars
<1>10. CASE UNCHANGED vars
  BY <1>10 DEF CallInv, InFlight, vars
<1> QED  BY <1>1, <1>2, <1>3, <1>4, <1>5, <1>6, <1>7, <1>8, <1>9, <1>10
         DEF Next, Progress

\* What SnapshotIsolation calls the history, in terms of the log.
Hist == [i \in Ts |-> [ws |-> IF i <= master_ts THEN log[i].ws ELSE {},
                       aborted |-> i <= master_ts /\ log[i].aborted]]

\* Only the sequence lock changes the history.
LEMMA HistKept ==
  ASSUME TypeOK, LockInv, TicketInv, [Next]_vars, master_ts' = master_ts
  PROVE  Hist' = Hist
<1>1. \A i \in Ts : i <= master_ts => log'[i] = log[i]
  BY PublishedKept
<1> QED  BY <1>1 DEF Hist

\* Releasing a timestamp decides the attempt that it belongs to: validation has
\* made sure that a kept attempt conflicts with none after its snapshot.
LEMMA SequenceDecides ==
  ASSUME IInv, IInv', CallInv, NEW t \in Threads, Sequence(t)
  PROVE  SI!Decide(t, log[ticket[t]].ws, log[ticket[t]].aborted)
<1>1. /\ SequenceFx(t) /\ floor' = [floor EXCEPT ![t] = ticket[t]]
  BY SequenceEffect DEF IInv, Sequence
<1>2. /\ InFlight(t) /\ ticket[t] \in Ts /\ log[ticket[t]].base = ts[t] /\ ts[t] # InvalidTs
      /\ master_ts \in Nat /\ ticket[t] = master_ts + 1
      /\ master_ts' = master_ts + 1 /\ log' = log /\ ts' = ts
  <2>1. InFlight(t)
    BY <1>1 DEF SequenceFx, InFlight
  <2>2. ticket[t] \in Ts /\ log[ticket[t]].base = ts[t]
    BY <2>1, TicketsInLog DEF IInv, TicketInv
  <2>3. ts[t] # InvalidTs
    BY <2>1 DEF CallInv
  <2>4. master_ts \in Nat /\ ticket[t] \in Nat
    BY Nats DEF IInv
  <2>5. master_ts = ticket[t] - 1 /\ master_ts' = ticket[t] /\ log' = log /\ ts' = ts
    BY <1>1 DEF SequenceFx
  <2>6. ticket[t] = master_ts + 1
    <3>1. \A m, n \in Nat : m = n - 1 => n = m + 1
      OBVIOUS
    <3> QED  BY <2>4, <2>5, <3>1
  <2> QED  BY <2>1, <2>2, <2>3, <2>4, <2>5, <2>6
<1>3. master_ts < MaxTs
  BY <1>2, TsAssumption DEF Ts
<1>4. ~log[ticket[t]].aborted => ~SI!KeptConflict(ts[t], log[ticket[t]].ws)
  <2> SUFFICES ASSUME ~log[ticket[t]].aborted,
                      NEW i \in 1..master_ts, ts[t] < i, ~Hist[i].aborted,
                      Hist[i].ws \cap log[ticket[t]].ws # {}
               PROVE  FALSE
    BY DEF SI!KeptConflict, Hist
  <2>1. i \in Ts /\ i < ticket[t] /\ i <= master_ts
    BY <1>2, <1>3, TsAssumption DEF Ts
  <2>2. Hist[i].ws = log[i].ws /\ Hist[i].aborted = log[i].aborted
    <3>1. Hist[i] = [ws |-> log[i].ws, aborted |-> TRUE /\ log[i].aborted]
      BY <2>1 DEF Hist
    <3>2. log[i].aborted \in BOOLEAN
      BY <2>1 DEF IInv, TypeOK, Entry
    <3> QED  BY <3>1, <3>2
  <2>3. Conflicts(log[i], log[ticket[t]]) /\ ~log[i].aborted
    BY <2>2 DEF Conflicts
  <2>4. i <= ts[t]
    <3>1. FirstCommitterWins'
      BY DEF IInv
    <3>2. \A a, b \in Ts : a < b /\ b <= master_ts + 1 /\ ~log[a].aborted /\ ~log[b].aborted
                           /\ Conflicts(log[a], log[b]) => a <= log[b].base
      BY <1>2, <3>1 DEF FirstCommitterWins, Conflicts
    <3>3. ticket[t] <= master_ts + 1
      BY <1>2
    <3> QED  BY <1>2, <2>1, <2>3, <3>2, <3>3
  <2>5. ts[t] \in Nat /\ i \in Nat
    BY <1>2, <2>1, TsAssumption DEF IInv, TypeOK, AnyTs, Ts
  <2> QED  BY <2>4, <2>5
<1>5. Hist' = [Hist EXCEPT ![master_ts + 1] =
                 [ws |-> log[ticket[t]].ws, aborted |-> log[ticket[t]].aborted]]
  <2>1. \A i \in Ts : i \in Nat /\ log[i].aborted \in BOOLEAN
    BY TsAssumption DEF IInv, TypeOK, Entry, Ts
  <2>2. \A i \in Ts : i <= master_ts + 1 <=> i <= master_ts \/ i = master_ts + 1
    <3>1. \A m, i \in Nat : i <= m + 1 <=> i <= m \/ i = m + 1
      OBVIOUS
    <3>2. master_ts \in Nat
      BY <1>2
    <3> QED  BY <2>1, <3>1, <3>2
  <2> QED  BY <1>2, <2>1, <2>2 DEF Hist
<1> QED  BY <1>1, <1>2, <1>3, <1>4, <1>5 DEF SI!Decide, Hist

\* A step that changes none of master_ts, the snapshots and the floors changes
\* nothing that SnapshotIsolation speaks of.
LEMMA Stutters ==
  ASSUME IInv, [Next]_vars, UNCHANGED <<master_ts, ts, floor>>
  PROVE  UNCHANGED SI!siVars
<1>1. Hist' = Hist
  BY HistKept DEF IInv
<1> QED  BY <1>1 DEF SI!siVars, Hist

\* Every step of the commit path is a step of SnapshotIsolation or none.
LEMMA StepRefines ==
  ASSUME PausedCommits = FALSE, IInv, IInv', CallInv, [Next]_vars
  PROVE  [SI!SINext]_(SI!siVars)
<1>1. ASSUME NEW t \in Threads, NEW W \in SUBSET Words, Call(t, W)
      PROVE  SI!Ask(t)
  <2>1. master_ts' = master_ts /\ ts' = ts /\ floor' = [floor EXCEPT ![t] = master_ts]
    BY <1>1 DEF Call
  <2>2. Hist' = Hist
    BY <2>1, HistKept DEF IInv
  <2> QED  BY <2>1, <2>2 DEF SI!Ask, Hist
<1>2. ASSUME NEW t \in Threads, Sequence(t)
      PROVE  \E W \in SUBSET Words, drop \in BOOLEAN : SI!Decide(t, W, drop)
  <2>1. SI!Decide(t, log[ticket[t]].ws, log[ticket[t]].aborted)
    BY <1>2, SequenceDecides
  <2>2. ticket[t] \in Ts
    BY <1>2, TicketsInLog DEF IInv, Sequence, InFlight
  <2>3. log[ticket[t]].ws \in SUBSET Words /\ log[ticket[t]].aborted \in BOOLEAN
    BY <2>2 DEF IInv, TypeOK, Entry
  <2> QED  BY <2>1, <2>3 DEF SI!Decide
<1>3. ASSUME NEW t \in Threads, Update(t)
      PROVE  \E s \in 0..MaxTs : SI!Observe(t, s)
  <2>1. /\ master_ts' = master_ts /\ floor' = floor
        /\ ts' = [ts EXCEPT ![t] = next_ts[t]] /\ pc[t] = "update"
    BY <1>3 DEF Update
  <2>2. Hist' = Hist
    BY <2>1, HistKept DEF IInv
  <2>3. floor[t] <= next_ts[t] /\ next_ts[t] <= master_ts /\ next_ts[t] \in 0..MaxTs
    BY <2>1 DEF CallInv, IInv, TypeOK
  <2>4. SI!Observe(t, next_ts[t])
    BY <2>1, <2>2, <2>3 DEF SI!Observe, Hist
  <2> QED  BY <2>3, <2>4
<1>4. ASSUME NEW t \in Threads, Pause(t)
      PROVE  SI!Leave(t)
  <2>1. /\ master_ts' = master_ts /\ floor' = floor
        /\ ts' = [ts EXCEPT ![t] = InvalidTs]
    BY <1>4 DEF Pause
  <2>2. Hist' = Hist
    BY <2>1, HistKept DEF IInv
  <2> QED  BY <2>1, <2>2 DEF SI!Leave, Hist
<1>5. ASSUME NEW t \in Threads,
             Lock(t) \/ Interrupted(t) \/ CreateFails(t) \/ Create(t) \/ Fill(t)
             \/ ValidateLookup(t) \/ Validate(t) \/ ReadMaster(t)
      PROVE  UNCHANGED SI!siVars
  <2>1. UNCHANGED <<master_ts, ts, floor>>
    BY <1>5 DEF Lock, Interrupted, CreateFails, Return, Create, Fill, FillFrom,
                ValidateLookup, Validate, ReadMaster, localVars
  <2> QED  BY <2>1, Stutters
<1>6. ASSUME NEW stop \in Ts, DeleteLog(stop)
      PROVE  UNCHANGED SI!siVars
  <2>1. UNCHANGED <<master_ts, ts, floor>>
    BY <1>6 DEF DeleteLog, localVars
  <2> QED  BY <2>1, Stutters
<1>7. ASSUME UNCHANGED vars
      PROVE  UNCHANGED SI!siVars
  <2>1. UNCHANGED <<master_ts, ts, floor>>
    BY <1>7 DEF vars
  <2> QED  BY <2>1, Stutters
<1> QED  BY <1>1, <1>2, <1>3, <1>4, <1>5, <1>6, <1>7 DEF Next, Progress, SI!SINext

\* The commit path implements snapshot isolation with first-committer-wins in
\* real-time order, for any number of threads, words and timestamps, if no thread
\* commits writes while it is paused.
THEOREM CommitImplementsSnapshotIsolation ==
  ASSUME PausedCommits = FALSE
  PROVE  Spec => ImplementsSnapshotIsolation
<1>1. Init => SI!SIInit
  <2> SUFFICES ASSUME Init PROVE SI!SIInit
    OBVIOUS
  <2>1. \A i \in Ts : ~(i <= master_ts)
    BY TsAssumption DEF Ts, Init
  <2>2. Hist = [i \in 1..MaxTs |-> SI!Blank]
    BY <2>1 DEF Hist, SI!Blank, Ts
  <2> QED  BY <2>2 DEF SI!SIInit, Hist, Init
<1>2. Init => CallInv
  <2> SUFFICES ASSUME Init PROVE CallInv
    OBVIOUS
  <2>1. master_ts = 0 /\ \A t \in Threads : pc[t] = "idle" /\ floor[t] = 0
    BY DEF Init
  <2>2. 0 <= 0
    OBVIOUS
  <2> QED  BY <2>1, <2>2 DEF CallInv, InFlight
<1>3. IInv /\ CallInv /\ [Next]_vars => CallInv'
  BY CallStep DEF IInv
<1>4. IInv /\ IInv' /\ CallInv /\ [Next]_vars => [SI!SINext]_(SI!siVars)
  BY StepRefines
<1> QED  BY <1>1, <1>2, <1>3, <1>4, Inductive, PTL
         DEF Spec, ImplementsSnapshotIsolation, SI!SISpec
=============================================================================
