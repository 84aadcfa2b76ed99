--------------------------- MODULE AnonInodeProofs ---------------------------
(***************************************************************************)
(* Proofs about AnonInode: the counts on private inodes and on the states  *)
(* of the tasks are right whatever the tasks do, nothing is left of a task *)
(* that is gone, and the size of a file is changed only with its zeros.    *)
(***************************************************************************)
EXTENDS AnonInode, FiniteSetTheorems, TLAPS

\* Most leaves are logic, the others arithmetic.
USE ZenonT(5), SMTT(15)

-----------------------------------------------------------------------------
(* The inductive invariant *)

\* A task with a call under way has not exited; its call is about an inode.
CallInv(t) ==
  /\ t \notin alive => call[t].at = "idle" /\ ~notifier[t]
  /\ call[t].at # "idle" => call[t].ino \in Inos
  /\ call[t].at # "zero" => call[t].batch = 0
  /\ call[t].batch < Batches

\* The counts: on the state, on its inodes; an inode that nobody has opened goes with
\* the memory of the task, so the notifier is there to see to it.
CountInv(t) ==
  /\ nref[t] = Cardinality(Inodes(t)) + (IF notifier[t] THEN 1 ELSE 0)
                                      + (IF call[t].at = "zero" THEN 1 ELSE 0)
  /\ \A i \in Inos : IF files[t][i] = 0 THEN refcount[t][i] \in {Absent, Unreferenced}
                                        ELSE refcount[t][i] = files[t][i]
  /\ \A i \in Inos : refcount[t][i] = Unreferenced => notifier[t]

\* The i_mutex keeps truncations of a file apart; the size is as found until zeros
\* are committed.
Truncating(t) == call[t].at \in {"check", "zero"}
SizeInv ==
  /\ \A t \in Tasks : Truncating(t) =>
       /\ call[t].ino \in mutex
       /\ call[t].at = "check" => size[call[t].ino] = call[t].old
  /\ \A t, u \in Tasks : Truncating(t) /\ Truncating(u) /\ call[t].ino = call[u].ino => t = u

IInv == TypeOK /\ (\A t \in Tasks : CallInv(t) /\ CountInv(t)) /\ SizeInv

-----------------------------------------------------------------------------
(* Types *)

\* What a call can be.
Calls == [at : {"idle", "real", "use", "check", "zero"},
          op : {"none", "open", "truncate", "ftruncate"},
          ino : Inos \cup {Absent}, found : BOOLEAN, old : Sizes, new : Sizes, batch : 0..Batches]

\* What refcount can be.
Refcounts == {Absent, Unreferenced} \cup 0..MaxRefcount

\* Sets of inodes are finite.
LEMMA Finite == ASSUME NEW S \in SUBSET Inos PROVE IsFiniteSet(S) /\ Cardinality(S) \in Nat
BY AnonAssumption, FS_Subset, FS_CardinalityType

\* The call of an idle task, and one that changes, have the type of calls.
LEMMA IdleType == Idle \in Calls
BY AnonAssumption DEF Idle, Calls, Sizes

\* A call that begins has the type of calls.
LEMMA EnterType ==
  ASSUME NEW op \in {"open", "truncate", "ftruncate"}, NEW i \in Inos, NEW at \in {"real", "use"},
         NEW f \in BOOLEAN, NEW n \in Sizes
  PROVE  [Idle EXCEPT !.at = at, !.op = op, !.ino = i, !.found = f, !.new = n] \in Calls
BY IdleType DEF Calls

\* A call that goes on has the type of calls.
LEMMA ChangedType ==
  ASSUME NEW c \in Calls
  PROVE  /\ \A at \in {"use", "zero"} : [c EXCEPT !.at = at] \in Calls
         /\ \A o \in Sizes, f \in BOOLEAN : [c EXCEPT !.at = "check", !.old = o, !.found = f] \in Calls
         /\ \A b \in 0..Batches : [c EXCEPT !.batch = b] \in Calls
BY DEF Calls

\* One entry of a table of the tasks, or of the tasks and the inodes, changes.
LEMMA TableType ==
  ASSUME NEW S, NEW t \in Tasks, NEW i \in Inos, NEW v \in S
  PROVE  /\ \A f \in [Tasks -> S] : [f EXCEPT ![t] = v] \in [Tasks -> S]
         /\ \A f \in [Tasks -> [Inos -> S]] : [f EXCEPT ![t][i] = v] \in [Tasks -> [Inos -> S]]
OBVIOUS

\* Types after a reference to an inode was put.
LEMMA PutType ==
  ASSUME TypeOK, NEW t \in Tasks, NEW i \in Inos, NEW r, r \in {Unreferenced} \cup 1..MaxRefcount,
         NEW n \in Int, PutAnonInode(t, i, r, n)
  PROVE  nref' \in [Tasks -> Int] /\ refcount' \in [Tasks -> [Inos -> Refcounts]]
<1>1. (IF r \in {Unreferenced, 1} THEN Absent ELSE r - 1) \in Refcounts
  BY AnonAssumption DEF Refcounts
<1>2. n - (IF r \in {Unreferenced, 1} THEN 1 ELSE 0) \in Int
  OBVIOUS
<1> QED  BY <1>1, <1>2 DEF TypeOK, PutAnonInode, NrefBy, Refcounts

-----------------------------------------------------------------------------
(* Steps *)

\* What the step of a task, or of another that closes a file of it, can be.
TaskStep(t) ==
  \/ DReal(t) \/ AnonOpen(t) \/ AnonOpenFails(t)
  \/ Setattr(t) \/ Ftruncate(t) \/ FtruncateRefused(t) \/ FtruncateUndone(t)
  \/ ZeroBatch(t) \/ ZeroBatchFails(t)
  \/ Exit(t) \/ Fork(t) \/ Exec(t)
  \/ \E i \in Inos : \/ BeginOpen(t, i) \/ AnonRelease(t, i)
                     \/ \E n \in Sizes : BeginTruncate(t, i, n) \/ BeginFtruncate(t, i, n)

\* The step leaves the counts and the call of task u alone.
Same(u) ==
  /\ nref'[u] = nref[u] /\ notifier'[u] = notifier[u] /\ refcount'[u] = refcount[u]
  /\ files'[u] = files[u] /\ call'[u] = call[u] /\ (u \in alive' <=> u \in alive)

\* Each step is of one task.
LEMMA OthersSame ==
  ASSUME TypeOK, NEW t \in Tasks, TaskStep(t), NEW u \in Tasks, u # t PROVE Same(u)
<1>1. CASE DReal(t)
  BY <1>1 DEF TypeOK, DReal, Same, stateVars, Created, CountedWithNotifier, CreateFailed, NrefBy, Return
<1>2. CASE AnonOpen(t) \/ AnonOpenFails(t)
  BY <1>2 DEF TypeOK, AnonOpen, AnonOpenFails, Same, stateVars, Return
<1>3. CASE Setattr(t) \/ FtruncateRefused(t)
  BY <1>3 DEF TypeOK, Setattr, FtruncateRefused, SetattrReturns, Same, stateVars, Return
<1>4. CASE Ftruncate(t) \/ FtruncateUndone(t)
  BY <1>4 DEF TypeOK, Ftruncate, FtruncateUndone, CheckNontxnalOp, PutAnonInode, SetattrReturns, Same,
     Return, NrefBy
<1>5. CASE ZeroBatch(t) \/ ZeroBatchFails(t)
  BY <1>5 DEF TypeOK, ZeroBatch, ZeroBatchFails, SetattrReturns, Same, Return, NrefBy
<1>6. CASE Exit(t) \/ Exec(t)
  BY <1>6 DEF TypeOK, Exit, Exec, MmRelease, Same, NrefBy
<1>7. CASE Fork(t)
  BY <1>7 DEF TypeOK, Fork, Same, stateVars
<1>8. ASSUME NEW i \in Inos, AnonRelease(t, i) PROVE Same(u)
  BY <1>8 DEF TypeOK, AnonRelease, PutAnonInode, Same, NrefBy
<1>9. ASSUME NEW i \in Inos, NEW n,
             BeginOpen(t, i) \/ BeginTruncate(t, i, n) \/ BeginFtruncate(t, i, n)
      PROVE  Same(u)
  BY <1>9 DEF TypeOK, BeginOpen, BeginTruncate, BeginFtruncate, Enter, Same, stateVars
<1> QED  BY <1>1, <1>2, <1>3, <1>4, <1>5, <1>6, <1>7, <1>8, <1>9 DEF TaskStep

\* A call begins.
LEMMA EnterEffect ==
  ASSUME TypeOK, NEW t \in Tasks, NEW op, NEW i, NEW at, NEW n, Enter(t, op, i, at, n)
  PROVE  /\ call'[t].at = at /\ call'[t].op = op /\ call'[t].ino = i /\ call'[t].batch = 0
         /\ call'[t].found = (nref[t] > 0)
<1>1. call'[t] = [Idle EXCEPT !.at = at, !.op = op, !.ino = i, !.found = nref[t] > 0, !.new = n]
  BY DEF TypeOK, Enter
<1> QED  BY <1>1 DEF Idle

\* What is known of a task that is left alone.
LEMMA SameInv ==
  ASSUME NEW u \in Tasks, CallInv(u), CountInv(u), Same(u) PROVE CallInv(u)' /\ CountInv(u)'
<1>1. Inodes(u)' = Inodes(u)
  BY DEF Same, Inodes, HasInode
<1>2. CallInv(u)'
  BY DEF Same, CallInv
<1>3. CountInv(u)'
  BY <1>1 DEF Same, CountInv
<1> QED  BY <1>2, <1>3

\* An inode loses a reference, and goes with the last; so does its count.
LEMMA PutCounts ==
  ASSUME TypeOK, NEW t \in Tasks, NEW i \in Inos, HasInode(t, i), NEW n \in Int,
         NEW r, r \in {Unreferenced} \cup 1..MaxRefcount, PutAnonInode(t, i, r, n)
  PROVE  /\ nref'[t] = nref[t] + n + Cardinality(Inodes(t)') - Cardinality(Inodes(t))
         /\ refcount'[t] = [refcount[t] EXCEPT ![i] = IF r \in {Unreferenced, 1} THEN Absent ELSE r - 1]
<1>1. refcount'[t] = [refcount[t] EXCEPT ![i] = IF r \in {Unreferenced, 1} THEN Absent ELSE r - 1]
  BY DEF TypeOK, PutAnonInode
<1>2. nref'[t] = nref[t] + n - (IF r \in {Unreferenced, 1} THEN 1 ELSE 0) /\ nref[t] \in Int
  BY DEF TypeOK, PutAnonInode, NrefBy
<1>3. Inodes(t) \in SUBSET Inos /\ i \in Inodes(t)
  BY DEF Inodes
<1>4. IsFiniteSet(Inodes(t)) /\ Cardinality(Inodes(t)) \in Nat
  BY <1>3, Finite
<1>5. CASE r \in {Unreferenced, 1}
  <2>1. Inodes(t)' = Inodes(t) \ {i}
    BY <1>1, <1>5 DEF TypeOK, Inodes, HasInode
  <2>2. Cardinality(Inodes(t)') = Cardinality(Inodes(t)) - 1
    BY <1>3, <1>4, <2>1, FS_RemoveElement
  <2> QED  BY <1>1, <1>2, <1>4, <1>5, <2>2
<1>6. CASE r \notin {Unreferenced, 1}
  <2>1. r - 1 # Absent
    BY <1>6, AnonAssumption
  <2>2. Inodes(t)' = Inodes(t)
    BY <1>1, <1>6, <2>1 DEF TypeOK, Inodes, HasInode
  <2> QED  BY <1>1, <1>2, <1>4, <1>6, <2>2
<1> QED  BY <1>5, <1>6

-----------------------------------------------------------------------------
(* The counts of the task that takes a step *)

\* A step that only changes the call.
LEMMA CallOnlyCounts ==
  ASSUME NEW t \in Tasks, CountInv(t),
         nref'[t] = nref[t], notifier'[t] = notifier[t], refcount'[t] = refcount[t],
         files'[t] = files[t], call'[t].at = "zero" <=> call[t].at = "zero"
  PROVE  CountInv(t)'
<1>1. Inodes(t)' = Inodes(t)
  BY DEF Inodes, HasInode
<1> QED  BY <1>1 DEF CountInv

\* The counts that the two kinds of references to an inode have.
LEMMA InodeCounts ==
  ASSUME TypeOK, NEW t \in Tasks, CountInv(t), NEW i \in Inos
  PROVE  /\ files[t][i] \in Nat
         /\ refcount[t][i] \in {Absent, Unreferenced} => files[t][i] = 0
         /\ refcount[t][i] \notin {Absent, Unreferenced} =>
              files[t][i] = refcount[t][i] /\ refcount[t][i] \in 1..MaxRefcount
<1>1. files[t][i] \in Nat /\ refcount[t][i] \in {Absent, Unreferenced} \cup 0..MaxRefcount
  BY DEF TypeOK
<1> QED  BY <1>1, AnonAssumption DEF CountInv

\* sivfs_d_real keeps the counts.
LEMMA DRealCounts ==
  ASSUME TypeOK, NEW t \in Tasks, CallInv(t), CountInv(t), DReal(t) PROVE CountInv(t)'
<1> DEFINE i == call[t].ino
<1>1. call[t].at = "real" /\ i \in Inos /\ files' = files
  BY DEF DReal, CallInv
<1>2. call'[t].at # "zero"
  BY <1>1 DEF TypeOK, DReal, Return, Idle
<1>3. CASE HasInode(t, i)
  BY <1>1, <1>2, <1>3, CallOnlyCounts DEF DReal, stateVars
<1>4. CASE ~HasInode(t, i) /\ Created(t, i)
  <2>1. refcount'[t] = [refcount[t] EXCEPT ![i] = Unreferenced] /\ notifier'[t] = TRUE
    BY <1>1, <1>4 DEF TypeOK, Created, CountedWithNotifier
  <2>2. nref'[t] = nref[t] + 1 + (IF notifier[t] THEN 0 ELSE 1)
    BY <1>4 DEF TypeOK, Created, CountedWithNotifier, NrefBy
  <2>3. Inodes(t)' = Inodes(t) \cup {i} /\ i \notin Inodes(t)
    BY <1>1, <1>4, <2>1, AnonAssumption DEF TypeOK, Inodes, HasInode
  <2>4. Inodes(t) \in SUBSET Inos
    BY DEF Inodes
  <2>5. IsFiniteSet(Inodes(t)) /\ Cardinality(Inodes(t)) \in Nat
    BY <2>4, Finite
  <2>6. Cardinality(Inodes(t)') = Cardinality(Inodes(t)) + 1
    BY <2>3, <2>5, FS_AddElement
  <2>7. nref[t] = Cardinality(Inodes(t)) + (IF notifier[t] THEN 1 ELSE 0)
    BY <1>1, <2>5 DEF CountInv
  <2>8. nref'[t] = Cardinality(Inodes(t)') + (IF notifier'[t] THEN 1 ELSE 0)
                                           + (IF call'[t].at = "zero" THEN 1 ELSE 0)
    BY <1>2, <2>1, <2>2, <2>5, <2>6, <2>7
  <2>9. files[t][i] = 0
    BY <1>1, <1>4, InodeCounts DEF HasInode
  <2> QED  BY <1>1, <2>1, <2>8, <2>9 DEF TypeOK, CountInv
<1>5. CASE ~HasInode(t, i) /\ CreateFailed(t)
  <2>1. refcount'[t] = refcount[t] /\ Inodes(t)' = Inodes(t)
    BY <1>5 DEF CreateFailed, Inodes, HasInode
  <2>2. CASE UNCHANGED <<notifier, nref>>
    BY <1>1, <1>2, <2>1, <2>2, CallOnlyCounts
  <2>3. CASE CountedWithNotifier(t, 0)
    <3>1. notifier'[t] = TRUE /\ nref'[t] = nref[t] + 0 + (IF notifier[t] THEN 0 ELSE 1)
      BY <2>3 DEF TypeOK, CountedWithNotifier, NrefBy
    <3>2. Inodes(t) \in SUBSET Inos
      BY DEF Inodes
    <3>3. Cardinality(Inodes(t)) \in Nat
      BY <3>2, Finite
    <3> QED  BY <1>1, <1>2, <2>1, <3>1, <3>3 DEF CountInv
  <2> QED  BY <1>5, <2>2, <2>3 DEF CreateFailed
<1> QED  BY <1>3, <1>4, <1>5 DEF DReal

\* sivfs_anon_open keeps the counts.
LEMMA AnonOpenCounts ==
  ASSUME TypeOK, NEW t \in Tasks, CallInv(t), CountInv(t), AnonOpen(t) PROVE CountInv(t)'
<1> DEFINE i == call[t].ino
           r == refcount[t][i]
<1>1. call[t].at = "use" /\ i \in Inos /\ nref' = nref /\ notifier' = notifier
  BY DEF AnonOpen, CallInv
<1>2. call'[t].at # "zero"
  BY <1>1 DEF TypeOK, AnonOpen, Return, Idle
<1>3. CASE ~CanReference(r)
  <2>1. refcount' = refcount /\ files' = files
    BY <1>3 DEF AnonOpen
  <2> QED  BY <1>1, <1>2, <2>1, CallOnlyCounts
<1>4. CASE CanReference(r)
  <2>1. /\ refcount'[t] = [refcount[t] EXCEPT ![i] = Referenced(r)]
        /\ files'[t] = [files[t] EXCEPT ![i] = @ + 1]
    BY <1>1, <1>4 DEF TypeOK, AnonOpen
  <2>2. r # Absent /\ Referenced(r) = files[t][i] + 1 /\ files[t][i] \in Nat
    BY <1>1, <1>4, InodeCounts, AnonAssumption DEF CanReference, Referenced
  <2>3. Referenced(r) # Absent /\ Referenced(r) # Unreferenced
    BY <2>2, AnonAssumption
  <2>4. Inodes(t)' = Inodes(t)
    BY <1>1, <2>1, <2>2, <2>3 DEF TypeOK, Inodes, HasInode
  <2>5. ASSUME NEW j \in Inos
        PROVE  /\ IF files'[t][j] = 0 THEN refcount'[t][j] \in {Absent, Unreferenced}
                                      ELSE refcount'[t][j] = files'[t][j]
               /\ refcount'[t][j] = Unreferenced => notifier'[t]
    <3>1. CASE j = i
      BY <1>1, <2>1, <2>2, <2>3, <3>1 DEF TypeOK
    <3>2. CASE j # i
      BY <1>1, <2>1, <3>2 DEF TypeOK, CountInv
    <3> QED  BY <3>1, <3>2
  <2> QED  BY <1>1, <1>2, <2>4, <2>5 DEF CountInv
<1> QED  BY <1>3, <1>4

\* sivfs_anon_release keeps the counts.
LEMMA AnonReleaseCounts ==
  ASSUME TypeOK, NEW t \in Tasks, CountInv(t), NEW i \in Inos, AnonRelease(t, i)
  PROVE  CountInv(t)' /\ refcount[t][i] \in 1..MaxRefcount
<1> DEFINE r == refcount[t][i]
<1>1. files[t][i] > 0 /\ files' = [files EXCEPT ![t][i] = @ - 1] /\ notifier' = notifier /\ call' = call
  BY DEF AnonRelease
<1>2. r = files[t][i] /\ r \in 1..MaxRefcount /\ r # Absent
  BY <1>1, InodeCounts, AnonAssumption
<1>3. PutAnonInode(t, i, r, 0)
  BY <1>2 DEF AnonRelease
<1>4. /\ nref'[t] = nref[t] + 0 + Cardinality(Inodes(t)') - Cardinality(Inodes(t))
      /\ refcount'[t] = [refcount[t] EXCEPT ![i] = IF r \in {Unreferenced, 1} THEN Absent ELSE r - 1]
  <2>1. HasInode(t, i) /\ 0 \in Int
    BY <1>2 DEF HasInode
  <2> QED  BY <1>2, <1>3, <2>1, PutCounts
<1>5. Inodes(t) \in SUBSET Inos /\ Inodes(t)' \in SUBSET Inos
  BY DEF Inodes
<1>6. Cardinality(Inodes(t)) \in Nat /\ Cardinality(Inodes(t)') \in Nat
  BY <1>5, Finite
<1>7. ASSUME NEW j \in Inos
      PROVE  /\ IF files'[t][j] = 0 THEN refcount'[t][j] \in {Absent, Unreferenced}
                                    ELSE refcount'[t][j] = files'[t][j]
             /\ refcount'[t][j] = Unreferenced => notifier'[t]
  <2>1. CASE j = i
    <3>1. files'[t][j] = r - 1
      BY <1>1, <1>2, <2>1 DEF TypeOK
    <3>2. refcount'[t][j] = IF r = 1 THEN Absent ELSE r - 1
      BY <1>2, <1>4, <2>1, AnonAssumption DEF TypeOK
    <3> QED  BY <1>2, <3>1, <3>2, AnonAssumption
  <2>2. CASE j # i
    BY <1>1, <1>4, <2>2 DEF TypeOK, CountInv
  <2> QED  BY <2>1, <2>2
<1>8. nref'[t] = Cardinality(Inodes(t)') + (IF notifier[t] THEN 1 ELSE 0)
                                         + (IF call[t].at = "zero" THEN 1 ELSE 0)
  BY <1>4, <1>6 DEF CountInv
<1> QED  BY <1>1, <1>2, <1>7, <1>8 DEF CountInv

\* sivfs_check_nontxnal_op leaves an inode as it was, or frees it if nobody has opened it.
LEMMA CheckNontxnalOpCounts ==
  ASSUME TypeOK, NEW t \in Tasks, CallInv(t), CountInv(t), call[t].at = "check",
         CanReference(refcount[t][call[t].ino]), NEW n \in {0, 1}, CheckNontxnalOp(t, n),
         notifier' = notifier, files' = files,
         call'[t].at = "zero" <=> n = 1
  PROVE  /\ CountInv(t)' /\ Inodes(t) # {}
         /\ Referenced(refcount[t][call[t].ino]) \in 1..MaxRefcount
<1> DEFINE i == call[t].ino
           r == refcount[t][i]
<1>1. i \in Inos /\ n \in Int
  BY DEF CallInv
<1>2. Referenced(r) \in 1..MaxRefcount /\ r # Absent /\ (r # Unreferenced => Referenced(r) = r + 1 /\ r \in Nat \ {0})
      /\ (r = Unreferenced => Referenced(r) = 1)
  BY <1>1, InodeCounts, AnonAssumption DEF CanReference, Referenced
<1>3. /\ nref'[t] = nref[t] + n + Cardinality(Inodes(t)') - Cardinality(Inodes(t))
      /\ refcount'[t] = [refcount[t] EXCEPT ![i] = IF Referenced(r) \in {Unreferenced, 1} THEN Absent
                                                   ELSE Referenced(r) - 1]
  <2>1. HasInode(t, i) /\ PutAnonInode(t, i, Referenced(r), n)
    BY <1>2 DEF HasInode, CheckNontxnalOp
  <2> QED  BY <1>1, <1>2, <2>1, PutCounts
<1>4. refcount'[t] = [refcount[t] EXCEPT ![i] = IF r = Unreferenced THEN Absent ELSE r]
  BY <1>2, <1>3, AnonAssumption
<1>5. Inodes(t) \in SUBSET Inos /\ Inodes(t)' \in SUBSET Inos /\ i \in Inodes(t)
  BY <1>1, <1>2 DEF Inodes, HasInode
<1>6. Cardinality(Inodes(t)) \in Nat /\ Cardinality(Inodes(t)') \in Nat
  BY <1>5, Finite
<1>7. ASSUME NEW j \in Inos
      PROVE  /\ IF files'[t][j] = 0 THEN refcount'[t][j] \in {Absent, Unreferenced}
                                    ELSE refcount'[t][j] = files'[t][j]
             /\ refcount'[t][j] = Unreferenced => notifier'[t]
  <2>1. refcount'[t][j] = refcount[t][j] \/ (refcount[t][j] = Unreferenced /\ refcount'[t][j] = Absent)
    BY <1>1, <1>4 DEF TypeOK
  <2> QED  BY <2>1, InodeCounts, AnonAssumption DEF CountInv
<1>8. nref'[t] = Cardinality(Inodes(t)') + (IF notifier[t] THEN 1 ELSE 0)
                                         + (IF call'[t].at = "zero" THEN 1 ELSE 0)
  BY <1>3, <1>6 DEF CountInv
<1> QED  BY <1>2, <1>5, <1>7, <1>8 DEF CountInv

\* The end of a truncation gives its count back.
LEMMA ZeroCounts ==
  ASSUME TypeOK, NEW t \in Tasks, CountInv(t), call[t].at = "zero", NrefBy(t, -1), call'[t].at # "zero",
         notifier' = notifier, refcount' = refcount, files' = files
  PROVE  CountInv(t)'
<1>1. nref'[t] = nref[t] - 1
  BY DEF TypeOK, NrefBy
<1>2. Inodes(t)' = Inodes(t) /\ Inodes(t) \in SUBSET Inos
  BY DEF Inodes, HasInode
<1>3. Cardinality(Inodes(t)) \in Nat
  BY <1>2, Finite
<1> QED  BY <1>1, <1>2, <1>3 DEF CountInv

\* sivfs_mm_release leaves the inodes that are open.
LEMMA MmReleaseCounts ==
  ASSUME TypeOK, NEW t \in Tasks, CountInv(t), call[t].at = "idle", MmRelease(t), files' = files,
         call' = call
  PROVE  CountInv(t)' /\ ~notifier'[t] /\ \A i \in Inos : refcount'[t][i] # Unreferenced
<1> DEFINE unopened == {i \in Inos : notifier[t] /\ refcount[t][i] = Unreferenced}
<1>1. /\ refcount'[t] = [i \in Inos |-> IF i \in unopened THEN Absent ELSE refcount[t][i]]
      /\ notifier'[t] = FALSE
  BY DEF TypeOK, MmRelease
<1>2. unopened \in SUBSET Inos /\ Inodes(t) \in SUBSET Inos
  BY DEF Inodes
<1>3. Cardinality(unopened) \in Nat /\ IsFiniteSet(Inodes(t)) /\ Cardinality(Inodes(t)) \in Nat
  BY <1>2, Finite
<1>4. nref'[t] = nref[t] - (Cardinality(unopened) + IF notifier[t] THEN 1 ELSE 0)
  BY <1>3 DEF TypeOK, MmRelease, NrefBy
<1>5. Inodes(t)' = Inodes(t) \ unopened /\ Inodes(t) \cap unopened = unopened
  BY <1>1, AnonAssumption DEF Inodes, HasInode
<1>6. Cardinality(Inodes(t)') = Cardinality(Inodes(t)) - Cardinality(unopened)
  BY <1>3, <1>5, FS_Difference
<1>7. nref'[t] = Cardinality(Inodes(t)')
  BY <1>3, <1>4, <1>6 DEF CountInv
<1>8. Inodes(t)' \in SUBSET Inos
  BY <1>2, <1>5
<1>9. Cardinality(Inodes(t)') \in Nat
  BY <1>8, Finite
<1>10. ASSUME NEW i \in Inos
       PROVE  /\ refcount'[t][i] # Unreferenced
              /\ IF files'[t][i] = 0 THEN refcount'[t][i] \in {Absent, Unreferenced}
                                     ELSE refcount'[t][i] = files'[t][i]
  BY <1>1, InodeCounts, AnonAssumption DEF CountInv
<1> QED  BY <1>1, <1>7, <1>9, <1>10 DEF CountInv

\* The counts after any step of the task.
LEMMA OwnCounts ==
  ASSUME TypeOK, NEW t \in Tasks, CallInv(t), CountInv(t), TaskStep(t) PROVE CountInv(t)'
<1>1. CASE DReal(t)
  BY <1>1, DRealCounts
<1>2. CASE AnonOpen(t)
  BY <1>2, AnonOpenCounts
<1>3. CASE AnonOpenFails(t)
  <2>1. call[t].at = "use" /\ call'[t].at # "zero" /\ UNCHANGED <<stateVars, files>>
    BY <1>3 DEF TypeOK, AnonOpenFails, Return, Idle
  <2> QED  BY <2>1, CallOnlyCounts DEF stateVars
<1>4. CASE Setattr(t) \/ FtruncateRefused(t)
  <2>1. call[t].at # "zero" /\ call'[t].at # "zero" /\ UNCHANGED <<stateVars, files>>
    BY <1>4 DEF TypeOK, Setattr, FtruncateRefused, SetattrReturns, Return, Idle
  <2> QED  BY <2>1, CallOnlyCounts DEF stateVars
<1>5. CASE FtruncateUndone(t)
  <2>1. /\ call[t].at = "check" /\ CanReference(refcount[t][call[t].ino]) /\ CheckNontxnalOp(t, 0)
        /\ notifier' = notifier /\ files' = files /\ call'[t].at # "zero"
    BY <1>5 DEF TypeOK, FtruncateUndone, SetattrReturns, Return, Idle
  <2> QED  BY <2>1, CheckNontxnalOpCounts
<1>6. CASE Ftruncate(t)
  <2>1. /\ call[t].at = "check" /\ CanReference(refcount[t][call[t].ino]) /\ CheckNontxnalOp(t, 1)
        /\ notifier' = notifier /\ files' = files /\ call'[t].at = "zero"
    BY <1>6 DEF TypeOK, Ftruncate
  <2> QED  BY <2>1, CheckNontxnalOpCounts
<1>7. CASE ZeroBatch(t) \/ ZeroBatchFails(t)
  <2>1. call[t].at = "zero" /\ notifier' = notifier /\ refcount' = refcount /\ files' = files
    BY <1>7 DEF ZeroBatch, ZeroBatchFails
  <2>2. \/ call'[t].at = "zero" /\ nref' = nref
        \/ call'[t].at # "zero" /\ NrefBy(t, -1)
    BY <1>7, <2>1 DEF TypeOK, ZeroBatch, ZeroBatchFails, SetattrReturns, Return, Idle
  <2> QED  BY <2>1, <2>2, CallOnlyCounts, ZeroCounts
<1>8. CASE Exit(t) \/ Exec(t)
  <2>1. call[t].at = "idle" /\ MmRelease(t) /\ files' = files /\ call' = call
    BY <1>8 DEF Exit, Exec, Idle
  <2> QED  BY <2>1, MmReleaseCounts
<1>9. CASE Fork(t)
  BY <1>9, CallOnlyCounts DEF Fork, stateVars
<1>10. ASSUME NEW i \in Inos, AnonRelease(t, i) PROVE CountInv(t)'
  BY <1>10, AnonReleaseCounts
<1>11. ASSUME NEW i \in Inos, NEW n,
              BeginOpen(t, i) \/ BeginTruncate(t, i, n) \/ BeginFtruncate(t, i, n)
       PROVE  CountInv(t)'
  <2>1. call[t].at # "zero" /\ UNCHANGED <<stateVars, files>>
    BY <1>11 DEF BeginOpen, BeginTruncate, BeginFtruncate, Idle
  <2>2. call'[t].at # "zero"
    BY <1>11, EnterEffect DEF BeginOpen, BeginTruncate, BeginFtruncate
  <2> QED  BY <2>1, <2>2, CallOnlyCounts DEF stateVars
<1> QED  BY <1>1, <1>2, <1>3, <1>4, <1>5, <1>6, <1>7, <1>8, <1>9, <1>10, <1>11 DEF TaskStep

-----------------------------------------------------------------------------
(* The calls, the sizes and the types *)

\* What is known of the call after any step of its task.
LEMMA OwnCall ==
  ASSUME TypeOK, NEW t \in Tasks, CallInv(t), CountInv(t), TaskStep(t) PROVE CallInv(t)'
<1>1. Batches > 0 /\ Batches \in Nat /\ call[t].batch \in 0..Batches
  BY AnonAssumption DEF TypeOK
<1>2. CASE call'[t] = Idle /\ call[t].at # "idle" /\ alive' = alive
  BY <1>1, <1>2 DEF CallInv, Idle
<1>3. CASE DReal(t)
  <2>1. call[t].at = "real" /\ alive' = alive /\ (call'[t] = Idle \/ call'[t] = [call[t] EXCEPT !.at = "use"])
    BY <1>3 DEF TypeOK, DReal, Return
  <2> QED  BY <1>1, <1>2, <2>1 DEF TypeOK, CallInv
<1>4. CASE AnonOpen(t) \/ AnonOpenFails(t) \/ FtruncateRefused(t) \/ FtruncateUndone(t) \/ ZeroBatchFails(t)
  BY <1>2, <1>4 DEF TypeOK, AnonOpen, AnonOpenFails, FtruncateRefused, FtruncateUndone, ZeroBatchFails,
     SetattrReturns, Return
<1>5. CASE Setattr(t)
  <2>1. /\ call[t].at = "use" /\ alive' = alive
        /\ \/ call'[t] = Idle
           \/ call'[t] = [call[t] EXCEPT !.at = "check", !.old = size[call[t].ino], !.found = nref[t] > 0]
    BY <1>5 DEF TypeOK, Setattr, Return
  <2> QED  BY <1>1, <1>2, <2>1 DEF TypeOK, CallInv
<1>6. CASE Ftruncate(t)
  <2>1. call[t].at = "check" /\ alive' = alive /\ call'[t] = [call[t] EXCEPT !.at = "zero"]
    BY <1>6 DEF TypeOK, Ftruncate
  <2> QED  BY <1>1, <2>1 DEF TypeOK, CallInv
<1>7. CASE ZeroBatch(t)
  <2>1. /\ call[t].at = "zero" /\ alive' = alive
        /\ \/ call'[t] = Idle
           \/ call'[t] = [call[t] EXCEPT !.batch = @ + 1] /\ call[t].batch + 1 < Batches
    BY <1>7 DEF TypeOK, ZeroBatch, SetattrReturns, Return
  <2> QED  BY <1>1, <1>2, <2>1 DEF TypeOK, CallInv
<1>8. CASE Exit(t) \/ Exec(t)
  <2>1. call[t].at = "idle" /\ MmRelease(t) /\ files' = files /\ call' = call
    BY <1>8 DEF Exit, Exec, Idle
  <2>2. ~notifier'[t]
    BY <2>1, MmReleaseCounts
  <2> QED  BY <2>1, <2>2 DEF CallInv
<1>9. CASE Fork(t)
  BY <1>9 DEF Fork, CallInv, stateVars
<1>10. ASSUME NEW i \in Inos, AnonRelease(t, i) PROVE CallInv(t)'
  BY <1>10 DEF AnonRelease, CallInv
<1>11. ASSUME NEW i \in Inos, NEW n,
              BeginOpen(t, i) \/ BeginTruncate(t, i, n) \/ BeginFtruncate(t, i, n)
       PROVE  CallInv(t)'
  <2>1. t \in alive /\ alive' = alive
    BY <1>11 DEF BeginOpen, BeginTruncate, BeginFtruncate
  <2>2. call'[t].ino = i /\ call'[t].batch = 0 /\ call'[t].at # "zero"
    BY <1>11, EnterEffect DEF BeginOpen, BeginTruncate, BeginFtruncate
  <2> QED  BY <1>1, <2>1, <2>2 DEF CallInv
<1> QED  BY <1>3, <1>4, <1>5, <1>6, <1>7, <1>8, <1>9, <1>10, <1>11 DEF TaskStep

\* A step of t leaves the mutexes and the sizes that other truncations rely on.
SizeStep(t) ==
  LET i == call[t].ino
  IN  \/ mutex' = mutex /\ size' = size /\ (call'[t] = call[t] \/ ~Truncating(t)')
      \/ /\ i \notin mutex /\ mutex' = mutex \cup {i} /\ size' = size
         /\ call'[t].at = "check" /\ call'[t].ino = i /\ call'[t].old = size[i]
      \/ /\ Truncating(t) /\ call'[t].at = "zero" /\ call'[t].ino = i /\ mutex' = mutex
         /\ \A j \in Inos \ {i} : size'[j] = size[j]
      \/ /\ Truncating(t) /\ ~Truncating(t)' /\ mutex' = mutex \ {i}
         /\ \A j \in Inos \ {i} : size'[j] = size[j]
         /\ call[t].at = "check" => size'[i] = size[i]
         /\ call[t].at = "zero" => size'[i] = call[t].old \/ call[t].batch + 1 >= Batches

\* Each step of a task is one of these.
LEMMA StepsSizes ==
  ASSUME TypeOK, NEW t \in Tasks, CallInv(t), TaskStep(t) PROVE SizeStep(t)
<1>1. CASE DReal(t)
  BY <1>1 DEF TypeOK, DReal, Return, Idle, SizeStep, Truncating
<1>2. CASE AnonOpen(t) \/ AnonOpenFails(t)
  BY <1>2 DEF TypeOK, AnonOpen, AnonOpenFails, Return, Idle, SizeStep, Truncating
<1>3. CASE Setattr(t)
  BY <1>3 DEF TypeOK, Setattr, Return, Idle, SizeStep, Truncating
<1>4. CASE FtruncateRefused(t) \/ FtruncateUndone(t)
  <2>1. call[t].at = "check" /\ call'[t] = Idle /\ mutex' = mutex \ {call[t].ino} /\ size' = size
    BY <1>4 DEF TypeOK, FtruncateRefused, FtruncateUndone, SetattrReturns, Return
  <2>2. Truncating(t) /\ ~Truncating(t)'
    BY <2>1 DEF Truncating, Idle
  <2> QED  BY <2>1, <2>2 DEF SizeStep
<1>5. CASE Ftruncate(t)
  BY <1>5 DEF TypeOK, CallInv, Ftruncate, SizeStep, Truncating
<1>6. CASE ZeroBatch(t)
  <2>1. CASE call[t].batch + 1 < Batches
    BY <1>6, <2>1 DEF TypeOK, CallInv, ZeroBatch, SizeStep, Truncating
  <2>2. CASE ~(call[t].batch + 1 < Batches)
    <3>1. call[t].at = "zero" /\ call'[t] = Idle /\ mutex' = mutex \ {call[t].ino} /\ size' = size
      BY <1>6, <2>2 DEF TypeOK, ZeroBatch, SetattrReturns, Return
    <3>2. Truncating(t) /\ ~Truncating(t)'
      BY <3>1 DEF Truncating, Idle
    <3>3. call[t].batch + 1 >= Batches
      BY <2>2, AnonAssumption DEF TypeOK
    <3> QED  BY <3>1, <3>2, <3>3 DEF SizeStep
  <2> QED  BY <2>1, <2>2
<1>7. CASE ZeroBatchFails(t)
  <2>1. /\ call[t].at = "zero" /\ call'[t] = Idle /\ mutex' = mutex \ {call[t].ino}
        /\ size' = [size EXCEPT ![call[t].ino] = call[t].old] /\ call[t].ino \in Inos
    BY <1>7 DEF TypeOK, CallInv, ZeroBatchFails, SetattrReturns, Return
  <2>2. Truncating(t) /\ ~Truncating(t)'
    BY <2>1 DEF Truncating, Idle
  <2> QED  BY <2>1, <2>2 DEF SizeStep, TypeOK
<1>8. CASE Exit(t) \/ Exec(t) \/ Fork(t)
  BY <1>8 DEF Exit, Exec, Fork, SizeStep
<1>9. ASSUME NEW i \in Inos, AnonRelease(t, i) PROVE SizeStep(t)
  BY <1>9 DEF AnonRelease, SizeStep
<1>10. ASSUME NEW i \in Inos, NEW n,
              BeginOpen(t, i) \/ BeginTruncate(t, i, n) \/ BeginFtruncate(t, i, n)
       PROVE  SizeStep(t)
  <2>1. call'[t].at \in {"real", "use"} /\ mutex' = mutex /\ size' = size
    BY <1>10, EnterEffect DEF BeginOpen, BeginTruncate, BeginFtruncate
  <2> QED  BY <2>1 DEF SizeStep, Truncating
<1> QED  BY <1>1, <1>2, <1>3, <1>4, <1>5, <1>6, <1>7, <1>8, <1>9, <1>10 DEF TaskStep

\* The truncations stay apart.
LEMMA SizeInvStep == ASSUME IInv, NEW t \in Tasks, TaskStep(t) PROVE SizeInv'
<1>1. TypeOK /\ CallInv(t) /\ SizeInv
  BY DEF IInv
<1>2. SizeStep(t)
  BY <1>1, StepsSizes
<1>3. ASSUME NEW u \in Tasks, u # t PROVE call'[u] = call[u] /\ (Truncating(u)' <=> Truncating(u))
  <2>1. call'[u] = call[u]
    BY <1>1, <1>3, OthersSame DEF Same
  <2> QED  BY <2>1 DEF Truncating
<1>4. ASSUME NEW u \in Tasks, Truncating(u)
      PROVE  call[u].ino \in Inos /\ call[u].ino \in mutex
             /\ (call[u].at = "check" => size[call[u].ino] = call[u].old)
             /\ (u # t /\ Truncating(t) => call[u].ino # call[t].ino)
  BY <1>1, <1>4 DEF IInv, CallInv, SizeInv, Truncating
<1>5. ASSUME NEW u \in Tasks, Truncating(u)', u # t
      PROVE  call'[u].ino \in mutex' /\ (call'[u].at = "check" => size'[call'[u].ino] = call'[u].old)
             /\ (Truncating(t)' => call'[u].ino # call'[t].ino)
  <2>1. call'[u] = call[u] /\ Truncating(u)
    BY <1>3, <1>5
  <2>2. CASE mutex' = mutex /\ size' = size /\ (call'[t] = call[t] \/ ~Truncating(t)')
    <3>1. Truncating(t)' => Truncating(t) /\ call'[t] = call[t]
      BY <2>2 DEF Truncating
    <3> QED  BY <1>4, <1>5, <2>1, <2>2, <3>1
  <2> QED  BY <1>2, <1>4, <1>5, <2>1, <2>2 DEF SizeStep
<1>6. Truncating(t)' =>
        call'[t].ino \in mutex' /\ (call'[t].at = "check" => size'[call'[t].ino] = call'[t].old)
  <2>1. CASE mutex' = mutex /\ size' = size /\ call'[t] = call[t]
    BY <1>4, <2>1 DEF Truncating
  <2> QED  BY <1>2, <1>4, <2>1 DEF SizeStep
<1>7. ASSUME NEW u \in Tasks, NEW v \in Tasks, Truncating(u)', Truncating(v)', call'[u].ino = call'[v].ino
      PROVE  u = v
  <2>1. CASE u # t /\ v # t
    <3>1. call'[u] = call[u] /\ call'[v] = call[v] /\ Truncating(u) /\ Truncating(v)
      BY <1>3, <1>7, <2>1
    <3> QED  BY <1>1, <1>7, <3>1 DEF SizeInv
  <2> QED  BY <1>5, <1>7, <2>1
<1> QED  BY <1>5, <1>6, <1>7 DEF SizeInv

\* The inodes' counts, the calls and the other variables keep their types.
LEMMA StepType ==
  ASSUME IInv, NEW t \in Tasks, TaskStep(t), \A u \in Tasks : nref'[u] \in Nat PROVE TypeOK'
<1> USE DEF Calls, Refcounts
<1>1. /\ nref \in [Tasks -> Nat] /\ notifier \in [Tasks -> BOOLEAN] /\ refcount \in [Tasks -> [Inos -> Refcounts]]
      /\ files \in [Tasks -> [Inos -> Nat]] /\ alive \subseteq Tasks /\ call \in [Tasks -> Calls]
      /\ mutex \subseteq Inos /\ size \in [Inos -> Sizes] /\ failures \in 0..MaxFailures
      /\ mishap \subseteq {"stray", "garbage"}
  BY DEF IInv, TypeOK
<1>2. TypeOK /\ CallInv(t) /\ CountInv(t) /\ (call[t].at # "idle" => call[t].ino \in Inos)
  BY DEF IInv, CallInv
<1> HIDE DEF Calls, Refcounts
<1>3. ASSUME NEW n \in Int, NrefBy(t, n) PROVE nref' \in [Tasks -> Nat]
  BY <1>1, <1>3 DEF NrefBy
<1>4. Fails => failures' \in 0..MaxFailures
  BY <1>1, AnonAssumption DEF Fails
<1>5. Return(t) => call' \in [Tasks -> Calls]
  BY <1>1, IdleType DEF Return
<1>6. CASE DReal(t)
  <2>1. call' \in [Tasks -> Calls]
    <3>1. [call[t] EXCEPT !.at = "use"] \in Calls
      BY <1>1, ChangedType
    <3>2. \/ Return(t)
          \/ call' = [call EXCEPT ![t] = [call[t] EXCEPT !.at = "use"]]
      BY <1>6 DEF DReal
    <3> QED  BY <1>1, <1>5, <3>1, <3>2
  <2>2. notifier' \in [Tasks -> BOOLEAN] /\ nref' \in [Tasks -> Nat] /\ refcount' \in [Tasks -> [Inos -> Refcounts]]
    <3>1. \A n \in {0, 1} : CountedWithNotifier(t, n) => notifier' \in [Tasks -> BOOLEAN] /\ nref' \in [Tasks -> Nat]
      BY <1>1, <1>3 DEF CountedWithNotifier
    <3>2. Created(t, call[t].ino) => refcount' \in [Tasks -> [Inos -> Refcounts]]
      <4>1. call[t].ino \in Inos /\ Unreferenced \in Refcounts
        BY <1>2, <1>6 DEF DReal, Refcounts
      <4> QED  BY <1>1, <4>1, TableType DEF Created
    <3> QED  BY <1>1, <1>6, <3>1, <3>2 DEF DReal, stateVars, Created, CreateFailed
  <2> QED  BY <1>1, <1>4, <1>6, <2>1, <2>2 DEF DReal, TypeOK, Calls, Refcounts
<1>7. CASE AnonOpen(t)
  <2>1. refcount' \in [Tasks -> [Inos -> Refcounts]]
    <3>1. CanReference(refcount[t][call[t].ino]) => Referenced(refcount[t][call[t].ino]) \in Refcounts
      BY AnonAssumption DEF CanReference, Referenced, Refcounts
    <3>2. call[t].ino \in Inos
      BY <1>2, <1>7 DEF AnonOpen
    <3>3. CASE ~CanReference(refcount[t][call[t].ino])
      BY <1>1, <1>7, <3>3 DEF AnonOpen
    <3>4. CASE CanReference(refcount[t][call[t].ino])
      <4>1. refcount' = [refcount EXCEPT ![t][call[t].ino] = Referenced(refcount[t][call[t].ino])]
        BY <1>7, <3>4 DEF AnonOpen
      <4> QED  BY <1>1, <3>1, <3>2, <3>4, <4>1, TableType
    <3> QED  BY <3>3, <3>4
  <2>2. files' \in [Tasks -> [Inos -> Nat]]
    <3>1. call[t].ino \in Inos
      BY <1>2, <1>7 DEF AnonOpen
    <3>2. files[t][call[t].ino] + 1 \in Nat
      BY <1>1, <3>1
    <3>3. files' = files \/ files' = [files EXCEPT ![t][call[t].ino] = files[t][call[t].ino] + 1]
      BY <1>7 DEF AnonOpen
    <3>4. [files EXCEPT ![t][call[t].ino] = files[t][call[t].ino] + 1] \in [Tasks -> [Inos -> Nat]]
      BY <1>1, <3>1, <3>2, TableType
    <3> QED  BY <1>1, <3>3, <3>4
  <2>3. mishap' \subseteq {"stray", "garbage"}
    BY <1>1, <1>7 DEF AnonOpen
  <2> QED  BY <1>1, <1>5, <1>7, <2>1, <2>2, <2>3 DEF AnonOpen, TypeOK, Calls, Refcounts
<1>8. CASE AnonOpenFails(t)
  BY <1>1, <1>4, <1>5, <1>8 DEF AnonOpenFails, TypeOK, Calls, Refcounts, stateVars
<1>9. CASE Setattr(t)
  <2>1. call' \in [Tasks -> Calls] /\ mutex' \subseteq Inos
    <3>1. size[call[t].ino] \in Sizes /\ (nref[t] > 0) \in BOOLEAN /\ call[t].ino \in Inos
      BY <1>1, <1>2, <1>9 DEF Setattr
    <3>2. [call[t] EXCEPT !.at = "check", !.old = size[call[t].ino], !.found = nref[t] > 0] \in Calls
      BY <1>1, <3>1, ChangedType
    <3>3. \/ Return(t)
          \/ call' = [call EXCEPT ![t] = [call[t] EXCEPT !.at = "check", !.old = size[call[t].ino],
                                                         !.found = nref[t] > 0]]
      BY <1>9 DEF Setattr
    <3>4. mutex' \subseteq Inos
      BY <1>1, <1>9, <3>1 DEF Setattr
    <3> QED  BY <1>1, <1>5, <3>2, <3>3, <3>4
  <2> QED  BY <1>1, <1>9, <2>1 DEF Setattr, TypeOK, Calls, Refcounts, stateVars
<1>10. CASE FtruncateRefused(t)
  BY <1>1, <1>5, <1>10 DEF FtruncateRefused, SetattrReturns, TypeOK, Calls, Refcounts, stateVars
<1>11. CASE FtruncateUndone(t) \/ Ftruncate(t)
  <2>1. PICK n \in {0, 1} : CheckNontxnalOp(t, n) /\ (call'[t].at = "zero" <=> n = 1)
    BY <1>11 DEF TypeOK, IInv, FtruncateUndone, Ftruncate, SetattrReturns, Return, Idle
  <2>2. call[t].at = "check" /\ CanReference(refcount[t][call[t].ino]) /\ notifier' = notifier /\ files' = files
    BY <1>11 DEF FtruncateUndone, Ftruncate
  <2>3. Referenced(refcount[t][call[t].ino]) \in 1..MaxRefcount
    BY <1>2, <2>1, <2>2, CheckNontxnalOpCounts
  <2>4. refcount' \in [Tasks -> [Inos -> Refcounts]] /\ nref' \in [Tasks -> Int]
    BY <1>2, <2>1, <2>2, <2>3, PutType DEF CheckNontxnalOp
  <2>5. nref' \in [Tasks -> Nat]
    BY <2>4
  <2>6. call' \in [Tasks -> Calls] /\ size' \in [Inos -> Sizes]
    <3>1. call[t] \in Calls
      BY <1>1
    <3>2. [call[t] EXCEPT !.at = "zero"] \in Calls
      BY <3>1, ChangedType
    <3>3. call[t].new \in Sizes
      BY <3>1 DEF Calls
    <3>4. \/ Return(t) /\ size' = size
          \/ /\ call' = [call EXCEPT ![t] = [call[t] EXCEPT !.at = "zero"]]
             /\ size' = [size EXCEPT ![call[t].ino] = call[t].new]
      BY <1>11 DEF FtruncateUndone, Ftruncate, SetattrReturns
    <3> QED  BY <1>1, <1>5, <3>2, <3>3, <3>4
  <2> QED  BY <1>1, <1>4, <1>11, <2>4, <2>5, <2>6 DEF FtruncateUndone, Ftruncate, SetattrReturns, TypeOK, Calls, Refcounts
<1>12. CASE ZeroBatch(t)
  <2>1. call' \in [Tasks -> Calls]
    <3>1. call[t].batch + 1 < Batches => call[t].batch + 1 \in 0..Batches
      BY <1>1, AnonAssumption DEF Calls
    <3>2. \/ Return(t)
          \/ /\ call[t].batch + 1 < Batches
             /\ call' = [call EXCEPT ![t] = [call[t] EXCEPT !.batch = call[t].batch + 1]]
      BY <1>12 DEF ZeroBatch, SetattrReturns
    <3>3. call[t].batch + 1 < Batches => [call[t] EXCEPT !.batch = call[t].batch + 1] \in Calls
      BY <1>1, <3>1, ChangedType
    <3> QED  BY <1>1, <1>5, <3>2, <3>3
  <2> QED  BY <1>1, <1>3, <1>12, <2>1 DEF ZeroBatch, SetattrReturns, TypeOK, Calls, Refcounts
<1>13. CASE ZeroBatchFails(t)
  <2>1. size' \in [Inos -> Sizes]
    BY <1>1, <1>13 DEF ZeroBatchFails, Calls
  <2> QED  BY <1>1, <1>3, <1>4, <1>5, <1>13, <2>1 DEF ZeroBatchFails, SetattrReturns, TypeOK, Calls, Refcounts
<1>14. CASE Exit(t) \/ Exec(t)
  <2>1. MmRelease(t)
    BY <1>14 DEF Exit, Exec
  <2>2. notifier' \in [Tasks -> BOOLEAN] /\ refcount' \in [Tasks -> [Inos -> Refcounts]]
    BY <1>1, <2>1 DEF MmRelease, Refcounts
  <2>3. nref' \in [Tasks -> Nat]
    <3> DEFINE unopened == {i \in Inos : notifier[t] /\ refcount[t][i] = Unreferenced}
    <3>1. -(Cardinality(unopened) + IF notifier[t] THEN 1 ELSE 0) \in Int
      <4>1. unopened \in SUBSET Inos
        OBVIOUS
      <4>2. Cardinality(unopened) \in Nat
        BY <4>1, Finite
      <4> QED  BY <4>2
    <3> QED  BY <1>3, <2>1, <3>1 DEF MmRelease
  <2> QED  BY <1>1, <1>14, <2>2, <2>3 DEF Exit, Exec, TypeOK, Calls, Refcounts
<1>15. CASE Fork(t)
  BY <1>1, <1>15 DEF Fork, TypeOK, Calls, Refcounts, stateVars
<1>16. ASSUME NEW i \in Inos, AnonRelease(t, i) PROVE TypeOK'
  <2>1. files' \in [Tasks -> [Inos -> Nat]]
    BY <1>1, <1>16 DEF AnonRelease
  <2>2. refcount[t][i] \in 1..MaxRefcount /\ refcount[t][i] # Absent
    BY <1>2, <1>16, AnonReleaseCounts, AnonAssumption
  <2>3. PutAnonInode(t, i, refcount[t][i], 0) /\ 0 \in Int
    BY <1>16, <2>2 DEF AnonRelease
  <2>4. refcount' \in [Tasks -> [Inos -> Refcounts]] /\ nref' \in [Tasks -> Int]
    BY <1>2, <2>2, <2>3, PutType
  <2>5. nref' \in [Tasks -> Nat]
    BY <2>4
  <2> QED  BY <1>1, <1>16, <2>1, <2>4, <2>5 DEF AnonRelease, TypeOK, Calls, Refcounts
<1>17. ASSUME NEW i \in Inos, NEW n \in Sizes,
              BeginOpen(t, i) \/ BeginTruncate(t, i, n) \/ BeginFtruncate(t, i, n)
       PROVE  TypeOK'
  <2>1. (nref[t] > 0) \in BOOLEAN /\ 0 \in Sizes
    BY AnonAssumption DEF Sizes
  <2>2. call' \in [Tasks -> Calls]
    <3>1. PICK op \in {"open", "truncate", "ftruncate"}, at \in {"real", "use"}, m \in Sizes :
            call' = [call EXCEPT ![t] = [Idle EXCEPT !.at = at, !.op = op, !.ino = i,
                                                     !.found = nref[t] > 0, !.new = m]]
      BY <1>17, <2>1 DEF BeginOpen, BeginTruncate, BeginFtruncate, Enter
    <3>2. [Idle EXCEPT !.at = at, !.op = op, !.ino = i, !.found = nref[t] > 0, !.new = m] \in Calls
      BY <2>1, EnterType
    <3> QED  BY <1>1, <3>1, <3>2
  <2> QED  BY <1>1, <1>17, <2>2 DEF BeginOpen, BeginTruncate, BeginFtruncate, TypeOK, Calls, Refcounts, stateVars
<1>18. 0 \in Sizes
  BY AnonAssumption DEF Sizes
<1> QED
  BY <1>6, <1>7, <1>8, <1>9, <1>10, <1>11, <1>12, <1>13, <1>14, <1>15, <1>16, <1>17, <1>18 DEF TaskStep

-----------------------------------------------------------------------------
(* The invariant, and what follows from it *)

\* The invariant holds initially.
LEMMA InitInv == ASSUME Init PROVE IInv
<1>1. TypeOK
  BY IdleType, AnonAssumption DEF Init, TypeOK, Calls, Sizes
<1>2. ASSUME NEW t \in Tasks PROVE CallInv(t) /\ CountInv(t)
  <2>1. Inodes(t) = {}
    BY DEF Init, Inodes, HasInode
  <2>2. CountInv(t)
    <3>1. nref[t] = 0 /\ notifier[t] = FALSE /\ call[t].at = "idle"
      BY DEF Init, Idle
    <3>2. \A i \in Inos : files[t][i] = 0 /\ refcount[t][i] = Absent
      BY DEF Init
    <3>3. Cardinality(Inodes(t)) = 0
      BY <2>1, FS_EmptySet
    <3> QED  BY <3>1, <3>2, <3>3, AnonAssumption DEF CountInv
  <2>3. CallInv(t)
    BY AnonAssumption DEF Init, CallInv, Idle
  <2> QED  BY <2>2, <2>3
<1>3. SizeInv
  BY DEF Init, SizeInv, Truncating, Idle
<1> QED  BY <1>1, <1>2, <1>3 DEF IInv

\* Every step preserves the invariant.
LEMMA StepInv == ASSUME IInv, [Next]_vars PROVE IInv'
<1>1. CASE UNCHANGED vars
  <2>1. TypeOK'
    BY <1>1 DEF IInv, TypeOK, vars, stateVars
  <2>2. ASSUME NEW u \in Tasks PROVE CallInv(u)' /\ CountInv(u)'
    <3>1. Same(u)
      BY <1>1 DEF Same, vars, stateVars
    <3> QED  BY <3>1, SameInv DEF IInv
  <2>3. SizeInv'
    BY <1>1 DEF IInv, SizeInv, Truncating, vars, stateVars
  <2> QED  BY <2>1, <2>2, <2>3 DEF IInv
<1>2. ASSUME NEW t \in Tasks, TaskStep(t) PROVE IInv'
  <2>1. ASSUME NEW u \in Tasks PROVE CallInv(u)' /\ CountInv(u)'
    BY <1>2, OthersSame, SameInv, OwnCall, OwnCounts DEF IInv
  <2>2. ASSUME NEW u \in Tasks PROVE nref'[u] \in Nat
    <3>1. Inodes(u)' \in SUBSET Inos
      BY DEF Inodes
    <3>2. Cardinality(Inodes(u)') \in Nat
      BY <3>1, Finite
    <3> QED  BY <2>1, <3>2 DEF CountInv
  <2>3. TypeOK' /\ SizeInv'
    BY <1>2, <2>2, StepType, SizeInvStep
  <2> QED  BY <2>1, <2>3 DEF IInv
<1> QED  BY <1>1, <1>2 DEF Next, TaskStep

\* The invariant holds in every state.
LEMMA Invariance == Spec => []IInv
<1>1. Init => IInv
  BY InitInv
<1>2. IInv /\ [Next]_vars => IInv'
  BY StepInv
<1> QED  BY <1>1, <1>2, PTL DEF Spec

\* The count on the sivfs_state of a task is the number of those who rely on it, for any
\* number of tasks and inodes, and whatever the tasks do with each other's files, across
\* exec and after exit: each call that takes counts gives them back, also when it fails.
THEOREM StatesCounted == Spec => []Counted
<1>1. IInv => Counted
  BY DEF IInv, CountInv, Counted
<1> QED  BY <1>1, Invariance, PTL

\* The refcount of a private inode is the number of its open files, without assumptions
\* about who closes them and when.
THEOREM InodesCounted == Spec => []RefcountIsFiles
<1>1. IInv => RefcountIsFiles
  BY DEF IInv, CountInv, RefcountIsFiles
<1> QED  BY <1>1, Invariance, PTL

\* When a task has exited and its files are closed its sivfs_state has been freed, with
\* the inodes that were looked up and never opened.
THEOREM NothingLeft == Spec => []StateGone
<1>1. IInv => StateGone
  <2>1. SUFFICES ASSUME IInv, NEW t \in Tasks \ alive, \A i \in Inos : files[t][i] = 0
                 PROVE  nref[t] = 0 /\ Inodes(t) = {} /\ ~notifier[t]
    BY DEF StateGone
  <2>2. CountInv(t) /\ call[t].at = "idle" /\ ~notifier[t]
    BY <2>1 DEF IInv, CallInv
  <2>3. Inodes(t) = {}
    BY <2>1, <2>2 DEF CountInv, Inodes, HasInode
  <2> QED  BY <2>2, <2>3, FS_EmptySet DEF CountInv
<1> QED  BY <1>1, Invariance, PTL

\* A truncation that has begun decides alone on the size of its file, and leaves it
\* changed only when the last of its commits of zeros has been made.
THEOREM SizesNeedZeros == Spec => SizeNeedsZeros
<1> DEFINE P == \A i \in Inos : i \in mutex /\ i \notin mutex' =>
                  LET c == call[CHOOSE t \in Tasks : call[t].at \in {"check", "zero"} /\ call[t].ino = i]
                  IN  size'[i] # c.old => c.batch + 1 = Batches
<1> HIDE DEF P
<1>1. IInv /\ [Next]_vars => [P]_vars
  <2>1. SUFFICES ASSUME IInv, Next, NEW i \in Inos, i \in mutex, i \notin mutex'
                 PROVE  LET c == call[CHOOSE t \in Tasks : call[t].at \in {"check", "zero"} /\ call[t].ino = i]
                        IN  size'[i] # c.old => c.batch + 1 = Batches
    BY DEF P
  <2>2. PICK t \in Tasks : TaskStep(t)
    BY <2>1 DEF Next, TaskStep
  <2>3. TypeOK /\ CallInv(t) /\ SizeInv
    BY <2>1 DEF IInv
  <2>4. SizeStep(t)
    BY <2>2, <2>3, StepsSizes
  <2>5. /\ Truncating(t) /\ call[t].ino = i
        /\ call[t].at = "check" => size'[i] = size[i]
        /\ call[t].at = "zero" => size'[i] = call[t].old \/ call[t].batch + 1 >= Batches
    BY <2>1, <2>4 DEF SizeStep
  <2>6. size'[i] # call[t].old => call[t].batch + 1 = Batches
    <3>1. call[t].at = "check" => size[i] = call[t].old
      BY <2>3, <2>5 DEF SizeInv
    <3>2. call[t].batch + 1 >= Batches => call[t].batch + 1 = Batches
      <4>1. call[t].batch \in Nat /\ Batches \in Nat /\ call[t].batch < Batches
        BY <2>3, AnonAssumption DEF TypeOK, CallInv
      <4> QED  BY <4>1
    <3> QED  BY <2>5, <3>1, <3>2 DEF Truncating
  <2>7. t = CHOOSE u \in Tasks : call[u].at \in {"check", "zero"} /\ call[u].ino = i
    <3>1. \A u \in Tasks : call[u].at \in {"check", "zero"} /\ call[u].ino = i <=> u = t
      BY <2>3, <2>5 DEF SizeInv, Truncating
    <3> QED  BY <3>1
  <2> QED  BY <2>6, <2>7
<1> QED  BY <1>1, Invariance, PTL DEF Spec, SizeNeedsZeros, P

-----------------------------------------------------------------------------
(* Lookups *)

\* The file system as its users are expected to use it: nobody closes the last file on
\* an inode that its task is opening, files are closed on exec, and a task_struct is not
\* reused while the state of its old task exists.
Settled == ~Snoops /\ ~KeepsFiles /\ ~Recycles

\* A task that has a state has a notifier, so that closing files leaves the state; and
\* the inode for an open is there until it is counted.
LookInv(t) ==
  /\ t \in alive /\ nref[t] > 0 => notifier[t]
  /\ call[t].at \in {"real", "check"} /\ call[t].found => notifier[t]
  /\ call[t].at = "use" /\ call[t].op = "open" => refcount[t][call[t].ino] # Absent

\* The state exists while it has inodes, a notifier or a truncation.
LEMMA StateExists ==
  ASSUME IInv, NEW t \in Tasks, Inodes(t) # {} \/ notifier[t] \/ call[t].at = "zero" PROVE nref[t] > 0
<1>1. Inodes(t) \in SUBSET Inos
  BY DEF Inodes
<1>2. IsFiniteSet(Inodes(t)) /\ Cardinality(Inodes(t)) \in Nat
  BY <1>1, Finite
<1>3. Inodes(t) # {} => Cardinality(Inodes(t)) # 0
  BY <1>2, FS_EmptySet
<1> QED  BY <1>2, <1>3 DEF IInv, CountInv

\* Every step of a task keeps what it has looked up.
LEMMA OwnLook == ASSUME Settled, IInv, NEW t \in Tasks, LookInv(t), TaskStep(t) PROVE LookInv(t)'
<1>1. TypeOK /\ CallInv(t) /\ CountInv(t)
  BY DEF IInv
<1>2. CASE /\ call'[t] = Idle /\ notifier' = notifier /\ alive' = alive
           /\ nref'[t] > 0 => nref[t] > 0
  BY <1>2 DEF LookInv, Idle
<1>3. CASE DReal(t)
  <2>1. call[t].at = "real" /\ alive' = alive /\ call[t].ino \in Inos
    BY <1>1, <1>3 DEF DReal, CallInv
  <2>2. \/ notifier'[t] = TRUE
        \/ notifier'[t] = notifier[t] /\ nref'[t] = nref[t]
    BY <1>1, <1>3 DEF TypeOK, DReal, stateVars, Created, CountedWithNotifier, CreateFailed
  <2>3. \/ call'[t].at = "idle"
        \/ call'[t].at = "use" /\ call'[t].ino = call[t].ino /\ refcount'[t][call[t].ino] # Absent
    <3>1. \/ call'[t] = Idle
          \/ call' = [call EXCEPT ![t].at = "use"] /\ HasInode(t, call[t].ino) /\ refcount' = refcount
          \/ call' = [call EXCEPT ![t].at = "use"] /\ Created(t, call[t].ino)
      BY <1>1, <1>3 DEF TypeOK, DReal, Return, stateVars
    <3> QED  BY <1>1, <2>1, <3>1, AnonAssumption DEF TypeOK, Idle, HasInode, Created
  <2> QED  BY <2>1, <2>2, <2>3 DEF LookInv
<1>4. CASE AnonOpen(t) \/ AnonOpenFails(t) \/ FtruncateRefused(t)
  BY <1>1, <1>2, <1>4 DEF TypeOK, AnonOpen, AnonOpenFails, FtruncateRefused, SetattrReturns, Return, stateVars
<1>5. CASE Setattr(t)
  <2>1. call[t].at = "use" /\ UNCHANGED <<stateVars, alive>> /\ t \in alive
    BY <1>1, <1>5 DEF Setattr, CallInv
  <2>2. call'[t] = Idle \/ (call'[t].at = "check" /\ call'[t].found = (nref[t] > 0))
    BY <1>1, <1>5 DEF TypeOK, Setattr, Return
  <2> QED  BY <1>2, <2>1, <2>2 DEF LookInv, stateVars
<1>6. CASE FtruncateUndone(t) \/ Ftruncate(t)
  <2>1. /\ call[t].at = "check" /\ CanReference(refcount[t][call[t].ino])
        /\ notifier' = notifier /\ alive' = alive
    BY <1>6 DEF FtruncateUndone, Ftruncate
  <2>2. t \in alive /\ call[t].ino \in Inodes(t)
    BY <1>1, <2>1, AnonAssumption DEF CallInv, CanReference, Inodes, HasInode
  <2>3. notifier[t]
    BY <2>2, StateExists DEF LookInv
  <2>4. call'[t].at \in {"idle", "zero"}
    BY <1>1, <1>6 DEF TypeOK, FtruncateUndone, Ftruncate, SetattrReturns, Return, Idle
  <2> QED  BY <2>1, <2>3, <2>4 DEF LookInv
<1>7. CASE ZeroBatch(t) \/ ZeroBatchFails(t)
  <2>1. call[t].at = "zero" /\ notifier' = notifier /\ alive' = alive /\ t \in alive
    BY <1>1, <1>7 DEF ZeroBatch, ZeroBatchFails, CallInv
  <2>2. notifier[t]
    BY <2>1, StateExists DEF LookInv
  <2>3. call'[t].at \in {"idle", "zero"}
    BY <1>1, <1>7, <2>1 DEF TypeOK, ZeroBatch, ZeroBatchFails, SetattrReturns, Return, Idle
  <2> QED  BY <2>1, <2>2, <2>3 DEF LookInv
<1>8. CASE Exit(t)
  BY <1>8 DEF Exit, LookInv, Idle
<1>9. CASE Exec(t)
  <2>1. call[t].at = "idle" /\ MmRelease(t) /\ files' = files /\ call' = call /\ \A i \in Inos : files[t][i] = 0
    BY <1>9 DEF Exec, Idle, Settled
  <2>2. CountInv(t)' /\ ~notifier'[t] /\ \A i \in Inos : refcount'[t][i] # Unreferenced
    BY <1>1, <2>1, MmReleaseCounts
  <2>3. Inodes(t)' = {}
    BY <2>1, <2>2 DEF CountInv, Inodes, HasInode
  <2>4. nref'[t] = 0
    BY <2>1, <2>2, <2>3, FS_EmptySet DEF CountInv
  <2>5. ~(nref'[t] > 0)
    BY <2>4
  <2>6. call'[t].at = "idle"
    BY <2>1
  <2> QED  BY <2>5, <2>6 DEF LookInv
<1>10. CASE Fork(t)
  BY <1>10 DEF Fork, LookInv, Settled, stateVars
<1>11. ASSUME NEW i \in Inos, AnonRelease(t, i) PROVE LookInv(t)'
  <2>1. /\ notifier' = notifier /\ call' = call /\ alive' = alive
        /\ refcount[t][i] # 1 \/ call[t].ino # i \/ call[t].at \notin {"use", "check"}
    BY <1>11 DEF AnonRelease, Settled
  <2>2. refcount[t][i] \in 1..MaxRefcount /\ refcount[t][i] # Absent
    BY <1>1, <1>11, AnonReleaseCounts, AnonAssumption
  <2>3. PutAnonInode(t, i, refcount[t][i], 0)
    BY <1>11, <2>2 DEF AnonRelease
  <2>4. nref'[t] = nref[t] \/ nref'[t] = nref[t] - 1
    <3>1. nref' = [nref EXCEPT ![t] = nref[t] + (0 - IF refcount[t][i] \in {Unreferenced, 1} THEN 1 ELSE 0)]
      BY <2>3 DEF PutAnonInode, NrefBy
    <3>2. nref[t] \in Nat /\ nref'[t] = nref[t] + (0 - IF refcount[t][i] \in {Unreferenced, 1} THEN 1 ELSE 0)
      BY <1>1, <3>1 DEF TypeOK
    <3> QED  BY <3>2
  <2>5. /\ \A j \in Inos \ {i} : refcount'[t][j] = refcount[t][j]
        /\ refcount[t][i] # 1 => refcount'[t][i] # Absent
    <3>1. refcount'[t] = [refcount[t] EXCEPT ![i] = IF refcount[t][i] \in {Unreferenced, 1} THEN Absent
                                                    ELSE refcount[t][i] - 1]
      BY <1>1, <2>3 DEF TypeOK, PutAnonInode
    <3>2. refcount[t][i] # Unreferenced /\ refcount[t][i] - 1 # Absent
      BY <2>2, AnonAssumption
    <3> QED  BY <1>1, <3>1, <3>2 DEF TypeOK
  <2>6. nref'[t] > 0 => nref[t] > 0
    BY <1>1, <2>4 DEF TypeOK
  <2>7. call[t].at = "use" => call[t].ino \in Inos
    BY <1>1 DEF CallInv
  <2> QED  BY <2>1, <2>5, <2>6, <2>7 DEF LookInv
<1>12. ASSUME NEW i \in Inos, NEW n,
              BeginOpen(t, i) \/ BeginTruncate(t, i, n) \/ BeginFtruncate(t, i, n)
       PROVE  LookInv(t)'
  <2>1. t \in alive /\ UNCHANGED <<stateVars, alive>>
    BY <1>12 DEF BeginOpen, BeginTruncate, BeginFtruncate
  <2>2. /\ call'[t].at = "use" => call'[t].op # "open"
        /\ call'[t].found = (nref[t] > 0)
    <3>1. \/ Enter(t, "open", i, "real", 0) \/ Enter(t, "truncate", i, "real", n)
          \/ Enter(t, "ftruncate", i, "use", n)
      BY <1>12 DEF BeginOpen, BeginTruncate, BeginFtruncate
    <3>2. CASE Enter(t, "open", i, "real", 0)
      BY <1>1, <3>2, EnterEffect
    <3>3. CASE Enter(t, "truncate", i, "real", n)
      BY <1>1, <3>3, EnterEffect
    <3>4. CASE Enter(t, "ftruncate", i, "use", n)
      BY <1>1, <3>4, EnterEffect
    <3> QED  BY <3>1, <3>2, <3>3, <3>4
  <2> QED  BY <2>1, <2>2 DEF LookInv, stateVars
<1> QED
  BY <1>3, <1>4, <1>5, <1>6, <1>7, <1>8, <1>9, <1>10, <1>11, <1>12 DEF TaskStep

\* What sivfs_get_task_state and sivfs_d_real found is still there when the call counts
\* it, however other tasks close files in between, if the users keep to the above.
THEOREM LookupsLast == ASSUME Settled PROVE Spec => []LookupsStay
<1> DEFINE J == IInv /\ \A t \in Tasks : LookInv(t)
<1>1. Init => J
  BY InitInv DEF Init, LookInv, Idle
<1>2. J /\ [Next]_vars => J'
  <2> SUFFICES ASSUME J, [Next]_vars PROVE J'
    OBVIOUS
  <2>1. IInv'
    BY StepInv
  <2>2. ASSUME NEW u \in Tasks PROVE LookInv(u)'
    <3>1. CASE Same(u)
      BY <3>1 DEF LookInv, Same
    <3>2. CASE UNCHANGED vars
      BY <3>1, <3>2 DEF Same, vars, stateVars
    <3>3. ASSUME NEW t \in Tasks, TaskStep(t) PROVE LookInv(u)'
      BY <3>1, <3>3, OthersSame, OwnLook DEF IInv
    <3> QED  BY <3>2, <3>3 DEF Next, TaskStep
  <2> QED  BY <2>1, <2>2
<1>3. J => LookupsStay
  BY StateExists DEF LookInv, LookupsStay
<1> QED  BY <1>1, <1>2, <1>3, PTL DEF Spec

=============================================================================
