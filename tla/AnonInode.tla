----------------------------- MODULE AnonInode -----------------------------
(***************************************************************************)
(* The private inodes through which a task sees a file, the sivfs_state of *)
(* the task, and what counts references to either: sivfs_d_real,           *)
(* sivfs_anon_open and sivfs_anon_release, sivfs_mm_release, and truncation *)
(* (sivfs_setattr, sivfs_ftruncate), which looks at the private inode of   *)
(* its caller.                                                             *)
(*                                                                         *)
(* A state is counted by each of its private inodes, by the notifier on    *)
(* the memory of its task and, for a while, by calls that use it.  Files   *)
(* are shared by fork and by threads, so any task may close a file; it     *)
(* stays a file of the task that opened it, whose state it refers to.      *)
(*                                                                         *)
(* The kernel around the calls (vfs_open, vfs_truncate, fork, exec, exit)  *)
(* is modelled from the order in which it makes them.                      *)
(***************************************************************************)
EXTENDS Integers, FiniteSets

CONSTANTS
  Tasks, Inos,
  MaxRefcount,   \* SIVFS_MAX_REFCOUNT
  Unreferenced,  \* SIVFS_UNREFERENCED
  Absent,        \* no private inode
  Batches,       \* commits of zeros that a truncation makes
  MaxSize,       \* bound on the size of a file
  MaxFailures,   \* bound on the calls that run out of memory
  Snoops,        \* a task closes the last file on an inode that another is opening
  KeepsFiles,    \* files stay open across exec
  Foreign,       \* tasks truncate files that only others have opened
  Recycles       \* a task_struct is reused while the state of the old task exists

ASSUME AnonAssumption ==
  /\ MaxRefcount \in Nat \ {0} /\ Batches \in Nat \ {0}
  /\ MaxSize \in Nat /\ MaxFailures \in Nat /\ IsFiniteSet(Inos)
  /\ Unreferenced \notin Nat /\ Absent \notin Nat /\ Absent # Unreferenced
  /\ {Snoops, KeepsFiles, Foreign, Recycles} \subseteq BOOLEAN

VARIABLES
  nref,      \* nref of each task's sivfs_state, 0 if it has none
  notifier,  \* notifier_registered
  refcount,  \* refcount of each task's private inode of a file
  files,     \* the number of open files of each task on each inode
  alive,     \* the tasks that have not exited
  call,      \* the call each task is in: [at, op, ino, found, old, new, batch]
  mutex,     \* the inodes whose i_mutex is held
  size,      \* i_size of the backing inodes
  failures,  \* calls that have run out of memory
  mishap     \* what has gone wrong in a way the code does not notice

stateVars == <<nref, notifier, refcount>>
vars == <<stateVars, files, alive, call, mutex, size, failures, mishap>>

Sizes == 0..MaxSize
Idle == [at |-> "idle", op |-> "none", ino |-> Absent,
         found |-> FALSE, old |-> 0, new |-> 0, batch |-> 0]

Init ==
  /\ nref = [t \in Tasks |-> 0]
  /\ notifier = [t \in Tasks |-> FALSE]
  /\ refcount = [t \in Tasks |-> [i \in Inos |-> Absent]]
  /\ files = [t \in Tasks |-> [i \in Inos |-> 0]]
  /\ alive = Tasks
  /\ call = [t \in Tasks |-> Idle]
  /\ mutex = {}
  /\ size = [i \in Inos |-> 0]
  /\ failures = 0
  /\ mishap = {}

Return(t) == call' = [call EXCEPT ![t] = Idle]
Fails == failures < MaxFailures /\ failures' = failures + 1
NrefBy(t, n) == nref' = [nref EXCEPT ![t] = @ + n]

-----------------------------------------------------------------------------
(* Private inodes *)

\* sivfs_get_anon_inode: does the working set of the task's state have one?
HasInode(t, i) == refcount[t][i] # Absent
Inodes(t) == {i \in Inos : HasInode(t, i)}

\* sivfs_iinfo_refct_inc, or the first reference: the refcount afterwards.
Referenced(r) == IF r = Unreferenced THEN 1 ELSE r + 1
CanReference(r) == IF r \in Nat THEN r < MaxRefcount ELSE r = Unreferenced

\* Variant: an inode with one reference is kept with none.
PutAnonInodeLate(t, i, r, extra) ==
  LET last == r \in {Unreferenced, 0}
  IN  /\ refcount' = [refcount EXCEPT ![t][i] = IF last THEN Absent ELSE r - 1]
      /\ NrefBy(t, extra - IF last THEN 1 ELSE 0)

\* sivfs_put_anon_inode of an inode with refcount r: the last reference frees the
\* inode and its count on the state.  extra: what else the caller adds to nref.
PutAnonInode(t, i, r, extra) ==
  LET last == r \in {Unreferenced, 1}
  IN  /\ refcount' = [refcount EXCEPT ![t][i] = IF last THEN Absent ELSE r - 1]
      /\ NrefBy(t, extra - IF last THEN 1 ELSE 0)

\* Variant: the reference to the state is dropped on return, though the inode stays.
CreatedUncounted(t, i) ==
  /\ refcount' = [refcount EXCEPT ![t][i] = Unreferenced]
  /\ notifier' = [notifier EXCEPT ![t] = TRUE]
  /\ NrefBy(t, IF notifier[t] THEN 0 ELSE 1)

\* sivfs_create_anon_inode registers the notifier, unless there is one, and counts
\* it on the state together with n others.
CountedWithNotifier(t, n) ==
  /\ notifier' = [notifier EXCEPT ![t] = TRUE]
  /\ NrefBy(t, n + IF notifier[t] THEN 0 ELSE 1)

\* _sivfs_get_anon_inode: a new inode, not referenced, that counts on the state.
Created(t, i) ==
  /\ refcount' = [refcount EXCEPT ![t][i] = Unreferenced]
  /\ CountedWithNotifier(t, 1)

\* Their error paths: the inode and its count are gone again.  A notifier that was
\* registered before the failure stays.
CreateFailed(t) ==
  /\ CountedWithNotifier(t, 0) \/ UNCHANGED <<notifier, nref>>
  /\ UNCHANGED refcount

-----------------------------------------------------------------------------
(* Calls.  The lookup in sivfs_get_task_state is a step of its own: between it *)
(* and the increment another task may drop what it believes the last reference. *)

Enter(t, op, i, at, n) ==
  call' = [call EXCEPT ![t] = [Idle EXCEPT !.at = at, !.op = op, !.ino = i,
                                           !.found = nref[t] > 0, !.new = n]]

\* vfs_open and vfs_truncate begin with sivfs_d_real, which looks up the state.
BeginOpen(t, i) ==
  /\ t \in alive /\ call[t] = Idle
  /\ Enter(t, "open", i, "real", 0)
  /\ UNCHANGED <<stateVars, files, alive, mutex, size, failures, mishap>>

BeginTruncate(t, i, n) ==
  /\ t \in alive /\ call[t] = Idle
  /\ Enter(t, "truncate", i, "real", n)
  /\ UNCHANGED <<stateVars, files, alive, mutex, size, failures, mishap>>

\* ftruncate, and open with O_TRUNC, have a file, not necessarily one of the task.
BeginFtruncate(t, i, n) ==
  /\ t \in alive /\ call[t] = Idle
  /\ \E u \in Tasks : files[u][i] > 0
  /\ Foreign \/ refcount[t][i] # Absent
  /\ Enter(t, "ftruncate", i, "use", n)
  /\ UNCHANGED <<stateVars, files, alive, mutex, size, failures, mishap>>

\* The rest of sivfs_d_real: the state is counted and, at the end, put again; the
\* inode is created if there is none, without a reference.
DReal(t) ==
  LET i == call[t].ino
  IN  /\ call[t].at = "real"
      /\ \/ /\ HasInode(t, i)
            /\ call' = [call EXCEPT ![t].at = "use"]
            /\ UNCHANGED <<stateVars, failures>>
         \/ /\ ~HasInode(t, i)
            /\ Created(t, i)
            /\ call' = [call EXCEPT ![t].at = "use"]
            /\ UNCHANGED failures
         \/ /\ ~HasInode(t, i)
            /\ Fails /\ CreateFailed(t)
            /\ Return(t)
      /\ UNCHANGED <<files, alive, mutex, size, mishap>>

\* sivfs_anon_open.  An inode that lost its iinfo in the meantime makes it return 0
\* with the sivfs_file_info freed; one at its limit makes it return an error after
\* the direct access file was put twice.
AnonOpen(t) ==
  LET i == call[t].ino
      r == refcount[t][i]
  IN  /\ call[t].at = "use" /\ call[t].op = "open"
      /\ IF CanReference(r)
           THEN /\ refcount' = [refcount EXCEPT ![t][i] = Referenced(r)]
                /\ files' = [files EXCEPT ![t][i] = @ + 1]
                /\ UNCHANGED mishap
           ELSE /\ mishap' = IF r = Absent THEN mishap \cup {"stray"} ELSE mishap
                /\ UNCHANGED <<refcount, files>>
      /\ Return(t)
      /\ UNCHANGED <<nref, notifier, alive, mutex, size, failures>>

\* The sivfs_file_info or the direct access file cannot be had.
AnonOpenFails(t) ==
  /\ call[t].at = "use" /\ call[t].op = "open"
  /\ Fails /\ Return(t)
  /\ UNCHANGED <<stateVars, files, alive, mutex, size, mishap>>

\* Variant: with its last file the task's notifier goes, too.
AnonReleaseUnregisters(t, i) ==
  LET last == refcount[t][i] = 1 /\ Inodes(t) = {i} /\ notifier[t]
  IN  /\ files[t][i] > 0
      /\ refcount[t][i] # 1 \/ call[t].ino # i \/ call[t].at \notin {"use", "check"}
      /\ files' = [files EXCEPT ![t][i] = @ - 1]
      /\ PutAnonInode(t, i, refcount[t][i], IF last THEN -1 ELSE 0)
      /\ notifier' = [notifier EXCEPT ![t] = @ /\ ~last]
      /\ UNCHANGED <<alive, call, mutex, size, failures, mishap>>

\* sivfs_anon_release of a file that t opened, called by whoever closes it last.
AnonRelease(t, i) ==
  /\ files[t][i] > 0
  /\ Snoops \/ refcount[t][i] # 1 \/ call[t].ino # i \/ call[t].at \notin {"use", "check"}
  /\ files' = [files EXCEPT ![t][i] = @ - 1]
  /\ IF refcount[t][i] = Absent
       THEN UNCHANGED <<refcount, nref>>
       ELSE PutAnonInode(t, i, refcount[t][i], 0)
  /\ UNCHANGED <<notifier, alive, call, mutex, size, failures, mishap>>

-----------------------------------------------------------------------------
(* Truncation *)

\* sivfs_setattr, with the i_mutex: nothing to do, or the lookup of the state.
Setattr(t) ==
  LET c == call[t]
  IN  /\ c.at = "use" /\ c.op # "open" /\ c.ino \notin mutex
      /\ IF size[c.ino] = c.new
           THEN Return(t) /\ UNCHANGED mutex
           ELSE /\ call' = [call EXCEPT ![t].at = "check", ![t].old = size[c.ino],
                                        ![t].found = nref[t] > 0]
                /\ mutex' = mutex \cup {c.ino}
      /\ UNCHANGED <<stateVars, files, alive, size, failures, mishap>>

\* The call returns and the state is put.
SetattrReturns(t) == Return(t) /\ mutex' = mutex \ {call[t].ino}

\* sivfs_check_nontxnal_op takes a reference to the caller's inode and puts it, so
\* that an inode without references is freed.  n: what is added to nref besides.
CheckNontxnalOp(t, n) ==
  LET i == call[t].ino
  IN  PutAnonInode(t, i, Referenced(refcount[t][i]), n)

\* sivfs_ftruncate refuses: the inode has no more references to give, or it has
\* pages.  If the caller has no inode the dentry is an uninitialized variable.
FtruncateRefused(t) ==
  LET r == refcount[t][call[t].ino]
  IN  /\ call[t].at = "check" /\ r # Unreferenced
      /\ mishap' = IF r = Absent THEN mishap \cup {"garbage"} ELSE mishap
      /\ SetattrReturns(t)
      /\ UNCHANGED <<stateVars, files, alive, size, failures>>

\* It sets the size and then, for want of memory or because neither the old nor the
\* new size is 0, sets it back.  The second returns 0.
FtruncateUndone(t) ==
  LET c == call[t]
      r == refcount[t][c.ino]
  IN  /\ c.at = "check"
      /\ CanReference(r)
      /\ CheckNontxnalOp(t, 0)
      /\ IF c.new # 0 /\ c.old # 0 THEN UNCHANGED failures ELSE Fails
      /\ SetattrReturns(t)
      /\ UNCHANGED <<notifier, files, alive, size, mishap>>

\* It sets the size and goes on to commit zeros.
Ftruncate(t) ==
  LET c == call[t]
      r == refcount[t][c.ino]
  IN  /\ c.at = "check" /\ (c.new = 0 \/ c.old = 0)
      /\ CanReference(r)
      /\ CheckNontxnalOp(t, 1)
      /\ size' = [size EXCEPT ![c.ino] = c.new]
      /\ call' = [call EXCEPT ![t].at = "zero"]
      /\ UNCHANGED <<notifier, files, alive, mutex, failures, mishap>>

\* The next 512 words are zeroed by a commit of their own; after the last of these
\* the truncation is done.
ZeroBatch(t) ==
  LET c == call[t]
  IN  /\ c.at = "zero"
      /\ IF c.batch + 1 < Batches
           THEN /\ call' = [call EXCEPT ![t].batch = @ + 1]
                /\ UNCHANGED <<mutex, nref>>
           ELSE SetattrReturns(t) /\ NrefBy(t, -1)
      /\ UNCHANGED <<notifier, refcount, files, alive, size, failures, mishap>>

\* Variant: the speculative size stays.
ZeroBatchKeepsSize(t) ==
  /\ call[t].at = "zero"
  /\ Fails /\ SetattrReturns(t) /\ NrefBy(t, -1)
  /\ UNCHANGED <<notifier, refcount, files, alive, size, mishap>>

\* One of them fails: the size is set back, the zeros committed so far remain.
ZeroBatchFails(t) ==
  LET c == call[t]
  IN  /\ c.at = "zero"
      /\ Fails /\ SetattrReturns(t) /\ NrefBy(t, -1)
      /\ size' = [size EXCEPT ![c.ino] = c.old]
      /\ UNCHANGED <<notifier, refcount, files, alive, mishap>>

-----------------------------------------------------------------------------
(* Tasks *)

\* Variant: inodes that were never opened are left.
MmReleaseForgets(t) ==
  /\ notifier' = [notifier EXCEPT ![t] = FALSE]
  /\ NrefBy(t, IF notifier[t] THEN -1 ELSE 0)
  /\ UNCHANGED refcount

\* sivfs_mm_release, if there is a notifier: inodes that were never opened are put,
\* then the notifier's count on the state.
MmRelease(t) ==
  LET unopened == {i \in Inos : notifier[t] /\ refcount[t][i] = Unreferenced}
  IN  /\ refcount' = [refcount EXCEPT ![t] =
           [i \in Inos |-> IF i \in unopened THEN Absent ELSE @[i]]]
      /\ notifier' = [notifier EXCEPT ![t] = FALSE]
      /\ NrefBy(t, -(Cardinality(unopened) + IF notifier[t] THEN 1 ELSE 0))

\* The task exits; its memory goes before its files are closed.
Exit(t) ==
  /\ t \in alive /\ call[t] = Idle
  /\ alive' = alive \ {t}
  /\ MmRelease(t)
  /\ UNCHANGED <<files, call, mutex, size, failures, mishap>>

\* A new task gets the task_struct of one that is gone.
Fork(t) ==
  /\ t \notin alive /\ (Recycles \/ nref[t] = 0)
  /\ alive' = alive \cup {t}
  /\ UNCHANGED <<stateVars, files, call, mutex, size, failures, mishap>>

\* The task gets a new memory.
Exec(t) ==
  /\ t \in alive /\ call[t] = Idle
  /\ KeepsFiles \/ \A i \in Inos : files[t][i] = 0
  /\ MmRelease(t)
  /\ UNCHANGED <<files, alive, call, mutex, size, failures, mishap>>

Next ==
  \E t \in Tasks :
    \/ DReal(t) \/ AnonOpen(t) \/ AnonOpenFails(t)
    \/ Setattr(t) \/ Ftruncate(t) \/ FtruncateRefused(t) \/ FtruncateUndone(t)
    \/ ZeroBatch(t) \/ ZeroBatchFails(t)
    \/ Exit(t) \/ Fork(t) \/ Exec(t)
    \/ \E i \in Inos : \/ BeginOpen(t, i) \/ AnonRelease(t, i)
                       \/ \E n \in Sizes : BeginTruncate(t, i, n) \/ BeginFtruncate(t, i, n)

Spec == Init /\ [][Next]_vars

-----------------------------------------------------------------------------
\* The counts of states and inodes, the files of the tasks and the stages of their
\* calls have their types; no inode's count passes SIVFS_MAX_REFCOUNT and none falls
\* below 0.
TypeOK ==
  /\ nref \in [Tasks -> Nat]
  /\ notifier \in [Tasks -> BOOLEAN]
  /\ refcount \in [Tasks -> [Inos -> {Absent, Unreferenced} \cup 0..MaxRefcount]]
  /\ files \in [Tasks -> [Inos -> Nat]]
  /\ alive \subseteq Tasks
  /\ call \in [Tasks -> [at : {"idle", "real", "use", "check", "zero"},
                         op : {"none", "open", "truncate", "ftruncate"},
                         ino : Inos \cup {Absent}, found : BOOLEAN, old : Sizes, new : Sizes,
                         batch : 0..Batches]]
  /\ mutex \subseteq Inos
  /\ size \in [Inos -> Sizes]
  /\ failures \in 0..MaxFailures
  /\ mishap \subseteq {"stray", "garbage"}

\* The count on a state is the number of those who rely on it: its private inodes,
\* the notifier, and a truncation under way.  (The state has its types.)
Counted ==
  /\ TypeOK
  /\ \A t \in Tasks : nref[t] = Cardinality(Inodes(t))
                                + (IF notifier[t] THEN 1 ELSE 0)
                                + (IF call[t].at = "zero" THEN 1 ELSE 0)

\* The refcount of a private inode is the number of open files on it, also when
\* opening failed, when a truncation looked at it and when others closed files.
RefcountIsFiles ==
  \A t \in Tasks, i \in Inos :
    IF files[t][i] = 0 THEN refcount[t][i] \in {Absent, Unreferenced}
                       ELSE refcount[t][i] = files[t][i]

\* What a call has looked up stays until it is counted, although other tasks close
\* files meanwhile: the state that sivfs_get_task_state found, and the inode that
\* sivfs_d_real returned for an open.
LookupsStay ==
  \A t \in Tasks :
    /\ call[t].at \in {"real", "check"} /\ call[t].found => nref[t] > 0
    /\ call[t].at = "use" /\ call[t].op = "open" => refcount[t][call[t].ino] # Absent

\* Nothing is left of a task that has exited and whose files are closed.
StateGone ==
  \A t \in Tasks \ alive :
    (\A i \in Inos : files[t][i] = 0) => nref[t] = 0 /\ Inodes(t) = {} /\ ~notifier[t]

\* A truncation under way alone decides on the size of its file, which it changes
\* for good only when all the zeros have been committed.
SizeNeedsZeros ==
  [][\A i \in Inos : i \in mutex /\ i \notin mutex' =>
       LET c == call[CHOOSE t \in Tasks : call[t].at \in {"check", "zero"} /\ call[t].ino = i]
       IN  size'[i] # c.old => c.batch + 1 = Batches]_vars

-----------------------------------------------------------------------------
(* What comments say of the code, and some callers see it do differently. *)

\* inode.c, on sivfs_d_real: "the created inode isn't destroyed by a truncate
\* operation".  vfs_truncate still uses it when sivfs_setattr has returned.
TruncatedStays ==
  \A t \in Tasks : call[t].op = "truncate" /\ call[t].at \in {"use", "check", "zero"} =>
                     refcount[t][call[t].ino] # Absent

\* inode.c, on an inode closed by another thread while it is opened: "in that case,
\* we just return error and are safe".
OpenRefused == "stray" \notin mishap

\* sivfs_file_info.h, on direct_access_file: "free it with fput on destruction".  The
\* error path of sivfs_anon_open has put it already.
DirectPutOnce == [][\A t \in Tasks : AnonOpen(t) => files' # files \/ mishap' # mishap]_vars

\* sivfs_workingset.h, on a lookup without SIVFS_CREATE: it is to "return NULL if it
\* is not exist".
NullIfAbsent == "garbage" \notin mishap

\* A truncation that returns 0 has set the size.
TruncateHonest == [][\A t \in Tasks : FtruncateUndone(t) => failures' # failures]_vars

\* inode.c: "We have to set up the mmu notifier on state if we are going to be
\* mmaping in the file".
Notified == \A t \in alive, i \in Inos : files[t][i] > 0 => notifier[t]

\* sivfs_state.h: "task struct pointers can be used to still identifier the owner".
NewTaskHasNoState == [][\A t \in Tasks \ alive : t \in alive' => nref[t] = 0]_vars
==============================================================================
