-------------------------- MODULE BackgroundThreads --------------------------
(***************************************************************************)
(* The three kernel threads behind the file system, how they sleep, who    *)
(* wakes them and how they are started and stopped.  "maker" makes         *)
(* checkpoints (sivfs_make_checkpoint_threadfn), "pages" and "log" are the *)
(* collectors (sivfs_gc_checkpoints_threadfn, sivfs_gc_log_threadfn).      *)
(*                                                                         *)
(* Each one works, naps and, if there was nothing to do, puts itself on a  *)
(* wait queue, works again and sleeps until it is woken.  Its work has two *)
(* steps: it looks at what there is to do, then does it.  Commits wait for *)
(* the checkpoints not to fall too far behind, and all the threads depend  *)
(* on others to wake them, so that this module is about progress; what the *)
(* collectors may free is the subject of CheckpointReclaim.                *)
(*                                                                         *)
(* A checkpoint leaves one page without use, named by the checkpoint that  *)
(* was the last to have it.                                                *)
(***************************************************************************)
EXTENDS Naturals, Sequences

CONSTANTS
  Tasks,        \* the tasks that commit
  Crews,        \* the threads that are started, in their order: all, or some of them
  MaxTs,        \* bound on the number of commits
  MaxLag,       \* SIVFS_MAX_WRITE_TXNS_SINCE_CHECKPOINT
  MaxFailures,  \* bound on the calls that run out of memory
  InvalidTs,    \* SIVFS_INVALID_TS
  Pauses        \* tasks pause also when they hold an old checkpoint

ASSUME ThreadsAssumption ==
  /\ MaxTs \in Nat /\ MaxLag \in Nat /\ MaxFailures \in Nat
  /\ InvalidTs \in Nat /\ MaxTs < InvalidTs
  /\ Pauses \in BOOLEAN
  /\ Crews \subseteq Seq({"maker", "pages", "log"})
  /\ \A s \in Crews : s # <<>> /\ \A i, j \in DOMAIN s : s[i] = s[j] => i = j

VARIABLES
  master_ts,
  published,    \* latest_checkpoint_published
  garbage,      \* pages that only old checkpoints have
  log,          \* the timestamps whose entries exist
  pc,           \* where each thread is
  found,        \* what it found to do
  did,          \* made_checkpoint, did_gc
  waiting,      \* the threads that were put on their wait queue and not woken since
  should_stop,  \* the threads for which kthread_stop was called
  mount,        \* "start", "up", "stop" or "down"
  queue,        \* threads still to be started, or still to be stopped
  task,         \* where each task is in a call, or "out" if it has no state
  checkpoint_ts, prior_checkpoint_ts, \* of each task
  commit_ts,    \* next_ts of each task's commit
  failures      \* calls that have run out of memory

sharedVars == <<master_ts, published, garbage, log>>
threadVars == <<pc, found, did>>
mountVars == <<should_stop, mount, queue>>
taskVars == <<task, checkpoint_ts, prior_checkpoint_ts, commit_ts>>
vars == <<sharedVars, threadVars, waiting, mountVars, taskVars, failures>>

Ts == 0..MaxTs
Threads == {"maker", "pages", "log"}

\* The threads of three that exist, in their order.
Started(first, second, third) ==
  LET one(th) == IF pc[th] = "none" THEN <<>> ELSE <<th>>
  IN  one(first) \o one(second) \o one(third)

Init ==
  /\ master_ts = 0 /\ published = 0 /\ garbage = {} /\ log = {}
  /\ pc = [th \in Threads |-> "none"]
  /\ found = [th \in Threads |-> {}]
  /\ did = [th \in Threads |-> FALSE]
  /\ waiting = {} /\ should_stop = {}
  /\ mount = "start" /\ queue \in Crews
  /\ task = [t \in Tasks |-> "out"]
  /\ checkpoint_ts = [t \in Tasks |-> InvalidTs]
  /\ prior_checkpoint_ts = [t \in Tasks |-> InvalidTs]
  /\ commit_ts = [t \in Tasks |-> 0]
  /\ failures = 0

\* The local variable is not used any more.
Forget(th) == did' = [did EXCEPT ![th] = FALSE]

Goto(th, to) == pc' = [pc EXCEPT ![th] = to]
TaskGoto(t, to) == task' = [task EXCEPT ![t] = to]
Fails == failures < MaxFailures /\ failures' = failures + 1

\* wake_up_interruptible on make_checkpoint_wq and on gc_wq.
WakeMaker == waiting' = waiting \ {"maker"}
WakeCollectors == waiting' = waiting \ {"pages", "log"}

-----------------------------------------------------------------------------
(* The work of the threads *)

\* sivfs_get_checked_out_versions.  Neither is a version if it is SIVFS_INVALID_TS.
Pins == {checkpoint_ts[t] : t \in Tasks} \cup {prior_checkpoint_ts[t] : t \in Tasks}

\* What there is to do: a checkpoint of all commits, pages that no task can use,
\* log entries before the oldest version in use.
Work(th) ==
  CASE th = "maker" -> IF master_ts = published THEN {} ELSE {master_ts}
    [] th = "pages" -> garbage \ Pins
    [] th = "log" -> {i \in log : \A v \in Pins \cup {published} : i < v}

\* Variant: the new checkpoint does not become the latest one.
DoneUnpublished(th) ==
  /\ published' = published
  /\ garbage' = IF th = "pages" THEN garbage \ found[th] ELSE garbage
  /\ log' = IF th = "log" THEN log \ found[th] ELSE log

\* sivfs_make_checkpoint publishes, sivfs_gc_checkpoints frees pages,
\* sivfs_delete_log log entries.
Done(th) ==
  /\ published' = IF th = "maker" THEN CHOOSE i \in found[th] : TRUE ELSE published
  /\ garbage' = CASE th = "maker" -> garbage \cup {published}
                  [] th = "pages" -> garbage \ found[th]
                  [] th = "log" -> garbage
  /\ log' = IF th = "log" THEN log \ found[th] ELSE log

\* The thread is created; with kthread_stop before it ever ran it does not run.
Begin(th) ==
  /\ pc[th] = "new"
  /\ Goto(th, IF th \in should_stop THEN "gone" ELSE "top")
  /\ UNCHANGED <<sharedVars, found, did, waiting, mountVars, taskVars, failures>>

\* error_spin: a thread that cannot have its sivfs_state, a collector that cannot
\* have the memory for its versions.  It stays, and only waits for kthread_stop.
GiveUp(th) ==
  /\ \/ pc[th] = "new" /\ th # "log" /\ th \notin should_stop
     \/ pc[th] \in {"top", "look again"} /\ th # "maker"
  /\ Fails
  /\ Goto(th, "spin")
  /\ waiting' = waiting \ {th}
  /\ UNCHANGED <<sharedVars, found, did, mountVars, taskVars>>

\* The thread looks at what there is to do: at the top of the loop, unless it is to
\* stop, or again when it is on its wait queue.
Look(th) ==
  /\ pc[th] \in {"top", "look again"}
  /\ IF pc[th] = "top" /\ th \in should_stop
       THEN Goto(th, "gone") /\ UNCHANGED found
       ELSE /\ Goto(th, IF pc[th] = "top" THEN "act" ELSE "act again")
            /\ found' = [found EXCEPT ![th] = Work(th)]
  /\ UNCHANGED <<sharedVars, did, waiting, mountVars, taskVars, failures>>

\* It does what it found.
Act(th) ==
  /\ pc[th] \in {"act", "act again"}
  /\ IF found[th] = {} THEN UNCHANGED sharedVars ELSE Done(th) /\ UNCHANGED master_ts
  /\ did' = [did EXCEPT ![th] = found[th] # {}]
  /\ found' = [found EXCEPT ![th] = {}]
  /\ Goto(th, CASE pc[th] = "act" -> IF found[th] = {} THEN "nap" ELSE "ring"
                [] OTHER -> IF found[th] = {} THEN "decide" ELSE "ring again")
  /\ UNCHANGED <<waiting, mountVars, taskVars, failures>>

\* Variant: the thread goes on to sleep until it is woken.
OutOfMemorySleeps ==
  /\ pc["maker"] \in {"act", "act again"} /\ found["maker"] # {}
  /\ Fails
  /\ did' = [did EXCEPT !["maker"] = FALSE]
  /\ found' = [found EXCEPT !["maker"] = {}]
  /\ Goto("maker", IF pc["maker"] = "act" THEN "nap" ELSE "decide")
  /\ UNCHANGED <<sharedVars, waiting, mountVars, taskVars>>

\* There is no memory for the checkpoint.  The error is dropped after msleep(1),
\* which leaves the thread in TASK_RUNNING: a later schedule() does not sleep.
OutOfMemory ==
  /\ pc["maker"] \in {"act", "act again"} /\ found["maker"] # {}
  /\ Fails
  /\ did' = [did EXCEPT !["maker"] = FALSE]
  /\ found' = [found EXCEPT !["maker"] = {}]
  /\ waiting' = waiting \ {"maker"}
  /\ Goto("maker", IF pc["maker"] = "act" THEN "nap" ELSE "decide")
  /\ UNCHANGED <<sharedVars, mountVars, taskVars>>

\* The maker wakes the collectors, the page collector the maker, the log collector
\* nobody.
Ring(th) ==
  /\ pc[th] \in {"ring", "ring again"}
  /\ CASE th = "maker" -> WakeCollectors
       [] th = "pages" -> WakeMaker
       [] th = "log" -> UNCHANGED waiting
  /\ Goto(th, IF pc[th] = "ring" THEN "nap" ELSE "decide")
  /\ UNCHANGED <<sharedVars, found, did, mountVars, taskVars, failures>>

\* The short sleep ends, by itself or by a wakeup.  Having done something the
\* thread starts over, else prepare_to_wait puts it on its wait queue.
Nap(th) ==
  /\ pc[th] = "nap"
  /\ IF did[th]
       THEN Goto(th, "top") /\ UNCHANGED waiting
       ELSE Goto(th, "look again") /\ waiting' = waiting \cup {th}
  /\ Forget(th)
  /\ UNCHANGED <<sharedVars, found, mountVars, taskVars, failures>>

\* Variant: kthread_should_stop is left to the loop.
DecideUnchecked(th) ==
  /\ pc[th] = "decide"
  /\ IF th = "maker" /\ did[th]
       THEN Goto(th, "top") /\ waiting' = waiting \ {th}
       ELSE Goto(th, "sleep") /\ UNCHANGED waiting
  /\ Forget(th)
  /\ UNCHANGED <<sharedVars, found, mountVars, taskVars, failures>>

\* Before it sleeps it looks whether it is to stop.  The maker does not sleep if
\* it just made a checkpoint; the collectors always do.
Decide(th) ==
  /\ pc[th] = "decide"
  /\ IF th \in should_stop \/ (th = "maker" /\ did[th])
       THEN /\ Goto(th, IF th \in should_stop THEN "gone" ELSE "top")
            /\ waiting' = waiting \ {th}
       ELSE Goto(th, "sleep") /\ UNCHANGED waiting
  /\ Forget(th)
  /\ UNCHANGED <<sharedVars, found, mountVars, taskVars, failures>>

\* schedule() returns once the thread was woken after prepare_to_wait.
Awake(th) ==
  /\ pc[th] = "sleep" /\ th \notin waiting
  /\ Goto(th, "top")
  /\ UNCHANGED <<sharedVars, found, did, waiting, mountVars, taskVars, failures>>

Spin(th) ==
  /\ pc[th] = "spin" /\ th \in should_stop
  /\ Goto(th, "gone")
  /\ UNCHANGED <<sharedVars, found, did, waiting, mountVars, taskVars, failures>>

Thread(th) ==
  \/ Begin(th) \/ GiveUp(th) \/ Look(th) \/ Act(th) \/ Ring(th)
  \/ Nap(th) \/ Decide(th) \/ Awake(th) \/ Spin(th)

-----------------------------------------------------------------------------
(* Mounting and unmounting *)

\* sivfs_init_background_work starts the next thread.
StartThread ==
  /\ mount = "start"
  /\ Goto(Head(queue), "new")
  /\ queue' = Tail(queue)
  /\ mount' = IF Tail(queue) = <<>> THEN "up" ELSE "start"
  /\ UNCHANGED <<sharedVars, found, did, waiting, should_stop, taskVars, failures>>

\* It cannot: the threads it started are stopped in reverse order.
StartFails ==
  /\ mount = "start" /\ Fails
  /\ mount' = "stop"
  /\ queue' = Started("log", "pages", "maker")
  /\ UNCHANGED <<sharedVars, threadVars, waiting, should_stop, taskVars>>

\* sivfs_destroy_background_work, once nobody uses the file system.
Unmount ==
  /\ mount = "up" /\ \A t \in Tasks : task[t] = "out"
  /\ mount' = "stop" /\ queue' = Started("maker", "pages", "log")
  /\ UNCHANGED <<sharedVars, threadVars, waiting, should_stop, taskVars, failures>>

\* kthread_stop, called by sivfs_bgt_stop, wakes the thread ...
StopThread ==
  /\ mount = "stop" /\ queue # <<>> /\ Head(queue) \notin should_stop
  /\ should_stop' = should_stop \cup {Head(queue)}
  /\ waiting' = waiting \ {Head(queue)}
  /\ UNCHANGED <<sharedVars, threadVars, mount, queue, taskVars, failures>>

\* ... and waits until it has returned.
Stopped ==
  /\ mount = "stop" /\ queue # <<>> /\ pc[Head(queue)] = "gone"
  /\ Head(queue) \in should_stop
  /\ queue' = Tail(queue)
  /\ UNCHANGED <<sharedVars, threadVars, waiting, should_stop, mount, taskVars, failures>>

Down ==
  /\ mount = "stop" /\ queue = <<>>
  /\ mount' = "down"
  /\ UNCHANGED <<sharedVars, threadVars, waiting, should_stop, queue, taskVars, failures>>

-----------------------------------------------------------------------------
(* Tasks: my_sivfs_commit_update as far as it concerns the threads *)

\* A task without a state gets one and takes its first snapshot; others move to a
\* newer checkpoint, if there is one, without having written anything.
Refresh(t) ==
  /\ mount = "up" /\ task[t] \in {"out", "idle"} /\ checkpoint_ts[t] # published
  /\ TaskGoto(t, "update")
  /\ UNCHANGED <<sharedVars, threadVars, waiting, mountVars, checkpoint_ts,
                 prior_checkpoint_ts, commit_ts, failures>>

\* sivfs_commit_changes makes the commit visible ...
Commit(t) ==
  /\ task[t] = "idle" /\ master_ts < MaxTs
  /\ master_ts' = master_ts + 1
  /\ log' = log \cup {master_ts + 1}
  /\ commit_ts' = [commit_ts EXCEPT ![t] = master_ts + 1]
  /\ TaskGoto(t, "committed")
  /\ UNCHANGED <<published, garbage, threadVars, waiting, mountVars, checkpoint_ts,
                 prior_checkpoint_ts, failures>>

\* ... and wakes the maker.
CommitWakes(t) ==
  /\ task[t] = "committed"
  /\ WakeMaker
  /\ TaskGoto(t, "throttle")
  /\ UNCHANGED <<sharedVars, threadVars, mountVars, checkpoint_ts, prior_checkpoint_ts,
                 commit_ts, failures>>

Throttled(t) == commit_ts[t] > published + MaxLag

\* Variant: the writer waits for checkpoints beyond its commit.
ContinueBeyond(t) ==
  /\ task[t] = "throttle" /\ commit_ts[t] + MaxLag <= published
  /\ TaskGoto(t, "update")
  /\ commit_ts' = [commit_ts EXCEPT ![t] = 0]
  /\ UNCHANGED <<sharedVars, threadVars, waiting, mountVars, checkpoint_ts,
                 prior_checkpoint_ts, failures>>

\* The writer is not, or no longer, throttled.
Continue(t) ==
  /\ task[t] = "throttle" /\ ~Throttled(t)
  /\ TaskGoto(t, "update")
  /\ commit_ts' = [commit_ts EXCEPT ![t] = 0]
  /\ UNCHANGED <<sharedVars, threadVars, waiting, mountVars, checkpoint_ts,
                 prior_checkpoint_ts, failures>>

\* Any signal gets it out.
Signalled(t) ==
  /\ task[t] = "throttle" /\ Throttled(t)
  /\ TaskGoto(t, "update")
  /\ commit_ts' = [commit_ts EXCEPT ![t] = 0]
  /\ UNCHANGED <<sharedVars, threadVars, waiting, mountVars, checkpoint_ts,
                 prior_checkpoint_ts, failures>>

\* The task checks out the latest checkpoint; it still holds the one before.
Take(t) ==
  /\ task[t] = "update"
  /\ checkpoint_ts' = [checkpoint_ts EXCEPT ![t] = published]
  /\ TaskGoto(t, "release")
  /\ UNCHANGED <<sharedVars, threadVars, waiting, mountVars, prior_checkpoint_ts,
                 commit_ts, failures>>

\* It lets go of that one, if it is another, ...
Release(t) ==
  /\ task[t] = "release"
  /\ prior_checkpoint_ts' = [prior_checkpoint_ts EXCEPT ![t] = checkpoint_ts[t]]
  /\ TaskGoto(t, IF prior_checkpoint_ts[t] = checkpoint_ts[t] THEN "idle" ELSE "released")
  /\ UNCHANGED <<sharedVars, threadVars, waiting, mountVars, checkpoint_ts, commit_ts, failures>>

\* sivfs_ioctl_txn_pause lets go of both.  Nobody is woken.
Pause(t) ==
  /\ task[t] = "idle" /\ (Pauses \/ checkpoint_ts[t] = published)
  /\ checkpoint_ts' = [checkpoint_ts EXCEPT ![t] = InvalidTs]
  /\ prior_checkpoint_ts' = [prior_checkpoint_ts EXCEPT ![t] = InvalidTs]
  /\ UNCHANGED <<sharedVars, threadVars, waiting, mountVars, task, commit_ts, failures>>

\* The last sivfs_put_task_state removes the state ...
Leave(t) ==
  /\ task[t] = "idle"
  /\ checkpoint_ts' = [checkpoint_ts EXCEPT ![t] = InvalidTs]
  /\ prior_checkpoint_ts' = [prior_checkpoint_ts EXCEPT ![t] = InvalidTs]
  /\ TaskGoto(t, "left")
  /\ UNCHANGED <<sharedVars, threadVars, waiting, mountVars, commit_ts, failures>>

\* ... and both wake the collectors.
ReleaseWakes(t) ==
  /\ task[t] \in {"released", "left"}
  /\ WakeCollectors
  /\ TaskGoto(t, IF task[t] = "left" THEN "out" ELSE "idle")
  /\ UNCHANGED <<sharedVars, threadVars, mountVars, checkpoint_ts, prior_checkpoint_ts,
                 commit_ts, failures>>

-----------------------------------------------------------------------------
Stopping == StopThread \/ Stopped \/ Down

\* What a task does once it is in a call.
InCall(t) == CommitWakes(t) \/ Continue(t) \/ Take(t) \/ Release(t) \/ ReleaseWakes(t)

Next ==
  \/ \E th \in Threads : Thread(th)
  \/ OutOfMemory
  \/ StartThread \/ StartFails \/ Unmount \/ Stopping
  \/ \E t \in Tasks : \/ InCall(t) \/ Refresh(t) \/ Commit(t) \/ Signalled(t)
                      \/ Pause(t) \/ Leave(t)

Spec == Init /\ [][Next]_vars

\* The scheduler runs threads and tasks that can run, timers go off, and a kthread
\* that is stopped is waited for.  Nobody has to commit, to leave or to unmount,
\* and no signal has to arrive.
FairSpec ==
  /\ Spec
  /\ \A th \in Threads : WF_vars(Thread(th))
  /\ \A t \in Tasks : WF_vars(InCall(t))
  /\ WF_vars(StartThread \/ Stopping)

-----------------------------------------------------------------------------
\* The shared timestamps, the pins, and the places of the threads in their loops and
\* of the tasks in their calls have their types.
TypeOK ==
  /\ master_ts \in Ts /\ published \in Ts
  /\ garbage \subseteq Ts /\ log \subseteq Ts
  /\ pc \in [Threads -> {"none", "new", "top", "act", "ring", "nap", "look again",
                         "act again", "ring again", "decide", "sleep", "spin", "gone"}]
  /\ found \in [Threads -> SUBSET Ts]
  /\ did \in [Threads -> BOOLEAN]
  /\ waiting \subseteq Threads /\ should_stop \subseteq Threads
  /\ mount \in {"start", "up", "stop", "down"}
  /\ task \in [Tasks -> {"out", "idle", "committed", "throttle", "update", "release",
                         "released", "left"}]
  /\ checkpoint_ts \in [Tasks -> Ts \cup {InvalidTs}]
  /\ prior_checkpoint_ts \in [Tasks -> Ts \cup {InvalidTs}]
  /\ commit_ts \in [Tasks -> Ts]
  /\ failures \in 0..MaxFailures

\* Somebody has made work for the thread and is about to wake it.
WakeupDue(th) ==
  IF th = "maker" THEN \E t \in Tasks : task[t] = "committed"
  ELSE \/ \E t \in Tasks : task[t] \in {"released", "left"}
       \/ pc["maker"] \in {"ring", "ring again"}

\* No wakeup is lost: a thread that sleeps has nothing to do, unless who made the
\* work is about to wake it.  (The state has its types.)
SleepsIdle ==
  /\ TypeOK
  /\ \A th \in Threads : pc[th] = "sleep" /\ th \in waiting => Work(th) = {} \/ WakeupDue(th)

\* A commit that is throttled goes on, also if memory ran out for a while, unless
\* the maker never came up.
WriterReturns ==
  \A t \in Tasks : task[t] = "throttle" ~> task[t] # "throttle" \/ pc["maker"] = "spin"

\* Once the tasks have made their commits the threads catch up, with nobody left to
\* wake them but each other: all commits get into a checkpoint, pages and log entries
\* that nobody uses are freed; unless the thread has given up, or the file system is
\* unmounted.
WorkIsDone ==
  \A th \in Threads :
    Work(th) # {} ~> Work(th) = {} \/ pc[th] \in {"none", "spin"} \/ mount # "up"

\* Unmounting, and mounting that fails, ends: no thread misses kthread_stop.
StopsAll == mount = "stop" ~> mount = "down"
==============================================================================
