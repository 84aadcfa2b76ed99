----------------------- MODULE BackgroundThreadsProofs -----------------------
(***************************************************************************)
(* Proof about BackgroundThreads: no wakeup is lost.                       *)
(***************************************************************************)
EXTENDS BackgroundThreads, TLAPS

\* Most leaves are logic, the others arithmetic.
USE ZenonT(5), SMTT(15)

-----------------------------------------------------------------------------
(* The inductive invariant *)

\* Checkpoints are made of commits, garbage is of older checkpoints.
SharedInv ==
  /\ published <= master_ts
  /\ \A g \in garbage : g < published

\* A thread has found something only between looking and acting; the maker then has
\* found commits that are in no checkpoint.
FoundInv ==
  /\ \A th \in Threads : pc[th] \notin {"act", "act again"} => found[th] = {}
  /\ found["maker"] # {} => \E m \in Ts : found["maker"] = {m} /\ published < m /\ m <= master_ts

Different(s) == \A i, j \in DOMAIN s : s[i] = s[j] => i = j

\* A thread is started once.
QueueInv ==
  /\ queue \in Seq(Threads)
  /\ mount = "start" => /\ queue # <<>> /\ Different(queue)
                        /\ \A i \in DOMAIN queue : pc[queue[i]] = "none"

\* A task holds a second checkpoint only while it moves from one to the other.
PinInv == \A t \in Tasks : task[t] # "release" => prior_checkpoint_ts[t] = checkpoint_ts[t]

\* A thread that was put on its wait queue and has looked again knows all that there is
\* to do, as long as it was not woken and nobody is about to wake it.  With pauses that
\* let go of old checkpoints this is only true of the maker.
AwareAt(th) ==
  /\ th \in waiting
  /\ th = "maker" \/ ~Pauses
  /\ pc[th] \in {"act again", "ring again", "decide", "sleep"}
  => Work(th) \subseteq found[th] \/ WakeupDue(th)

AwareInv == \A th \in Threads : AwareAt(th)

IInv == TypeOK /\ SharedInv /\ FoundInv /\ QueueInv /\ PinInv /\ AwareInv

Places == {"none", "new", "top", "act", "ring", "nap", "look again", "act again",
           "ring again", "decide", "sleep", "spin", "gone"}

-----------------------------------------------------------------------------
(* What there is to do *)

\* Timestamps are numbers, and failures are counted up to their bound.
LEMMA Numbers ==
  /\ 0 \in Ts /\ \A m \in Ts : m \in Nat
  /\ \A n \in 0..MaxFailures : n < MaxFailures => n + 1 \in 0..MaxFailures
<1>1. MaxTs \in Nat /\ MaxFailures \in Nat
  BY ThreadsAssumption
<1> QED  BY <1>1 DEF Ts

\* Order of numbers.
LEMMA Ordered ==
  /\ \A a, b \in Nat : a <= b /\ a # b => a < b
  /\ \A a \in Nat : a <= a
  /\ \A a, b, c \in Nat : /\ a < b /\ b <= c => a < c /\ a # c
                          /\ a <= b /\ b <= c => a <= c
OBVIOUS

\* What a sequence of threads contains.
LEMMA Element ==
  ASSUME NEW s \in Seq(Threads), NEW i \in DOMAIN s
  PROVE  s[i] \in Threads
OBVIOUS

\* The work of each thread.
LEMMA WorkIs ==
  /\ Work("maker") = IF master_ts = published THEN {} ELSE {master_ts}
  /\ Work("pages") = garbage \ Pins
  /\ Work("log") = {i \in log : \A v \in Pins \cup {published} : i < v}
BY DEF Work

\* What a thread finds are timestamps.
LEMMA WorkType ==
  ASSUME TypeOK, NEW th \in Threads
  PROVE  Work(th) \subseteq Ts
<1>1. master_ts \in Ts /\ garbage \subseteq Ts /\ log \subseteq Ts
  BY DEF TypeOK
<1>2. CASE th = "maker"
  BY <1>1, <1>2, WorkIs
<1>3. CASE th = "pages"
  BY <1>1, <1>3, WorkIs
<1>4. CASE th = "log"
  BY <1>1, <1>4, WorkIs
<1> QED  BY <1>2, <1>3, <1>4 DEF Threads

\* The work only depends on the shared state and on what the tasks hold.
LEMMA SameWork ==
  ASSUME UNCHANGED sharedVars, Pins' = Pins, NEW th \in Threads
  PROVE  Work(th)' = Work(th)
BY DEF Work, sharedVars

\* What the tasks hold depends on two variables.
LEMMA SamePins ==
  ASSUME UNCHANGED <<checkpoint_ts, prior_checkpoint_ts>>
  PROVE  Pins' = Pins
BY DEF Pins

-----------------------------------------------------------------------------
(* Steps of a thread that do not touch the shared state *)

\* A thread that only changes its place, what it found and whether it waits keeps the
\* invariant, if the maker leaves its wakeup only by giving it, and if the thread itself
\* knows its work before it can sleep.
LEMMA LocalStep ==
  ASSUME IInv, NEW th \in Threads, NEW to \in Places \ {"none"}, NEW fnd \in SUBSET Ts,
         UNCHANGED <<sharedVars, mountVars, taskVars>>,
         pc[th] # "none",
         pc' = [pc EXCEPT ![th] = to],
         found' = [found EXCEPT ![th] = fnd],
         did' \in [Threads -> BOOLEAN], failures' \in 0..MaxFailures,
         waiting' \subseteq waiting \cup {th},
         fnd # {} => to \in {"act", "act again"} /\ fnd = Work(th),
         th = "maker" /\ pc["maker"] \in {"ring", "ring again"} => waiting' \subseteq {"maker"},
         th \in waiting' /\ to \in {"act again", "ring again", "decide", "sleep"}
           => \/ th \in waiting /\ pc[th] \in {"act again", "ring again", "decide", "sleep"}
                 /\ found[th] = {}
              \/ Work(th) \subseteq fnd
  PROVE  IInv'
<1>1. TypeOK /\ SharedInv /\ FoundInv /\ QueueInv /\ PinInv /\ AwareInv
  BY DEF IInv
<1>2. /\ pc'[th] = to /\ found'[th] = fnd
      /\ \A x \in Threads \ {th} : pc'[x] = pc[x] /\ found'[x] = found[x]
  BY <1>1 DEF TypeOK
<1>3. pc' \in [Threads -> Places] /\ found' \in [Threads -> SUBSET Ts]
  BY <1>1 DEF TypeOK, Places
<1>4. waiting' \subseteq Threads
  BY <1>1 DEF TypeOK
<1>5. TypeOK'
  BY <1>1, <1>3, <1>4 DEF TypeOK, Places, sharedVars, mountVars, taskVars, Ts
<1>6. SharedInv' /\ PinInv'
  BY <1>1 DEF SharedInv, PinInv, sharedVars, taskVars
<1>7. QueueInv'
  <2>1. UNCHANGED <<mount, queue>>
    BY DEF mountVars
  <2>2. ASSUME mount = "start", NEW i \in DOMAIN queue  PROVE pc'[queue[i]] = "none"
    <3>1. queue \in Seq(Threads) /\ pc[queue[i]] = "none"
      BY <1>1, <2>2 DEF QueueInv
    <3>2. queue[i] \in Threads
      BY <3>1, Element
    <3> QED  BY <1>2, <3>1, <3>2
  <2> QED  BY <1>1, <2>1, <2>2 DEF QueueInv
<1>8. Pins' = Pins
  BY SamePins DEF taskVars
<1>9. \A x \in Threads : Work(x)' = Work(x)
  BY <1>8, SameWork
<1>10. FoundInv'
  <2>1. ASSUME NEW x \in Threads, pc'[x] \notin {"act", "act again"}  PROVE found'[x] = {}
    BY <1>1, <1>2, <2>1 DEF FoundInv
  <2>2. ASSUME found'["maker"] # {}
        PROVE  \E m \in Ts : found'["maker"] = {m} /\ published' < m /\ m <= master_ts'
    <3>1. CASE th = "maker"
      <4>1. fnd = {master_ts} /\ master_ts # published
        BY <1>2, <2>2, <3>1, WorkIs
      <4>2. master_ts \in Ts /\ published < master_ts /\ master_ts <= master_ts
        <5>1. master_ts \in Ts /\ master_ts \in Nat /\ published \in Nat /\ published <= master_ts
          BY <1>1, Numbers DEF TypeOK, SharedInv
        <5> QED  BY <4>1, <5>1, Ordered
      <4> QED  BY <1>2, <3>1, <4>1, <4>2 DEF sharedVars
    <3>2. CASE th # "maker"
      <4>1. found'["maker"] = found["maker"]
        BY <1>2, <3>2 DEF Threads
      <4> QED  BY <1>1, <2>2, <4>1 DEF FoundInv, sharedVars
    <3> QED  BY <3>1, <3>2
  <2> QED  BY <2>1, <2>2 DEF FoundInv
<1>11. ASSUME NEW x \in Threads PROVE AwareAt(x)'
  <2> SUFFICES ASSUME x \in waiting', x = "maker" \/ ~Pauses,
                      pc'[x] \in {"act again", "ring again", "decide", "sleep"}
               PROVE  Work(x) \subseteq found'[x] \/ WakeupDue(x)'
    BY <1>9 DEF AwareAt
  <2>1. WakeupDue(x) => WakeupDue(x)'
    <3>1. CASE x = "maker"
      BY <3>1 DEF WakeupDue, taskVars
    <3>2. CASE x # "maker" /\ th # "maker"
      <4>1. pc'["maker"] = pc["maker"]
        BY <1>2, <3>2 DEF Threads
      <4> QED  BY <3>2, <4>1 DEF WakeupDue, taskVars
    <3>3. CASE x # "maker" /\ th = "maker"
      <4>1. pc["maker"] \notin {"ring", "ring again"}
        BY <3>3
      <4> QED  BY <3>3, <4>1 DEF WakeupDue, taskVars
    <3> QED  BY <3>1, <3>2, <3>3
  <2>2. CASE x # th
    BY <1>1, <1>2, <2>1, <2>2 DEF AwareInv, AwareAt
  <2>3. CASE x = th
    BY <1>1, <1>2, <2>1, <2>3 DEF AwareInv, AwareAt
  <2> QED  BY <2>2, <2>3
<1> QED  BY <1>5, <1>6, <1>7, <1>10, <1>11 DEF IInv, AwareInv

\* Every step of a thread other than acting keeps the invariant.
LEMMA ThreadStep ==
  ASSUME IInv, NEW th \in Threads,
         \/ Begin(th) \/ GiveUp(th) \/ Look(th) \/ Ring(th) \/ Nap(th) \/ Decide(th)
         \/ Awake(th) \/ Spin(th)
  PROVE  IInv'
<1>1. TypeOK /\ FoundInv
  BY DEF IInv
<1>2. /\ found[th] \in SUBSET Ts /\ found = [found EXCEPT ![th] = found[th]]
      /\ did[th] \in BOOLEAN
      /\ \A b \in BOOLEAN : [did EXCEPT ![th] = b] \in [Threads -> BOOLEAN]
      /\ did \in [Threads -> BOOLEAN] /\ failures \in 0..MaxFailures
  BY <1>1 DEF TypeOK
<1>3. pc[th] \notin {"act", "act again"} => found[th] = {}
  BY <1>1 DEF FoundInv
<1>4. {} \in SUBSET Ts
  OBVIOUS
<1>5. CASE Begin(th)
  <2> DEFINE to == IF th \in should_stop THEN "gone" ELSE "top"
  <2>1. /\ UNCHANGED <<sharedVars, mountVars, taskVars>> /\ pc[th] = "new"
        /\ pc' = [pc EXCEPT ![th] = to] /\ to \in Places \ {"none"}
        /\ to \notin {"act again", "ring again", "decide", "sleep"}
        /\ found' = found /\ did' = did /\ failures' = failures /\ waiting' = waiting
    BY <1>5 DEF Begin, Goto, Places
  <2> HIDE DEF to
  <2> QED  BY <1>2, <1>3, <1>4, <2>1, LocalStep
<1>6. CASE GiveUp(th)
  <2>1. /\ UNCHANGED <<sharedVars, mountVars, taskVars>> /\ pc[th] \in {"new", "top", "look again"}
        /\ pc' = [pc EXCEPT ![th] = "spin"] /\ "spin" \in Places \ {"none"}
        /\ found' = found /\ did' = did /\ failures < MaxFailures /\ failures' = failures + 1
        /\ waiting' \subseteq waiting
    BY <1>6 DEF GiveUp, Goto, Places, Fails
  <2>2. failures' \in 0..MaxFailures
    BY <1>2, <2>1, Numbers
  <2> QED  BY <1>2, <1>3, <1>4, <2>1, <2>2, LocalStep
<1>7. CASE Look(th)
  <2>1. /\ UNCHANGED <<sharedVars, mountVars, taskVars>> /\ pc[th] \in {"top", "look again"}
        /\ did' = did /\ failures' = failures /\ waiting' = waiting
    BY <1>7 DEF Look
  <2>2. CASE pc[th] = "top" /\ th \in should_stop
    <3>1. pc' = [pc EXCEPT ![th] = "gone"] /\ "gone" \in Places \ {"none"} /\ found' = found
      BY <1>7, <2>2 DEF Look, Goto, Places
    <3> QED  BY <1>2, <1>3, <1>4, <2>1, <3>1, LocalStep
  <2>3. CASE ~(pc[th] = "top" /\ th \in should_stop)
    <3> DEFINE to == IF pc[th] = "top" THEN "act" ELSE "act again"
    <3>1. /\ pc' = [pc EXCEPT ![th] = to] /\ to \in Places \ {"none"} /\ to \in {"act", "act again"}
          /\ found' = [found EXCEPT ![th] = Work(th)]
      BY <1>7, <2>3 DEF Look, Goto, Places
    <3>2. Work(th) \in SUBSET Ts
      BY <1>1, WorkType
    <3> HIDE DEF to
    <3> QED  BY <1>2, <2>1, <3>1, <3>2, LocalStep
  <2> QED  BY <2>2, <2>3
<1>8. CASE Ring(th)
  <2> DEFINE to == IF pc[th] = "ring" THEN "nap" ELSE "decide"
  <2>1. /\ UNCHANGED <<sharedVars, mountVars, taskVars>> /\ pc[th] \in {"ring", "ring again"}
        /\ pc' = [pc EXCEPT ![th] = to] /\ to \in Places \ {"none"} /\ to \notin {"act", "act again"}
        /\ to \in {"act again", "ring again", "decide", "sleep"} => pc[th] = "ring again"
        /\ found' = found /\ did' = did /\ failures' = failures
    BY <1>8 DEF Ring, Goto, Places
  <2>2. waiting' \subseteq waiting /\ (th = "maker" => waiting' \subseteq {"maker"})
    <3>1. waiting \subseteq {"maker", "pages", "log"}
      BY <1>1 DEF TypeOK, Threads
    <3>2. CASE th = "maker"
      BY <1>8, <3>1, <3>2 DEF Ring, WakeCollectors
    <3>3. CASE th = "pages"
      BY <1>8, <3>3 DEF Ring, WakeMaker
    <3>4. CASE th = "log"
      BY <1>8, <3>4 DEF Ring
    <3> QED  BY <3>2, <3>3, <3>4 DEF Threads
  <2> HIDE DEF to
  <2> QED  BY <1>2, <1>3, <1>4, <2>1, <2>2, LocalStep
<1>9. CASE Nap(th)
  <2>1. /\ UNCHANGED <<sharedVars, mountVars, taskVars>> /\ pc[th] = "nap"
        /\ found' = found /\ did' = [did EXCEPT ![th] = FALSE] /\ failures' = failures
        /\ waiting' \subseteq waiting \cup {th}
    BY <1>9 DEF Nap, Forget
  <2>2. PICK to \in {"top", "look again"} : pc' = [pc EXCEPT ![th] = to]
    BY <1>9 DEF Nap, Goto
  <2>3. to \in Places \ {"none"} /\ to \notin {"act again", "ring again", "decide", "sleep"}
    BY DEF Places
  <2> QED  BY <1>2, <1>3, <1>4, <2>1, <2>2, <2>3, LocalStep
<1>10. CASE Decide(th)
  <2>1. /\ UNCHANGED <<sharedVars, mountVars, taskVars>> /\ pc[th] = "decide"
        /\ found' = found /\ did' = [did EXCEPT ![th] = FALSE] /\ failures' = failures
        /\ waiting' \subseteq waiting
    BY <1>10 DEF Decide, Forget
  <2>2. PICK to \in {"gone", "top", "sleep"} : pc' = [pc EXCEPT ![th] = to]
    BY <1>10 DEF Decide, Goto
  <2>3. to \in Places \ {"none"}
    BY DEF Places
  <2> QED  BY <1>2, <1>3, <1>4, <2>1, <2>2, <2>3, LocalStep
<1>11. CASE Awake(th) \/ Spin(th)
  <2>1. /\ UNCHANGED <<sharedVars, mountVars, taskVars>> /\ pc[th] \in {"sleep", "spin"}
        /\ found' = found /\ did' = did /\ failures' = failures /\ waiting' = waiting
    BY <1>11 DEF Awake, Spin
  <2>2. PICK to \in {"gone", "top"} : pc' = [pc EXCEPT ![th] = to]
    BY <1>11 DEF Awake, Spin, Goto
  <2>3. to \in Places \ {"none"}
    BY DEF Places
  <2> QED  BY <1>2, <1>3, <1>4, <2>1, <2>2, <2>3, LocalStep
<1> QED  BY <1>5, <1>6, <1>7, <1>8, <1>9, <1>10, <1>11

\* The maker that cannot have the memory keeps the invariant: it will not sleep.
LEMMA OutOfMemoryStep ==
  ASSUME IInv, OutOfMemory
  PROVE  IInv'
<1>1. TypeOK /\ "maker" \in Threads
  BY DEF IInv, Threads
<1>2. /\ UNCHANGED <<sharedVars, mountVars, taskVars>> /\ pc["maker"] \in {"act", "act again"}
      /\ found' = [found EXCEPT !["maker"] = {}] /\ did' = [did EXCEPT !["maker"] = FALSE]
      /\ failures < MaxFailures /\ failures' = failures + 1 /\ waiting' = waiting \ {"maker"}
  BY DEF OutOfMemory, Fails
<1>3. PICK to \in {"nap", "decide"} : pc' = [pc EXCEPT !["maker"] = to]
  BY DEF OutOfMemory, Goto
<1>4. to \in Places \ {"none"} /\ {} \in SUBSET Ts
  BY DEF Places
<1>5. failures' \in 0..MaxFailures /\ did' \in [Threads -> BOOLEAN]
  BY <1>1, <1>2, Numbers DEF TypeOK
<1> QED  BY <1>1, <1>2, <1>3, <1>4, <1>5, LocalStep

-----------------------------------------------------------------------------
(* Acting *)

\* Where a thread goes after it did what it found.
LEMMA ActGoes ==
  ASSUME IInv, NEW th \in Threads, Act(th), found[th] # {}
  PROVE  /\ UNCHANGED <<master_ts, waiting, mountVars, taskVars, failures>> /\ Done(th)
         /\ pc' \in [Threads -> Places] /\ found' \in [Threads -> SUBSET Ts] /\ did' \in [Threads -> BOOLEAN]
         /\ pc[th] \in {"act", "act again"}
         /\ pc'[th] = IF pc[th] = "act" THEN "ring" ELSE "ring again"
         /\ found'[th] = {}
         /\ \A x \in Threads \ {th} : pc'[x] = pc[x] /\ found'[x] = found[x]
         /\ QueueInv' /\ PinInv' /\ Pins' = Pins
         /\ \A x \in Threads : pc'[x] \notin {"act", "act again"} => found'[x] = {}
<1>1. TypeOK /\ FoundInv /\ QueueInv /\ PinInv
  BY DEF IInv
<1> DEFINE to == IF pc[th] = "act" THEN "ring" ELSE "ring again"
<1>2. /\ UNCHANGED <<master_ts, waiting, mountVars, taskVars, failures>> /\ Done(th)
      /\ pc[th] \in {"act", "act again"}
      /\ pc' = [pc EXCEPT ![th] = to] /\ to \in Places
      /\ found' = [found EXCEPT ![th] = {}]
      /\ did' = [did EXCEPT ![th] = TRUE]
  BY DEF Act, Goto, Places
<1>3. /\ pc'[th] = to /\ found'[th] = {}
      /\ \A x \in Threads \ {th} : pc'[x] = pc[x] /\ found'[x] = found[x]
  BY <1>1, <1>2 DEF TypeOK
<1>4. pc' \in [Threads -> Places] /\ found' \in [Threads -> SUBSET Ts] /\ did' \in [Threads -> BOOLEAN]
  BY <1>1, <1>2 DEF TypeOK, Places
<1>5. QueueInv'
  <2>1. UNCHANGED <<mount, queue>>
    BY <1>2 DEF mountVars
  <2>2. ASSUME mount = "start", NEW i \in DOMAIN queue  PROVE pc'[queue[i]] = "none"
    <3>1. queue \in Seq(Threads) /\ pc[queue[i]] = "none"
      BY <1>1, <2>2 DEF QueueInv
    <3>2. queue[i] \in Threads
      BY <3>1, Element
    <3> QED  BY <1>2, <1>3, <3>1, <3>2
  <2> QED  BY <1>1, <2>1, <2>2 DEF QueueInv
<1>6. PinInv' /\ Pins' = Pins
  BY <1>1, <1>2, SamePins DEF PinInv, taskVars
<1>7. \A x \in Threads : pc'[x] \notin {"act", "act again"} => found'[x] = {}
  BY <1>1, <1>3 DEF FoundInv
<1> QED  BY <1>2, <1>3, <1>4, <1>5, <1>6, <1>7

\* The checkpoint is one of what was found.
LEMMA Chosen ==
  ASSUME NEW m
  PROVE  (CHOOSE i \in {m} : TRUE) = m
OBVIOUS

\* The maker publishes: the collectors have work, and it is about to wake them.
LEMMA MakerActs ==
  ASSUME IInv, Act("maker"), found["maker"] # {}
  PROVE  IInv'
<1>1. TypeOK /\ SharedInv /\ FoundInv /\ AwareInv /\ "maker" \in Threads
  BY DEF IInv, Threads
<1>2. PICK m \in Ts : found["maker"] = {m} /\ published < m /\ m <= master_ts
  BY <1>1 DEF FoundInv
<1>3. /\ UNCHANGED <<master_ts, waiting, mountVars, taskVars, failures>> /\ Done("maker")
      /\ pc' \in [Threads -> Places] /\ found' \in [Threads -> SUBSET Ts] /\ did' \in [Threads -> BOOLEAN]
      /\ pc["maker"] \in {"act", "act again"}
      /\ pc'["maker"] = IF pc["maker"] = "act" THEN "ring" ELSE "ring again"
      /\ found'["maker"] = {} /\ QueueInv' /\ PinInv'
      /\ \A x \in Threads : pc'[x] \notin {"act", "act again"} => found'[x] = {}
  BY <1>1, ActGoes
<1>4. published' = m /\ garbage' = garbage \cup {published} /\ log' = log
  BY <1>2, <1>3, Chosen DEF Done
<1>5. TypeOK'
  <2>1. published' \in Ts /\ garbage' \subseteq Ts
    BY <1>1, <1>4 DEF TypeOK
  <2> QED  BY <1>1, <1>3, <1>4, <2>1 DEF TypeOK, Places, mountVars, taskVars, Ts
<1>6. m \in Nat /\ published \in Nat /\ master_ts \in Nat /\ \A g \in garbage : g \in Nat
  BY <1>1, Numbers DEF TypeOK
<1>7. SharedInv'
  <2>1. \A g \in garbage : g < m
    <3>1. \A g \in garbage : g < published /\ published <= m
      BY <1>1, <1>2, <1>6 DEF SharedInv
    <3> QED  BY <1>6, <3>1, Ordered
  <2> QED  BY <1>2, <1>3, <1>4, <2>1 DEF SharedInv
<1>8. FoundInv'
  BY <1>3 DEF FoundInv
<1>9. ASSUME NEW x \in Threads PROVE AwareAt(x)'
  <2>1. CASE x # "maker"
    BY <1>3, <2>1 DEF AwareAt, WakeupDue
  <2>2. CASE x = "maker"
    <3> SUFFICES ASSUME "maker" \in waiting', pc'["maker"] = "ring again"
                 PROVE  Work("maker")' \subseteq {} \/ WakeupDue("maker")'
      BY <1>3, <2>2 DEF AwareAt
    <3>1. Work("maker") \subseteq {m} \/ WakeupDue("maker")
      BY <1>1, <1>2, <1>3 DEF AwareInv, AwareAt
    <3>2. Work("maker") = {master_ts}
      <4>1. master_ts # published
        BY <1>2, <1>6, Ordered
      <4> QED  BY <4>1, WorkIs
    <3>3. CASE master_ts = m
      BY <1>3, <1>4, <3>3 DEF Work
    <3>4. CASE WakeupDue("maker")
      BY <1>3, <3>4 DEF WakeupDue, taskVars
    <3> QED  BY <3>1, <3>2, <3>3, <3>4
  <2> QED  BY <2>1, <2>2
<1> QED  BY <1>3, <1>5, <1>7, <1>8, <1>9 DEF IInv, AwareInv

\* A collector frees what it found: that was all, or somebody is about to wake it.
LEMMA CollectorActs ==
  ASSUME IInv, NEW th \in {"pages", "log"}, Act(th), found[th] # {}
  PROVE  IInv'
<1>1. TypeOK /\ SharedInv /\ FoundInv /\ AwareInv /\ th \in Threads /\ "maker" \in Threads \ {th}
  BY DEF IInv, Threads
<1>2. /\ UNCHANGED <<master_ts, waiting, mountVars, taskVars, failures>> /\ Done(th)
      /\ pc' \in [Threads -> Places] /\ found' \in [Threads -> SUBSET Ts] /\ did' \in [Threads -> BOOLEAN]
      /\ pc[th] \in {"act", "act again"}
      /\ pc'[th] = IF pc[th] = "act" THEN "ring" ELSE "ring again"
      /\ found'[th] = {}
      /\ \A x \in Threads \ {th} : pc'[x] = pc[x] /\ found'[x] = found[x]
      /\ QueueInv' /\ PinInv' /\ Pins' = Pins
      /\ \A x \in Threads : pc'[x] \notin {"act", "act again"} => found'[x] = {}
  BY <1>1, ActGoes
<1>3. /\ published' = published
      /\ garbage' = (IF th = "pages" THEN garbage \ found[th] ELSE garbage)
      /\ log' = (IF th = "log" THEN log \ found[th] ELSE log)
  BY <1>2 DEF Done
<1>4. TypeOK'
  BY <1>1, <1>2, <1>3 DEF TypeOK, Places, mountVars, taskVars, Ts
<1>5. SharedInv'
  BY <1>1, <1>2, <1>3 DEF SharedInv
<1>6. FoundInv'
  <2>1. found'["maker"] = found["maker"]
    BY <1>1, <1>2
  <2> QED  BY <1>1, <1>2, <1>3, <2>1 DEF FoundInv
<1>7. ASSUME NEW x \in Threads PROVE AwareAt(x)'
  <2>1. WakeupDue(x)' = WakeupDue(x)
    BY <1>1, <1>2 DEF WakeupDue, taskVars
  <2>2. CASE x # th
    <3>1. Work(x)' = Work(x)
      BY <1>2, <1>3, <2>2 DEF Work, Threads
    <3>2. pc'[x] = pc[x] /\ found'[x] = found[x] /\ waiting' = waiting
      BY <1>2, <2>2
    <3> QED  BY <1>1, <2>1, <3>1, <3>2 DEF AwareInv, AwareAt
  <2>3. CASE x = th
    <3>1. Work(th)' = Work(th) \ found[th]
      <4>1. CASE th = "pages"
        BY <1>2, <1>3, <4>1 DEF Work
      <4>2. CASE th = "log"
        BY <1>2, <1>3, <4>2 DEF Work
      <4> QED  BY <4>1, <4>2
    <3> QED  BY <1>1, <1>2, <2>1, <2>3, <3>1 DEF AwareInv, AwareAt
  <2> QED  BY <2>2, <2>3
<1> QED  BY <1>2, <1>4, <1>5, <1>6, <1>7 DEF IInv, AwareInv

\* Having found nothing, a thread only goes on.
LEMMA IdleActs ==
  ASSUME IInv, NEW th \in Threads, Act(th), found[th] = {}
  PROVE  IInv'
<1>1. TypeOK
  BY DEF IInv
<1> DEFINE to == IF pc[th] = "act" THEN "nap" ELSE "decide"
<1>2. /\ UNCHANGED <<sharedVars, mountVars, taskVars>> /\ pc[th] \in {"act", "act again"}
      /\ pc' = [pc EXCEPT ![th] = to] /\ to \in Places \ {"none"}
      /\ to \in {"decide", "nap"}
      /\ to = "decide" => pc[th] = "act again"
      /\ found' = [found EXCEPT ![th] = {}] /\ did' = [did EXCEPT ![th] = FALSE]
      /\ failures' = failures /\ waiting' = waiting
  BY DEF Act, Goto, Places
<1>3. did' \in [Threads -> BOOLEAN] /\ failures' \in 0..MaxFailures /\ {} \in SUBSET Ts
  BY <1>1, <1>2 DEF TypeOK
<1> HIDE DEF to
<1> QED  BY <1>2, <1>3, LocalStep

-----------------------------------------------------------------------------
(* Mounting and unmounting *)

\* The first of different threads is none of the others.
LEMMA HeadApart ==
  ASSUME queue \in Seq(Threads), queue # <<>>, Different(queue)
  PROVE  /\ Head(queue) \in Threads /\ Tail(queue) \in Seq(Threads) /\ Different(Tail(queue))
         /\ Head(queue) = queue[1] /\ 1 \in DOMAIN queue
         /\ \A i \in DOMAIN Tail(queue) : /\ Tail(queue)[i] # Head(queue)
                                          /\ \E j \in DOMAIN queue : Tail(queue)[i] = queue[j]
<1>1. Len(queue) \in Nat /\ Len(queue) >= 1 /\ DOMAIN queue = 1..Len(queue)
  OBVIOUS
<1>2. /\ Tail(queue) \in Seq(Threads) /\ DOMAIN Tail(queue) = 1..(Len(queue) - 1)
      /\ \A i \in DOMAIN Tail(queue) : Tail(queue)[i] = queue[i + 1]
  BY <1>1
<1>3. \A i, j \in DOMAIN queue : queue[i] = queue[j] => i = j
  BY DEF Different
<1>4. \A i \in DOMAIN Tail(queue) : i \in Nat /\ i # 0 /\ i + 1 \in DOMAIN queue
  BY <1>1, <1>2
<1>5. Head(queue) = queue[1] /\ 1 \in DOMAIN queue /\ Head(queue) \in Threads
  BY <1>1
<1>6. Different(Tail(queue))
  <2>1. \A i, j \in DOMAIN Tail(queue) : Tail(queue)[i] = Tail(queue)[j] => i = j
    BY <1>2, <1>3, <1>4
  <2> QED  BY <2>1 DEF Different
<1>7. ASSUME NEW i \in DOMAIN Tail(queue)  PROVE Tail(queue)[i] # Head(queue)
  BY <1>2, <1>3, <1>4, <1>5
<1> QED  BY <1>2, <1>4, <1>5, <1>6, <1>7

\* Starting a thread keeps the invariant: nobody waits for one that did not run.
LEMMA StartStep ==
  ASSUME IInv, StartThread
  PROVE  IInv'
<1>1. TypeOK /\ SharedInv /\ FoundInv /\ QueueInv /\ PinInv /\ AwareInv
  BY DEF IInv
<1> DEFINE th == Head(queue)
<1>2. /\ mount = "start" /\ pc' = [pc EXCEPT ![th] = "new"] /\ queue' = Tail(queue)
      /\ mount' = (IF Tail(queue) = <<>> THEN "up" ELSE "start")
      /\ UNCHANGED <<sharedVars, found, did, waiting, should_stop, taskVars, failures>>
  BY DEF StartThread, Goto
<1>3. /\ queue \in Seq(Threads) /\ queue # <<>> /\ Different(queue)
      /\ \A i \in DOMAIN queue : pc[queue[i]] = "none"
  BY <1>1, <1>2 DEF QueueInv
<1>4. /\ th \in Threads /\ Tail(queue) \in Seq(Threads) /\ Different(Tail(queue))
      /\ pc[th] = "none"
      /\ \A i \in DOMAIN Tail(queue) : Tail(queue)[i] # th /\ pc[Tail(queue)[i]] = "none"
  BY <1>3, HeadApart
<1> HIDE DEF th
<1>5. /\ pc' \in [Threads -> Places] /\ pc'[th] = "new"
      /\ \A x \in Threads \ {th} : pc'[x] = pc[x]
  BY <1>1, <1>2, <1>4 DEF TypeOK, Places
<1>6. TypeOK'
  BY <1>1, <1>2, <1>5 DEF TypeOK, Places, sharedVars, taskVars, Ts
<1>7. SharedInv' /\ PinInv'
  BY <1>1, <1>2 DEF SharedInv, PinInv, sharedVars, taskVars
<1>8. FoundInv'
  BY <1>1, <1>2, <1>4, <1>5 DEF FoundInv, sharedVars
<1>9. QueueInv'
  <2>1. ASSUME NEW i \in DOMAIN Tail(queue)  PROVE pc'[Tail(queue)[i]] = "none"
    <3>1. Tail(queue)[i] \in Threads \ {th} /\ pc[Tail(queue)[i]] = "none"
      BY <1>4
    <3> QED  BY <1>5, <3>1
  <2> QED  BY <1>2, <1>4, <2>1 DEF QueueInv
<1>10. ASSUME NEW x \in Threads PROVE AwareAt(x)'
  <2>1. Work(x)' = Work(x)
    BY <1>2, SameWork, SamePins DEF taskVars
  <2>2. WakeupDue(x) => WakeupDue(x)'
    <3>1. pc["maker"] \in {"ring", "ring again"} => pc'["maker"] = pc["maker"]
      BY <1>4, <1>5 DEF Threads
    <3> QED  BY <1>2, <3>1 DEF WakeupDue, taskVars
  <2>3. CASE x = th
    BY <1>5, <2>3 DEF AwareAt
  <2>4. CASE x # th
    <3>1. pc'[x] = pc[x] /\ found'[x] = found[x] /\ waiting' = waiting
      BY <1>2, <1>5, <2>4
    <3> QED  BY <1>1, <2>1, <2>2, <3>1 DEF AwareInv, AwareAt
  <2> QED  BY <2>3, <2>4
<1> QED  BY <1>6, <1>7, <1>8, <1>9, <1>10 DEF IInv, AwareInv

\* The threads that exist are a sequence of threads.
LEMMA StartedType ==
  ASSUME NEW a \in Threads, NEW b \in Threads, NEW c \in Threads
  PROVE  Started(a, b, c) \in Seq(Threads)
<1> DEFINE one(th) == IF pc[th] = "none" THEN <<>> ELSE <<th>>
<1>1. ASSUME NEW th \in Threads PROVE one(th) \in Seq(Threads)
  OBVIOUS
<1>2. Started(a, b, c) = one(a) \o one(b) \o one(c)
  BY DEF Started
<1>3. one(a) \in Seq(Threads) /\ one(b) \in Seq(Threads) /\ one(c) \in Seq(Threads)
  BY <1>1
<1> HIDE DEF one
<1> QED  BY <1>2, <1>3

\* So do the steps of stopping, which wake threads and do nothing else to them.
LEMMA StopStep ==
  ASSUME IInv, StartFails \/ Unmount \/ Stopping
  PROVE  IInv'
<1>1. TypeOK /\ SharedInv /\ FoundInv /\ QueueInv /\ PinInv /\ AwareInv
  BY DEF IInv
<1>2. /\ UNCHANGED <<sharedVars, threadVars, taskVars>> /\ waiting' \subseteq waiting
      /\ mount # "start" \/ mount' = "stop"
      /\ mount' \in {"stop", "down"}
  BY <1>1 DEF StartFails, Unmount, Stopping, StopThread, Stopped, Down, TypeOK
<1>3. failures' \in 0..MaxFailures
  <2>1. failures' = failures \/ (failures < MaxFailures /\ failures' = failures + 1)
    BY DEF StartFails, Fails, Unmount, Stopping, StopThread, Stopped, Down
  <2> QED  BY <1>1, <2>1, Numbers DEF TypeOK
<1>4. should_stop' \subseteq Threads
  <2>1. CASE StopThread
    <3>1. should_stop' = should_stop \cup {Head(queue)} /\ Head(queue) \in Threads
      BY <1>1, <2>1 DEF StopThread, QueueInv
    <3> QED  BY <1>1, <3>1 DEF TypeOK
  <2> QED  BY <1>1, <2>1 DEF StartFails, Unmount, Stopping, Stopped, Down, TypeOK
<1>8. queue' \in Seq(Threads)
  <2>1. CASE StartFails
    BY <2>1, StartedType DEF StartFails, Threads
  <2>2. CASE Unmount
    BY <2>2, StartedType DEF Unmount, Threads
  <2>3. CASE Stopped
    <3>1. queue # <<>> /\ queue' = Tail(queue)
      BY <2>3 DEF Stopped
    <3> QED  BY <1>1, <3>1 DEF QueueInv
  <2>4. CASE StopThread \/ Down
    BY <1>1, <2>4 DEF StopThread, Down, QueueInv
  <2> QED  BY <2>1, <2>2, <2>3, <2>4 DEF Stopping
<1>5. TypeOK'
  BY <1>1, <1>2, <1>3, <1>4 DEF TypeOK, sharedVars, threadVars, taskVars, Ts
<1>6. SharedInv' /\ PinInv' /\ FoundInv' /\ QueueInv'
  BY <1>1, <1>2, <1>8 DEF SharedInv, PinInv, FoundInv, QueueInv, sharedVars, taskVars, threadVars
<1>7. ASSUME NEW x \in Threads PROVE AwareAt(x)'
  <2>1. Work(x)' = Work(x)
    BY <1>2, SameWork, SamePins DEF taskVars
  <2>2. WakeupDue(x)' = WakeupDue(x)
    BY <1>2 DEF WakeupDue, taskVars, threadVars
  <2> QED  BY <1>1, <1>2, <2>1, <2>2 DEF AwareInv, AwareAt, threadVars
<1> QED  BY <1>5, <1>6, <1>7 DEF IInv, AwareInv

-----------------------------------------------------------------------------
(* Tasks *)

\* A step that moves no thread keeps AwareInv if every thread that still waits has no new
\* work and loses no wakeup, or is about to be woken.
LEMMA AwareStep ==
  ASSUME AwareInv, UNCHANGED threadVars, waiting' \subseteq waiting,
         \A x \in waiting' : x = "maker" \/ ~Pauses =>
           \/ Work(x)' \subseteq Work(x) /\ (WakeupDue(x) => WakeupDue(x)')
           \/ WakeupDue(x)'
  PROVE  AwareInv'
BY DEF AwareInv, AwareAt, threadVars

\* The place of a task that is no wakeup, before or after, does not matter.
LEMMA SameDue ==
  ASSUME TypeOK, NEW t \in Tasks, NEW to, task' = [task EXCEPT ![t] = to], UNCHANGED threadVars,
         NEW x \in Threads,
         x = "maker" => task[t] # "committed",
         x # "maker" => task[t] \notin {"released", "left"}
  PROVE  WakeupDue(x) => WakeupDue(x)'
<1>1. \A u \in Tasks \ {t} : task'[u] = task[u]
  BY DEF TypeOK
<1> QED  BY <1>1 DEF WakeupDue, threadVars

\* What the other parts of the invariant need of a step of a task.
LEMMA TaskStep ==
  ASSUME IInv, NEW t \in Tasks, UNCHANGED <<published, garbage, threadVars, mountVars, failures>>,
         waiting' \subseteq waiting,
         master_ts' \in Ts, master_ts <= master_ts', log' \subseteq Ts,
         task' \in [Tasks -> {"out", "idle", "committed", "throttle", "update", "release",
                              "released", "left"}],
         checkpoint_ts' \in [Tasks -> Ts \cup {InvalidTs}],
         prior_checkpoint_ts' \in [Tasks -> Ts \cup {InvalidTs}],
         commit_ts' \in [Tasks -> Ts],
         \A u \in Tasks \ {t} : /\ task'[u] = task[u] /\ checkpoint_ts'[u] = checkpoint_ts[u]
                                /\ prior_checkpoint_ts'[u] = prior_checkpoint_ts[u],
         task'[t] # "release" => prior_checkpoint_ts'[t] = checkpoint_ts'[t],
         \A x \in waiting' : x = "maker" \/ ~Pauses =>
           \/ Work(x)' \subseteq Work(x) /\ (WakeupDue(x) => WakeupDue(x)')
           \/ WakeupDue(x)'
  PROVE  IInv'
<1>1. TypeOK /\ SharedInv /\ FoundInv /\ QueueInv /\ PinInv /\ AwareInv
  BY DEF IInv
<1>2. TypeOK'
  BY <1>1 DEF TypeOK, threadVars, mountVars, Ts
<1>3. /\ published \in Nat /\ master_ts \in Nat /\ master_ts' \in Nat
      /\ \A m \in Ts : m \in Nat
  BY <1>1, Numbers DEF TypeOK
<1>4. SharedInv'
  BY <1>1, <1>3 DEF SharedInv
<1>5. FoundInv'
  <2>1. /\ UNCHANGED <<pc, found, published>>
        /\ \A m \in Ts : m <= master_ts => m <= master_ts'
    BY <1>3, Ordered DEF threadVars
  <2> QED  BY <1>1, <2>1 DEF FoundInv, Ts
<1>6. QueueInv'
  BY <1>1 DEF QueueInv, threadVars, mountVars
<1>7. PinInv'
  BY <1>1 DEF PinInv
<1>8. AwareInv'
  BY <1>1, AwareStep
<1> QED  BY <1>2, <1>4, <1>5, <1>6, <1>7, <1>8 DEF IInv

\* A task that moves in its call holds what it held.
LEMMA MoveStep ==
  ASSUME IInv, NEW t \in Tasks,
         NEW to \in {"out", "idle", "committed", "throttle", "update", "release", "released", "left"},
         UNCHANGED <<sharedVars, threadVars, mountVars, checkpoint_ts, prior_checkpoint_ts, failures>>,
         waiting' \subseteq waiting, task' = [task EXCEPT ![t] = to],
         commit_ts' \in [Tasks -> Ts],
         task[t] # "release", to # "release",
         task[t] = "committed" => "maker" \notin waiting',
         task[t] \in {"released", "left"} => waiting' \subseteq {"maker"}
  PROVE  IInv'
<1>1. TypeOK /\ PinInv
  BY DEF IInv
<1>2. master_ts \in Nat /\ master_ts' \in Ts /\ master_ts <= master_ts' /\ log' \subseteq Ts
  <2>1. master_ts \in Ts /\ master_ts' = master_ts /\ log' = log /\ log \subseteq Ts
    BY <1>1 DEF TypeOK, sharedVars
  <2>2. master_ts \in Nat
    BY <2>1, Numbers
  <2> QED  BY <2>1, <2>2, Ordered
<1>3. /\ task' \in [Tasks -> {"out", "idle", "committed", "throttle", "update", "release",
                              "released", "left"}]
      /\ \A u \in Tasks \ {t} : task'[u] = task[u]
      /\ checkpoint_ts' \in [Tasks -> Ts \cup {InvalidTs}]
      /\ prior_checkpoint_ts' \in [Tasks -> Ts \cup {InvalidTs}]
  BY <1>1 DEF TypeOK
<1>4. prior_checkpoint_ts'[t] = checkpoint_ts'[t]
  BY <1>1 DEF PinInv
<1>5. ASSUME NEW x \in waiting'  PROVE Work(x)' \subseteq Work(x) /\ (WakeupDue(x) => WakeupDue(x)')
  <2>1. x \in Threads
    BY <1>1 DEF TypeOK
  <2>2. Work(x)' = Work(x)
    BY <2>1, SameWork, SamePins
  <2> QED  BY <1>1, <1>5, <2>1, <2>2, SameDue
<1>6. UNCHANGED <<published, garbage>>
  BY DEF sharedVars
<1> QED  BY <1>2, <1>3, <1>4, <1>5, <1>6, TaskStep

\* The steps of a task that change neither what it holds nor the shared state.
LEMMA CallStep ==
  ASSUME IInv, NEW t \in Tasks,
         CommitWakes(t) \/ Continue(t) \/ ReleaseWakes(t) \/ Refresh(t) \/ Signalled(t)
  PROVE  IInv'
<1>1. TypeOK
  BY DEF IInv
<1>2. /\ UNCHANGED <<sharedVars, threadVars, mountVars, checkpoint_ts, prior_checkpoint_ts, failures>>
      /\ task[t] # "release"
  BY DEF CommitWakes, Continue, ReleaseWakes, Refresh, Signalled
<1>3. commit_ts' \in [Tasks -> Ts]
  <2>1. commit_ts' = commit_ts \/ commit_ts' = [commit_ts EXCEPT ![t] = 0]
    BY DEF CommitWakes, Continue, ReleaseWakes, Refresh, Signalled
  <2>2. commit_ts \in [Tasks -> Ts] /\ 0 \in Ts
    BY <1>1, Numbers DEF TypeOK
  <2> QED  BY <2>1, <2>2
<1>4. PICK to \in {"throttle", "update", "out", "idle"} : task' = [task EXCEPT ![t] = to]
  BY DEF CommitWakes, Continue, ReleaseWakes, Refresh, Signalled, TaskGoto
<1>5. /\ waiting' \subseteq waiting
      /\ task[t] = "committed" => "maker" \notin waiting'
      /\ task[t] \in {"released", "left"} => waiting' \subseteq {"maker"}
  BY <1>1 DEF CommitWakes, Continue, ReleaseWakes, Refresh, Signalled, WakeMaker, WakeCollectors,
              TypeOK, Threads
<1>6. /\ to \in {"out", "idle", "committed", "throttle", "update", "release", "released", "left"}
      /\ to # "release"
  OBVIOUS
<1> QED  BY <1>2, <1>3, <1>4, <1>5, <1>6, MoveStep

\* A commit is work for the maker, which the committer is about to wake.  The log entry
\* is not before the latest checkpoint.
LEMMA CommitStep ==
  ASSUME IInv, NEW t \in Tasks, Commit(t)
  PROVE  IInv'
<1>1. TypeOK /\ SharedInv /\ PinInv
  BY DEF IInv
<1>2. /\ task[t] = "idle" /\ master_ts < MaxTs /\ master_ts' = master_ts + 1
      /\ log' = log \cup {master_ts + 1}
      /\ commit_ts' = [commit_ts EXCEPT ![t] = master_ts + 1]
      /\ task' = [task EXCEPT ![t] = "committed"] /\ waiting' = waiting
      /\ UNCHANGED <<published, garbage, threadVars, mountVars, checkpoint_ts, prior_checkpoint_ts,
                     failures>>
  BY DEF Commit, TaskGoto
<1>3. /\ master_ts \in Nat /\ published \in Nat /\ master_ts + 1 \in Ts
      /\ master_ts <= master_ts + 1 /\ ~(master_ts + 1 < published)
  <2>1. MaxTs \in Nat /\ master_ts \in 0..MaxTs /\ published \in 0..MaxTs /\ published <= master_ts
    BY <1>1, ThreadsAssumption DEF TypeOK, SharedInv, Ts
  <2> QED  BY <1>2, <2>1 DEF Ts
<1>4. /\ task' \in [Tasks -> {"out", "idle", "committed", "throttle", "update", "release",
                              "released", "left"}]
      /\ task'[t] = "committed" /\ \A u \in Tasks \ {t} : task'[u] = task[u]
      /\ checkpoint_ts' \in [Tasks -> Ts \cup {InvalidTs}]
      /\ prior_checkpoint_ts' \in [Tasks -> Ts \cup {InvalidTs}]
  BY <1>1, <1>2 DEF TypeOK
<1>5. commit_ts' \in [Tasks -> Ts] /\ log' \subseteq Ts
  BY <1>1, <1>2, <1>3 DEF TypeOK
<1>6. prior_checkpoint_ts'[t] = checkpoint_ts'[t]
  BY <1>1, <1>2 DEF PinInv
<1>7. Pins' = Pins
  BY <1>2, SamePins
<1>8. ASSUME NEW x \in waiting'
      PROVE  \/ Work(x)' \subseteq Work(x) /\ (WakeupDue(x) => WakeupDue(x)')
             \/ WakeupDue(x)'
  <2>1. x \in Threads
    BY <1>1, <1>2 DEF TypeOK
  <2>2. CASE x = "maker"
    BY <1>4, <2>2 DEF WakeupDue
  <2>3. CASE x # "maker"
    <3>1. Work(x)' \subseteq Work(x)
      <4>1. CASE x = "pages"
        BY <1>2, <1>7, <4>1 DEF Work
      <4>2. CASE x = "log"
        <5>1. Work(x) = {i \in log : \A v \in Pins \cup {published} : i < v}
          BY <4>2, WorkIs
        <5>2. Work(x)' = {i \in log' : \A v \in Pins \cup {published} : i < v}
          BY <1>2, <1>7, <4>2 DEF Work
        <5> QED  BY <1>2, <1>3, <5>1, <5>2
      <4> QED  BY <2>1, <2>3, <4>1, <4>2 DEF Threads
    <3>2. WakeupDue(x) => WakeupDue(x)'
      BY <1>1, <1>2, <2>1, <2>3, SameDue
    <3> QED  BY <3>1, <3>2
  <2> QED  BY <2>2, <2>3
<1> QED  BY <1>2, <1>3, <1>4, <1>5, <1>6, <1>8, TaskStep

\* Pins are one or the other of a task.
LEMMA PinIs ==
  ASSUME NEW v
  PROVE  v \in Pins <=> \E u \in Tasks : v = checkpoint_ts[u] \/ v = prior_checkpoint_ts[u]
BY DEF Pins

\* With more held, there is less to collect.  What is lost may be the latest checkpoint.
LEMMA LessWork ==
  ASSUME SharedInv, TypeOK, UNCHANGED sharedVars, Pins \subseteq Pins' \cup {published},
         NEW x \in Threads
  PROVE  Work(x)' \subseteq Work(x)
<1>1. CASE x = "maker"
  BY <1>1 DEF Work, sharedVars
<1>2. CASE x = "pages"
  <2>1. Work(x) = garbage \ Pins /\ Work(x)' = garbage \ Pins'
    BY <1>2 DEF Work, sharedVars
  <2>2. \A g \in garbage : g # published
    <3>1. \A g \in garbage : g \in Nat /\ g < published /\ published \in Nat
      BY Numbers DEF SharedInv, TypeOK
    <3> QED  BY <3>1
  <2> QED  BY <2>1, <2>2
<1>3. CASE x = "log"
  <2>1. Work(x) = {i \in log : \A v \in Pins \cup {published} : i < v}
    BY <1>3, WorkIs
  <2>2. Work(x)' = {i \in log : \A v \in Pins' \cup {published} : i < v}
    BY <1>3 DEF Work, sharedVars
  <2> QED  BY <2>1, <2>2
<1> QED  BY <1>1, <1>2, <1>3 DEF Threads

\* What the steps of a task have in common that change what it holds: the shared state
\* stays, so the maker has no new work.  The collectors have none if the task let go of
\* nothing but the latest checkpoint, or if it is about to wake them.
LEMMA HoldStep ==
  ASSUME IInv, NEW t \in Tasks,
         NEW to \in {"idle", "release", "released", "left"},
         NEW c \in Ts \cup {InvalidTs}, NEW p \in Ts \cup {InvalidTs},
         UNCHANGED <<sharedVars, threadVars, mountVars, waiting, commit_ts, failures>>,
         task[t] \in {"idle", "update", "release"},
         task' = [task EXCEPT ![t] = to],
         checkpoint_ts' = [checkpoint_ts EXCEPT ![t] = c],
         prior_checkpoint_ts' = [prior_checkpoint_ts EXCEPT ![t] = p],
         to # "release" => p = c,
         \/ Pauses /\ to = "idle" /\ task[t] = "idle"
         \/ to \in {"released", "left"}
         \/ {checkpoint_ts[t], prior_checkpoint_ts[t]} \subseteq {c, p, published}
  PROVE  IInv'
<1>1. TypeOK /\ SharedInv /\ PinInv
  BY DEF IInv
<1>2. master_ts \in Nat /\ master_ts' \in Ts /\ master_ts <= master_ts' /\ log' \subseteq Ts
  <2>1. master_ts \in Ts /\ master_ts' = master_ts /\ log' = log /\ log \subseteq Ts
    BY <1>1 DEF TypeOK, sharedVars
  <2>2. master_ts \in Nat
    BY <2>1, Numbers
  <2> QED  BY <2>1, <2>2, Ordered
<1>3. /\ task' \in [Tasks -> {"out", "idle", "committed", "throttle", "update", "release",
                              "released", "left"}]
      /\ task'[t] = to /\ \A u \in Tasks \ {t} : task'[u] = task[u]
  BY <1>1 DEF TypeOK
<1>4. /\ checkpoint_ts' \in [Tasks -> Ts \cup {InvalidTs}]
      /\ prior_checkpoint_ts' \in [Tasks -> Ts \cup {InvalidTs}]
      /\ checkpoint_ts'[t] = c /\ prior_checkpoint_ts'[t] = p
      /\ \A u \in Tasks \ {t} : /\ checkpoint_ts'[u] = checkpoint_ts[u]
                                /\ prior_checkpoint_ts'[u] = prior_checkpoint_ts[u]
      /\ commit_ts' \in [Tasks -> Ts]
  BY <1>1 DEF TypeOK
<1>5. ASSUME NEW x \in waiting', x = "maker" \/ ~Pauses
      PROVE  \/ Work(x)' \subseteq Work(x) /\ (WakeupDue(x) => WakeupDue(x)')
             \/ WakeupDue(x)'
  <2>1. x \in Threads
    BY <1>1 DEF TypeOK
  <2>2. WakeupDue(x) => WakeupDue(x)'
    <3>1. task[t] \notin {"committed", "released", "left"}
      OBVIOUS
    <3> QED  BY <1>1, <2>1, <3>1, SameDue
  <2>3. CASE x = "maker"
    <3>1. Work(x)' = Work(x)
      BY <2>3 DEF Work, sharedVars
    <3> QED  BY <2>2, <3>1
  <2>4. CASE x # "maker" /\ to \in {"released", "left"}
    BY <1>3, <2>4 DEF WakeupDue
  <2>5. CASE x # "maker" /\ to \notin {"released", "left"}
    <3>1. {checkpoint_ts[t], prior_checkpoint_ts[t]} \subseteq {c, p, published}
      BY <1>5, <2>5
    <3>2. ASSUME NEW v \in Pins  PROVE v \in Pins' \cup {published}
      <4>1. PICK u \in Tasks : v = checkpoint_ts[u] \/ v = prior_checkpoint_ts[u]
        BY <3>2, PinIs
      <4>2. CASE u = t
        <5>1. v \in {checkpoint_ts'[t], prior_checkpoint_ts'[t], published}
          BY <1>4, <3>1, <4>1, <4>2
        <5> QED  BY <5>1 DEF Pins
      <4>3. CASE u # t
        <5>1. v \in {checkpoint_ts'[u], prior_checkpoint_ts'[u]}
          BY <1>4, <4>1, <4>3
        <5> QED  BY <5>1 DEF Pins
      <4> QED  BY <4>2, <4>3
    <3>3. Work(x)' \subseteq Work(x)
      BY <1>1, <2>1, <3>2, LessWork
    <3> QED  BY <2>2, <3>3
  <2> QED  BY <2>3, <2>4, <2>5
<1>6. UNCHANGED <<published, garbage>>
  BY DEF sharedVars
<1> QED  BY <1>2, <1>3, <1>4, <1>5, <1>6, TaskStep

\* Taking the latest checkpoint, letting go of the one before, pausing and leaving keep
\* the invariant.
LEMMA PinStep ==
  ASSUME IInv, NEW t \in Tasks, Take(t) \/ Release(t) \/ Pause(t) \/ Leave(t)
  PROVE  IInv'
<1>1. TypeOK /\ PinInv
  BY DEF IInv
<1>2. UNCHANGED <<sharedVars, threadVars, mountVars, waiting, commit_ts, failures>>
  BY DEF Take, Release, Pause, Leave
<1>3. /\ published \in Ts \cup {InvalidTs} /\ InvalidTs \in Ts \cup {InvalidTs}
      /\ checkpoint_ts[t] \in Ts \cup {InvalidTs} /\ prior_checkpoint_ts[t] \in Ts \cup {InvalidTs}
      /\ task = [task EXCEPT ![t] = task[t]]
      /\ checkpoint_ts = [checkpoint_ts EXCEPT ![t] = checkpoint_ts[t]]
      /\ prior_checkpoint_ts = [prior_checkpoint_ts EXCEPT ![t] = prior_checkpoint_ts[t]]
  BY <1>1 DEF TypeOK
<1>4. CASE Take(t)
  <2>1. /\ task[t] = "update" /\ task' = [task EXCEPT ![t] = "release"]
        /\ checkpoint_ts' = [checkpoint_ts EXCEPT ![t] = published]
        /\ prior_checkpoint_ts' = prior_checkpoint_ts
    BY <1>4 DEF Take, TaskGoto
  <2>2. prior_checkpoint_ts[t] = checkpoint_ts[t]
    BY <1>1, <2>1 DEF PinInv
  <2> QED  BY <1>2, <1>3, <2>1, <2>2, HoldStep
<1>5. CASE Release(t)
  <2>1. /\ task[t] = "release" /\ checkpoint_ts' = checkpoint_ts
        /\ prior_checkpoint_ts' = [prior_checkpoint_ts EXCEPT ![t] = checkpoint_ts[t]]
    BY <1>5 DEF Release
  <2>2. CASE prior_checkpoint_ts[t] = checkpoint_ts[t]
    <3>1. task' = [task EXCEPT ![t] = "idle"]
      BY <1>5, <2>2 DEF Release, TaskGoto
    <3> QED  BY <1>2, <1>3, <2>1, <2>2, <3>1, HoldStep
  <2>3. CASE prior_checkpoint_ts[t] # checkpoint_ts[t]
    <3>1. task' = [task EXCEPT ![t] = "released"]
      BY <1>5, <2>3 DEF Release, TaskGoto
    <3> QED  BY <1>2, <1>3, <2>1, <3>1, HoldStep
  <2> QED  BY <2>2, <2>3
<1>6. CASE Pause(t)
  <2>1. /\ task[t] = "idle" /\ task' = [task EXCEPT ![t] = "idle"]
        /\ Pauses \/ checkpoint_ts[t] = published
        /\ checkpoint_ts' = [checkpoint_ts EXCEPT ![t] = InvalidTs]
        /\ prior_checkpoint_ts' = [prior_checkpoint_ts EXCEPT ![t] = InvalidTs]
    BY <1>3, <1>6 DEF Pause
  <2>2. prior_checkpoint_ts[t] = checkpoint_ts[t]
    BY <1>1, <2>1 DEF PinInv
  <2> QED  BY <1>2, <1>3, <2>1, <2>2, HoldStep
<1>7. CASE Leave(t)
  <2>1. /\ task[t] = "idle" /\ task' = [task EXCEPT ![t] = "left"]
        /\ checkpoint_ts' = [checkpoint_ts EXCEPT ![t] = InvalidTs]
        /\ prior_checkpoint_ts' = [prior_checkpoint_ts EXCEPT ![t] = InvalidTs]
    BY <1>7 DEF Leave, TaskGoto
  <2> QED  BY <1>2, <1>3, <2>1, HoldStep
<1> QED  BY <1>4, <1>5, <1>6, <1>7

-----------------------------------------------------------------------------
(* The theorems *)

\* The invariant holds initially.
LEMMA InitInv == Init => IInv
<1> SUFFICES ASSUME Init PROVE IInv
  OBVIOUS
<1>1. 0 \in Ts /\ 0 \in 0..MaxFailures /\ 0 <= 0
  BY ThreadsAssumption DEF Ts
<1>2. TypeOK
  BY <1>1 DEF Init, TypeOK
<1>3. SharedInv /\ FoundInv /\ PinInv
  BY <1>1 DEF Init, SharedInv, FoundInv, PinInv, Threads
<1>4. QueueInv
  <2>1. queue \in Seq(Threads) /\ queue # <<>> /\ Different(queue)
    BY ThreadsAssumption DEF Init, Threads, Different
  <2>2. \A i \in DOMAIN queue : pc[queue[i]] = "none"
    BY <2>1, Element DEF Init
  <2> QED  BY <2>1, <2>2 DEF QueueInv
<1>5. AwareInv
  BY DEF Init, AwareInv, AwareAt
<1> QED  BY <1>2, <1>3, <1>4, <1>5 DEF IInv

\* Every step keeps it.
LEMMA StepInv == IInv /\ [Next]_vars => IInv'
<1> SUFFICES ASSUME IInv, [Next]_vars PROVE IInv'
  OBVIOUS
<1>1. ASSUME NEW th \in Threads, Thread(th)  PROVE IInv'
  <2>1. CASE Act(th)
    BY <2>1, MakerActs, CollectorActs, IdleActs DEF Threads
  <2> QED  BY <1>1, <2>1, ThreadStep DEF Thread
<1>2. CASE OutOfMemory
  BY <1>2, OutOfMemoryStep
<1>3. CASE StartThread
  BY <1>3, StartStep
<1>4. CASE StartFails \/ Unmount \/ Stopping
  BY <1>4, StopStep
<1>5. ASSUME NEW t \in Tasks,
             InCall(t) \/ Refresh(t) \/ Commit(t) \/ Signalled(t) \/ Pause(t) \/ Leave(t)
      PROVE  IInv'
  BY <1>5, CallStep, CommitStep, PinStep DEF InCall
<1>6. CASE UNCHANGED vars
  <2>1. TypeOK' /\ SharedInv' /\ FoundInv' /\ QueueInv' /\ PinInv'
    BY <1>6 DEF vars, sharedVars, threadVars, mountVars, taskVars, IInv, TypeOK, SharedInv, FoundInv,
                QueueInv, PinInv
  <2>2. AwareInv'
    <3>1. ASSUME NEW x \in waiting'  PROVE Work(x)' = Work(x) /\ WakeupDue(x)' = WakeupDue(x)
      BY <1>6 DEF vars, sharedVars, threadVars, taskVars, WakeupDue, Work, Pins
    <3> QED  BY <1>6, <3>1, AwareStep DEF vars, IInv
  <2> QED  BY <2>1, <2>2 DEF IInv
<1> QED  BY <1>1, <1>2, <1>3, <1>4, <1>5, <1>6 DEF Next

\* The invariant holds in every behaviour, whether tasks pause with old checkpoints or
\* not.
THEOREM Invariance == Spec => []IInv
BY InitInv, StepInv, PTL DEF Spec

\* The maker never sleeps on commits that are in no checkpoint, unless the task that
\* made the last of them is about to wake it.
MakerSleepsIdle ==
  pc["maker"] = "sleep" /\ "maker" \in waiting => master_ts = published \/ WakeupDue("maker")

\* No wakeup of sivfs_make_checkpoint_threadfn is lost, for any number of tasks and
\* threads and whatever the tasks do.
THEOREM MakerAwake == Spec => []MakerSleepsIdle
<1>1. IInv => MakerSleepsIdle
  <2> SUFFICES ASSUME IInv, pc["maker"] = "sleep", "maker" \in waiting, ~WakeupDue("maker")
               PROVE  master_ts = published
    BY DEF MakerSleepsIdle
  <2>1. Work("maker") \subseteq found["maker"]
    BY DEF IInv, AwareInv, AwareAt, Threads
  <2>2. found["maker"] = {}
    BY DEF IInv, FoundInv, Threads
  <2> QED  BY <2>1, <2>2, WorkIs
<1> QED  BY <1>1, Invariance, PTL

\* No wakeup of any of the three threads is lost, if tasks only pause with the latest
\* checkpoint: a thread that sleeps has nothing to do, or is about to be woken.
THEOREM NoLostWakeup ==
  ASSUME ~Pauses
  PROVE  Spec => []SleepsIdle
<1>1. IInv => SleepsIdle
  <2> SUFFICES ASSUME IInv PROVE SleepsIdle
    OBVIOUS
  <2>1. ASSUME NEW th \in Threads, pc[th] = "sleep", th \in waiting, ~WakeupDue(th)
        PROVE  Work(th) = {}
    <3>1. Work(th) \subseteq found[th]
      BY <2>1 DEF IInv, AwareInv, AwareAt
    <3>2. found[th] = {}
      BY <2>1 DEF IInv, FoundInv
    <3> QED  BY <3>1, <3>2
  <2> QED  BY <2>1 DEF SleepsIdle, IInv
<1> QED  BY <1>1, Invariance, PTL

=============================================================================
