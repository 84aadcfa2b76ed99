----------------------- MODULE CheckpointTreeProofs -----------------------
(***************************************************************************)
(* Proofs about CheckpointTree.  IInv is about timestamps and does not     *)
(* look at pages; it gives that the thread that makes checkpoints gives up *)
(* only over a word outside the tree.  TreeInv is about the pages: what    *)
(* every tree in use or in the making consists of and holds, what is with  *)
(* the collector, and that no page is lost.                                *)
(***************************************************************************)
EXTENDS CheckpointTreePaths

\* Most leaves are logic, the others arithmetic.
USE ZenonT(5), SMTT(15)

-----------------------------------------------------------------------------
(* The timestamps: the inductive invariant *)

LogInv == log \in Seq(SUBSET Addrs) /\ latest \in Nat /\ latest <= Len(log)

\* checkpoints_reverse has no timestamp after the latest checkpoint but the one that is
\* about to be published.
ReverseInv ==
  \A c \in reverse : c \in Nat /\ (c <= latest \/ (make.pc = "publish" /\ c = make.next))

MakeFields ==
  make = [pc |-> make.pc, next |-> make.next, root |-> make.root, at |-> make.at,
          left |-> make.left, stack |-> make.stack]

\* The checkpoint that is made is a new one, of entries of the log, and what is left of
\* an entry is part of it.
MakeInv ==
  make.pc \in {"apply", "publish"} =>
    /\ make.next \in Nat /\ make.at \in Nat
    /\ latest < make.at /\ make.at <= make.next /\ make.next <= Len(log)
    /\ make.left \subseteq log[make.at]

IInv == LogInv /\ ReverseInv /\ MakeFields /\ MakeInv /\ MakerSurvives

-----------------------------------------------------------------------------
(* The timestamps: steps *)

\* What stays if neither the log nor the reverse map nor the checkpointer changes.
LEMMA SameStep ==
  ASSUME IInv, UNCHANGED <<log, latest, make>>, reverse' \subseteq reverse
  PROVE  IInv'
BY DEF IInv, LogInv, ReverseInv, MakeFields, MakeInv, MakerSurvives

\* A write set consists of words.
LEMMA WriteSetsType == \A W \in WriteSets : W \in SUBSET Addrs
BY DEF WriteSets, kSubset

\* A commit adds an entry and changes none.
LEMMA CommitStep ==
  ASSUME IInv, NEW W \in WriteSets, Commit(W)
  PROVE  IInv'
<1>1. /\ LogInv /\ ReverseInv /\ MakeFields /\ MakeInv /\ MakerSurvives
      /\ log' = Append(log, W) /\ UNCHANGED <<latest, make, reverse>>
  BY DEF IInv, Commit
<1>2. W \in SUBSET Addrs
  BY WriteSetsType
<1>3. /\ Len(log) \in Nat /\ log' \in Seq(SUBSET Addrs) /\ Len(log') = Len(log) + 1
      /\ \A i \in 1..Len(log) : log'[i] = log[i]
  BY <1>1, <1>2 DEF LogInv
<1>4. LogInv'
  BY <1>1, <1>3 DEF LogInv
<1>5. ReverseInv' /\ MakeFields'
  BY <1>1 DEF ReverseInv, MakeFields
<1>6. MakeInv'
  <2> SUFFICES ASSUME make.pc \in {"apply", "publish"}
               PROVE  /\ make.next \in Nat /\ make.at \in Nat
                      /\ latest < make.at /\ make.at <= make.next /\ make.next <= Len(log')
                      /\ make.left \subseteq log'[make.at]
    BY <1>1 DEF MakeInv
  <2>1. /\ make.next \in Nat /\ make.at \in Nat
        /\ latest < make.at /\ make.at <= make.next /\ make.next <= Len(log)
        /\ make.left \subseteq log[make.at]
    BY <1>1 DEF MakeInv
  <2>2. make.at \in 1..Len(log) /\ make.next <= Len(log')
    BY <1>1, <1>3, <2>1 DEF LogInv
  <2> QED  BY <1>3, <2>1, <2>2
<1>7. MakerSurvives'
  <2>1. \A i \in 1..Len(log) : i \in 1..Len(log')
    BY <1>3
  <2> QED  BY <1>1, <1>3, <2>1 DEF MakerSurvives
<1> QED  BY <1>4, <1>5, <1>6, <1>7 DEF IInv

\* The checkpointer that goes back to waiting can start again.
LEMMA IdleStep ==
  ASSUME IInv, UNCHANGED <<log, latest>>, make' = Idle, \A c \in reverse' : c \in Nat /\ c <= latest
  PROVE  IInv'
<1>1. MakeFields' /\ make'.pc = "idle"
  BY DEF MakeFields, Idle
<1>2. LogInv' /\ ReverseInv' /\ MakeInv' /\ MakerSurvives'
  BY <1>1 DEF IInv, LogInv, ReverseInv, MakeInv, MakerSurvives
<1> QED  BY <1>1, <1>2 DEF IInv

\* While it works, no entry of checkpoints_reverse is after the latest checkpoint.
LEMMA Before ==
  ASSUME IInv, make.pc = "apply"
  PROVE  /\ \A c \in reverse : c \in Nat /\ c <= latest
         /\ make.next \notin reverse
<1>1. \A c \in reverse : c \in Nat /\ c <= latest
  BY DEF IInv, ReverseInv
<1>2. latest \in Nat /\ make.next \in Nat /\ latest < make.next
  <2>1. /\ latest \in Nat /\ make.next \in Nat /\ make.at \in Nat
        /\ latest < make.at /\ make.at <= make.next
    BY DEF IInv, LogInv, MakeInv
  <2> QED  BY <2>1
<1>3. ~(make.next <= latest)
  BY <1>2
<1> QED  BY <1>1, <1>3

\* The checkpointer begins, behind the latest checkpoint.
LEMMA StartStep ==
  ASSUME IInv, StartCheckpoint
  PROVE  IInv'
<1>1. /\ LogInv /\ ReverseInv /\ Len(log) # latest /\ make.pc = "idle"
      /\ make' = [pc |-> "apply", next |-> Len(log), root |-> cps[latest].root,
                  at |-> latest + 1, left |-> log[latest + 1], stack |-> <<>>]
      /\ UNCHANGED <<log, latest, reverse>>
  BY DEF IInv, StartCheckpoint
<1>2. /\ make'.pc = "apply" /\ make'.next = Len(log) /\ make'.at = latest + 1
      /\ make'.left = log[latest + 1] /\ MakeFields'
  BY <1>1 DEF MakeFields
<1>3. /\ Len(log) \in Nat /\ latest + 1 \in Nat /\ latest < latest + 1 /\ latest + 1 <= Len(log)
      /\ Len(log) <= Len(log)
  BY <1>1 DEF LogInv
<1>4. MakeInv'
  BY <1>1, <1>2, <1>3 DEF MakeInv
<1>5. LogInv' /\ ReverseInv' /\ MakerSurvives'
  BY <1>1, <1>2 DEF LogInv, ReverseInv, MakerSurvives
<1> QED  BY <1>2, <1>4, <1>5 DEF IInv

\* It goes to the next entry.
LEMMA EntryStep ==
  ASSUME IInv, NextEntry
  PROVE  IInv'
<1>1. /\ LogInv /\ ReverseInv /\ MakeFields /\ MakeInv /\ make.pc = "apply" /\ make.at < make.next
      /\ make' = [make EXCEPT !.at = make.at + 1, !.left = log[make.at + 1]]
      /\ UNCHANGED <<log, latest, reverse>>
  BY DEF IInv, NextEntry
<1>2. /\ make'.pc = "apply" /\ make'.next = make.next /\ make'.at = make.at + 1
      /\ make'.left = log[make.at + 1] /\ MakeFields'
  BY <1>1 DEF MakeFields
<1>3. /\ make.next \in Nat /\ make.at + 1 \in Nat /\ latest < make.at + 1
      /\ make.at + 1 <= make.next /\ make.next <= Len(log)
  BY <1>1 DEF LogInv, MakeInv
<1>4. MakeInv'
  BY <1>1, <1>2, <1>3 DEF MakeInv
<1>5. LogInv' /\ ReverseInv' /\ MakerSurvives'
  BY <1>1, <1>2 DEF LogInv, ReverseInv, MakerSurvives
<1> QED  BY <1>2, <1>4, <1>5 DEF IInv

\* A word is applied: less is left, or memory ran out.
LEMMA ApplyStep ==
  ASSUME IInv, NEW a \in Addrs, NEW f, ApplyWord(a, f)
  PROVE  IInv'
<1> DEFINE w == ApplyChange(heap, make.root, a, make.at, make.next, f)
<1>1. /\ LogInv /\ ReverseInv /\ MakeFields /\ MakeInv /\ make.pc = "apply"
      /\ UNCHANGED <<log, latest, reverse>>
  BY DEF IInv, ApplyWord
<1>2. \/ make' = [make EXCEPT !.root = w.root, !.left = make.left \ {a}, !.stack = make.stack \o w.olds]
      \/ make' = Idle
  BY DEF ApplyWord, Fail
<1> HIDE DEF w
<1>3. CASE make' = Idle
  BY <1>1, <1>3, IdleStep, Before
<1>4. CASE make' = [make EXCEPT !.root = w.root, !.left = make.left \ {a}, !.stack = make.stack \o w.olds]
  <2>1. /\ make'.pc = "apply" /\ make'.next = make.next /\ make'.at = make.at
        /\ make'.left = make.left \ {a} /\ MakeFields'
    BY <1>1, <1>4 DEF MakeFields
  <2>2. MakeInv'
    BY <1>1, <2>1 DEF MakeInv
  <2>3. LogInv' /\ ReverseInv' /\ MakerSurvives'
    BY <1>1, <2>1 DEF LogInv, ReverseInv, MakerSurvives
  <2> QED  BY <2>1, <2>2, <2>3 DEF IInv
<1> QED  BY <1>2, <1>3, <1>4

\* The word that stops the checkpointer is one of the log.
LEMMA OutsideStep ==
  ASSUME IInv, NEW a \in Addrs, ApplyOutside(a)
  PROVE  IInv'
<1>1. /\ LogInv /\ ReverseInv /\ MakeInv /\ make.pc = "apply"
      /\ a \in make.left /\ ~InRange(a) /\ make' = Stopped
      /\ UNCHANGED <<log, latest, reverse>>
  BY DEF IInv, ApplyOutside, Stop
<1>2. make'.pc = "stopped" /\ MakeFields'
  BY <1>1 DEF MakeFields, Stopped, Idle
<1>3. make.at \in 1..Len(log) /\ a \in log[make.at]
  BY <1>1 DEF LogInv, MakeInv
<1>4. MakerSurvives'
  BY <1>1, <1>3 DEF MakerSurvives, InRange
<1>5. LogInv' /\ ReverseInv' /\ MakeInv'
  BY <1>1, <1>2 DEF LogInv, ReverseInv, MakeInv
<1> QED  BY <1>2, <1>4, <1>5 DEF IInv

\* The timestamp is free, and taken until the checkpoint is published.
LEMMA MarkStep ==
  ASSUME IInv, MarkObsoleted
  PROVE  IInv'
<1>1. /\ LogInv /\ ReverseInv /\ MakeFields /\ MakeInv /\ make.pc = "apply"
      /\ UNCHANGED <<log, latest>>
  BY DEF IInv, MarkObsoleted, Replayed
<1>2. ~Exists
  BY <1>1, Before DEF Exists
<1>3. reverse' = reverse \cup {make.next} /\ make' = [make EXCEPT !.pc = "publish", !.stack = <<>>]
  BY <1>2 DEF MarkObsoleted
<1>4. /\ make'.pc = "publish" /\ make'.next = make.next /\ make'.at = make.at
      /\ make'.left = make.left /\ MakeFields'
  BY <1>1, <1>3 DEF MakeFields
<1>5. MakeInv'
  BY <1>1, <1>4 DEF MakeInv
<1>6. ReverseInv'
  BY <1>1, <1>3, <1>4, Before DEF ReverseInv, MakeInv
<1>7. LogInv' /\ MakerSurvives'
  BY <1>1, <1>4 DEF LogInv, MakerSurvives
<1> QED  BY <1>4, <1>5, <1>6, <1>7 DEF IInv

\* A checkpoint that fails at the end leaves no entry behind.
LEMMA MarkFailsStep ==
  ASSUME IInv, MarkFails
  PROVE  IInv'
<1>1. /\ make.pc = "apply" /\ UNCHANGED <<log, latest>> /\ make' = Idle
      /\ reverse' = (reverse \cup {make.next}) \ {make.next}
  BY DEF MarkFails, Replayed, Fail, Remove
<1>2. reverse' \subseteq reverse
  BY <1>1
<1> QED  BY <1>1, <1>2, Before, IdleStep

\* The checkpoint becomes the latest.
LEMMA PublishStep ==
  ASSUME IInv, Publish
  PROVE  IInv'
<1>1. /\ LogInv /\ ReverseInv /\ MakeInv /\ make.pc = "publish"
      /\ latest' = make.next /\ make' = Idle /\ UNCHANGED <<log, reverse>>
  BY DEF IInv, Publish
<1>2. /\ latest \in Nat /\ make.next \in Nat /\ make.at \in Nat
      /\ latest < make.at /\ make.at <= make.next /\ make.next <= Len(log)
  BY <1>1 DEF LogInv, MakeInv
<1>3. MakeFields' /\ make'.pc = "idle"
  BY <1>1 DEF MakeFields, Idle
<1>4. LogInv'
  BY <1>1, <1>2 DEF LogInv
<1>5. ReverseInv'
  <2> SUFFICES ASSUME NEW c \in reverse
               PROVE  c \in Nat /\ c <= make.next
    BY <1>1 DEF ReverseInv
  <2>1. c \in Nat /\ (c <= latest \/ c = make.next)
    BY <1>1 DEF ReverseInv
  <2> QED  BY <1>2, <2>1
<1>6. MakeInv' /\ MakerSurvives'
  BY <1>3 DEF MakeInv, MakerSurvives
<1> QED  BY <1>3, <1>4, <1>5, <1>6 DEF IInv

\* IInv holds at first.
LEMMA InitInv == Init => IInv
<1> SUFFICES ASSUME Init PROVE IInv
  OBVIOUS
<1>1. log = <<>> /\ latest = 0 /\ reverse = {0} /\ make = Idle
  BY DEF Init
<1>2. LogInv
  BY <1>1 DEF LogInv
<1>3. ReverseInv
  BY <1>1 DEF ReverseInv
<1>4. MakeFields /\ MakeInv /\ MakerSurvives
  BY <1>1 DEF MakeFields, MakeInv, MakerSurvives, Idle
<1> QED  BY <1>2, <1>3, <1>4 DEF IInv

\* IInv is kept by every step.
LEMMA StepInv == IInv /\ [Next]_vars => IInv'
<1> SUFFICES ASSUME IInv, [Next]_vars PROVE IInv'
  OBVIOUS
<1>1. CASE \E W \in WriteSets : Commit(W)
  BY <1>1, CommitStep
<1>2. CASE Checkout \/ (\E c \in Versions : Release(c)) \/ Collect
  BY <1>2, SameStep DEF Checkout, Release, Collect
<1>3. CASE StartCheckpoint
  BY <1>3, StartStep
<1>4. CASE NextEntry
  BY <1>4, EntryStep
<1>5. CASE \E a \in Addrs, f \in Failures \cup {NoFailure} : ApplyWord(a, f)
  BY <1>5, ApplyStep
<1>6. CASE \E a \in Addrs : ApplyOutside(a)
  BY <1>6, OutsideStep
<1>7. CASE MarkObsoleted
  BY <1>7, MarkStep
<1>8. CASE MarkFails
  BY <1>8, MarkFailsStep
<1>9. CASE Publish
  BY <1>9, PublishStep
<1>10. CASE \E a \in Addrs, f \in Failures \cup {NoFailure} : PrepareDirect(a, f)
  BY <1>10, SameStep DEF PrepareDirect
<1>11. CASE Unload
  BY <1>11, SameStep DEF Unload
<1>12. CASE UNCHANGED vars
  BY <1>12, SameStep DEF vars
<1> QED
  BY <1>1, <1>2, <1>3, <1>4, <1>5, <1>6, <1>7, <1>8, <1>9, <1>10, <1>11, <1>12 DEF Next

-----------------------------------------------------------------------------
(* The trees *)

Holds(h, root, L, c) ==
  \A a \in Words : Child(h, PageOn(h, root, Route(a), 0), a.word) = LastIn(L, a, c)

\* The tree of a checkpoint in use: no page of it is younger than the checkpoint or of a
\* checkpoint that failed, and it holds the log up to the checkpoint.
InUse(h, root, c, L, lk) ==
  /\ Tree(h, root)
  /\ \A p \in Nodes(h, root) : h[p].ts <= c /\ p \notin lk
  /\ Holds(h, root, L, c)

\* The nodes of a tree are allocated and are not zero pages.
LEMMA NodesLive ==
  ASSUME NEW h, NEW root, Typed(h, root), NEW p \in Nodes(h, root)
  PROVE  p \in PageIds /\ h[p].live /\ p \notin ZeroPages
<1>1. PICK q \in Paths, k \in Levels : p = PageOn(h, root, q, k) /\ p \notin NotFreed
  BY DEF Nodes
<1>2. p # Null /\ p \notin ZeroPages
  BY <1>1 DEF NotFreed
<1> QED  BY <1>1, <1>2, PageIs

\* The pages of a tree are let alone, and none of them is in lk.
Untouched(h, g, root, lk) ==
  \A p \in Nodes(h, root) : g[p].slots = h[p].slots /\ g[p].live /\ g[p].ts = h[p].ts /\ p \notin lk

\* A tree whose pages are let alone stays in use.
LEMMA FrameUse ==
  ASSUME WellOrdered, NEW h, NEW g, NEW root, NEW c, NEW L, NEW lk, NEW lk2, InUse(h, root, c, L, lk),
         g \in [PageIds -> Pages], ZerosKept(g), Untouched(h, g, root, lk2)
  PROVE  InUse(g, root, c, L, lk2) /\ Nodes(g, root) = Nodes(h, root)
<1>1. ZerosKept(h) /\ Typed(h, root) /\ Single(h, root)
  BY DEF InUse, Tree
<1>2. /\ Typed(g, root) /\ Single(g, root) /\ Nodes(g, root) = Nodes(h, root)
      /\ SameWords(g, root, h, root)
  BY <1>1, Frame DEF Untouched
<1>3. Tree(g, root)
  BY <1>2 DEF Tree
<1>4. Holds(g, root, L, c)
  BY <1>2, Places DEF InUse, Holds, SameWords
<1>5. \A p \in Nodes(g, root) : g[p].ts <= c /\ p \notin lk2
  BY <1>2 DEF InUse, Untouched
<1> QED  BY <1>2, <1>3, <1>4, <1>5 DEF InUse

\* The same for the tree that is being made.
LEMMA FrameTree ==
  ASSUME WellOrdered, NEW h, NEW g, NEW root, Tree(h, root), g \in [PageIds -> Pages], ZerosKept(g),
         \A p \in Nodes(h, root) : g[p].slots = h[p].slots /\ g[p].live
  PROVE  Tree(g, root) /\ Nodes(g, root) = Nodes(h, root) /\ SameWords(g, root, h, root)
<1>1. ZerosKept(h) /\ Typed(h, root) /\ Single(h, root)
  BY DEF Tree
<1>2. /\ Typed(g, root) /\ Single(g, root) /\ Nodes(g, root) = Nodes(h, root)
      /\ SameWords(g, root, h, root)
  BY <1>1, Frame
<1> QED  BY <1>2 DEF Tree

\* Later entries do not matter.
LEMMA LogGrows ==
  ASSUME NEW L, NEW M, NEW c \in Nat, \A i \in 1..c : M[i] = L[i], NEW a
  PROVE  LastIn(M, a, c) = LastIn(L, a, c)
<1>1. {i \in 1..c : a \in M[i]} = {i \in 1..c : a \in L[i]}
  OBVIOUS
<1> QED  BY <1>1 DEF LastIn

\* LastWrite of the model, as LastIn of the log.
LEMMA LastIsLog == \A a, c : LastWrite(a, c) = LastIn(log, a, c)
BY DEF LastWrite, LastIn

-----------------------------------------------------------------------------
(* What is handed to the collector *)

IsEntry(e) == (\E p \in PageIds : e = PageEntry(p)) \/ (\E c \in Versions : e = InodeEntry(c))
PagesIn(E) == {p \in PageIds : PageEntry(p) \in E}
InodesIn(E) == {c \in Versions : InodeEntry(c) \in E}

\* An entry of the collector names one page or one checkpoint inode.
LEMMA EntryIs ==
  /\ \A p : PageEntry(p).kind = "page" /\ PageEntry(p).id = p
  /\ \A c : InodeEntry(c).kind = "inode" /\ InodeEntry(c).id = c
  /\ \A p, r : PageEntry(p) = PageEntry(r) => p = r
  /\ \A p, r : InodeEntry(p) = InodeEntry(r) => p = r
  /\ \A p, c : PageEntry(p) # InodeEntry(c)
<1>1. /\ \A p : PageEntry(p).kind = "page" /\ PageEntry(p).id = p
      /\ \A c : InodeEntry(c).kind = "inode" /\ InodeEntry(c).id = c
  BY DEF PageEntry, InodeEntry
<1>2. "page" # "inode"
  OBVIOUS
<1> QED  BY <1>1, <1>2

\* The pages and the inodes the entries name.
LEMMA IdsAre ==
  ASSUME NEW E, \A e \in E : IsEntry(e)
  PROVE  IdsOf("page", E) = PagesIn(E) /\ IdsOf("inode", E) = InodesIn(E)
<1>0. "page" # "inode"
  OBVIOUS
<1>1. ASSUME NEW e \in E, e.kind = "page" PROVE e.id \in PageIds /\ e = PageEntry(e.id)
  BY <1>0, <1>1, EntryIs DEF IsEntry
<1>2. ASSUME NEW e \in E, e.kind = "inode" PROVE e.id \in Versions /\ e = InodeEntry(e.id)
  BY <1>0, <1>2, EntryIs DEF IsEntry
<1>3. IdsOf("page", E) \subseteq PagesIn(E) /\ IdsOf("inode", E) \subseteq InodesIn(E)
  BY <1>1, <1>2 DEF IdsOf, PagesIn, InodesIn
<1>4. ASSUME NEW p \in PagesIn(E) PROVE p \in IdsOf("page", E)
  <2>1. PageEntry(p) \in E /\ PageEntry(p).kind = "page" /\ PageEntry(p).id = p
    BY EntryIs DEF PagesIn
  <2>2. PageEntry(p) \in {x \in E : x.kind = "page"}
    BY <2>1
  <2> QED  BY <2>1, <2>2 DEF IdsOf
<1>5. ASSUME NEW c \in InodesIn(E) PROVE c \in IdsOf("inode", E)
  <2>1. InodeEntry(c) \in E /\ InodeEntry(c).kind = "inode" /\ InodeEntry(c).id = c
    BY EntryIs DEF InodesIn
  <2>2. InodeEntry(c) \in {x \in E : x.kind = "inode"}
    BY <2>1
  <2> QED  BY <2>1, <2>2 DEF IdsOf
<1> QED  BY <1>3, <1>4, <1>5

\* Handing over what was not handed over yet leaves each entry listed once.
LEMMA WithIs ==
  ASSUME NEW E, NEW O, \A e \in DOMAIN E : E[e] = 1, \A e \in O : e \notin DOMAIN E
  PROVE  DOMAIN With(E, O) = DOMAIN E \cup O /\ \A e \in DOMAIN With(E, O) : With(E, O)[e] = 1
<1> DEFINE n(e) == (IF e \in DOMAIN E THEN E[e] ELSE 0) + (IF e \in O THEN 1 ELSE 0)
<1>1. ASSUME NEW e \in DOMAIN E \cup O PROVE n(e) = 1
  <2>1. CASE e \in DOMAIN E
    BY <2>1
  <2>2. CASE e \notin DOMAIN E
    BY <2>2
  <2> QED  BY <2>1, <2>2
<1>2. With(E, O) = [e \in DOMAIN E \cup O |-> n(e)]
  BY DEF With
<1> HIDE DEF n
<1> QED  BY <1>1, <1>2

-----------------------------------------------------------------------------
(* The inductive invariant *)

Making == make.pc \in {"apply", "publish"}
LatestRoot == cps[latest].root
Handed == PagesIn(DOMAIN entries)
InodesHanded == InodesIn(DOMAIN entries)

CpsInv ==
  /\ \A c \in DOMAIN cps : cps[c] = [root |-> cps[c].root, obs |-> cps[c].obs]
  /\ loaded => DOMAIN cps = {latest} \cup InodesHanded

HeldInv ==
  \A c \in Held : c \in DOMAIN cps /\ c <= latest /\ InUse(heap, cps[c].root, c, log, leaked)

\* The value of a word while the entry make.at is applied.
Applied(m, L, a) == IF a \in m.left THEN LastIn(L, a, m.at - 1) ELSE LastIn(L, a, m.at)
Partly(h, m, L) ==
  \A a \in Words : Child(h, PageOn(h, m.root, Route(a), 0), a.word) = Applied(m, L, a)

\* The pages of the tree that is made are its own or of the latest checkpoint.
MakingInv ==
  Making =>
    /\ loaded /\ Tree(heap, make.root) /\ Partly(heap, make, log)
    /\ \A p \in Nodes(heap, make.root) :
         /\ heap[p].ts = make.next \/ p \in Nodes(heap, LatestRoot)
         /\ p \notin leaked /\ p \notin Handed

\* The pages that the new tree has not are on the stack.
StackInv ==
  make.pc = "apply" =>
    /\ make.stack \in Seq(PageIds)
    /\ {make.stack[i] : i \in DOMAIN make.stack} = Nodes(heap, LatestRoot) \ Nodes(heap, make.root)
    /\ \A i \in DOMAIN make.stack : heap[make.stack[i]].obs = make.next

\* And then with the collector.
PublishInv ==
  make.pc = "publish" =>
    /\ make.left = {} /\ make.at = make.next /\ latest \in InodesHanded
    /\ Nodes(heap, LatestRoot) \ Nodes(heap, make.root) \subseteq Handed

\* What the collector has ends with the latest checkpoint or the one that is published,
\* and no checkpoint in use has it after its end.
EntriesInv ==
  /\ \A e \in DOMAIN entries : entries[e] = 1 /\ IsEntry(e)
  /\ \A p \in Handed :
       /\ heap[p].live /\ p \notin ZeroPages /\ p \notin leaked /\ heap[p].ts <= latest
       /\ heap[p].obs <= latest \/ (make.pc = "publish" /\ heap[p].obs = make.next)
       /\ \A c \in Held : p \in Nodes(heap, cps[c].root) => c < heap[p].obs
  /\ \A c \in InodesHanded :
       cps[c].obs \in Nat /\ c < cps[c].obs /\ (c < latest \/ (make.pc = "publish" /\ c = latest))

LeakedInv == \A p \in leaked : heap[p].live /\ p \notin ZeroPages

\* Every page is accounted for.
AccountInv ==
  loaded =>
    \A p \in PageIds : heap[p].live =>
      \/ p \in ZeroPages \/ p \in leaked \/ p \in Handed \/ p \in Nodes(heap, LatestRoot)
      \/ Making /\ p \in Nodes(heap, make.root)

GoneInv == ~loaded => pinned = {} /\ DOMAIN entries = {} /\ AllFreed

TreeInv ==
  /\ TypeOK /\ CpsInv /\ HeldInv /\ MakingInv /\ StackInv /\ PublishInv
  /\ EntriesInv /\ LeakedInv /\ AccountInv /\ GoneInv

-----------------------------------------------------------------------------
(* What the invariant says of a moment *)

\* What a reader may rely on: each tree held reads its own version of the log.
LEMMA HeldIs ==
  ASSUME IInv, TreeInv
  PROVE  /\ latest \in Nat /\ latest \in Versions /\ latest <= Len(log) /\ Len(log) \in Nat /\ Len(log) <= MaxTs
         /\ \A c \in Held : c \in Nat /\ c \in DOMAIN cps /\ c <= latest /\ InUse(heap, cps[c].root, c, log, leaked)
         /\ loaded => latest \in Held /\ InUse(heap, LatestRoot, latest, log, leaked) /\ Tree(heap, LatestRoot)
         /\ loaded => ZerosKept(heap)
<1>1. latest \in Nat /\ latest \in Versions /\ latest <= Len(log) /\ Len(log) \in Nat /\ Len(log) <= MaxTs
  BY DEF IInv, LogInv, TreeInv, TypeOK
<1>2. ASSUME NEW c \in Held
      PROVE  c \in Nat /\ c \in DOMAIN cps /\ c <= latest /\ InUse(heap, cps[c].root, c, log, leaked)
  <2>1. c \in DOMAIN cps /\ c <= latest /\ InUse(heap, cps[c].root, c, log, leaked)
    BY DEF TreeInv, HeldInv
  <2>2. c \in Versions
    BY <2>1 DEF TreeInv, TypeOK
  <2>3. c \in Nat
    BY <2>2 DEF Versions
  <2> QED  BY <2>1, <2>3
<1>3. loaded => latest \in Held
  BY DEF Held
<1>4. loaded => InUse(heap, LatestRoot, latest, log, leaked)
  BY <1>2, <1>3 DEF LatestRoot
<1> QED  BY <1>1, <1>2, <1>3, <1>4 DEF InUse, Tree

\* What the maker may rely on while it makes a checkpoint.
LEMMA MakingIs ==
  ASSUME IInv, TreeInv, Making
  PROVE  /\ loaded /\ make.next \in Versions /\ make.next # 0 /\ make.at \in Nat /\ make.at # 0 /\ make.at - 1 \in Nat
         /\ make.next \in Nat /\ latest < make.next /\ latest < make.at /\ make.at <= make.next
         /\ make.next <= Len(log) /\ make.left \subseteq log[make.at]
         /\ \A c \in Held : c < make.next
<1>1. loaded
  BY DEF TreeInv, MakingInv
<1>2. /\ make.next \in Nat /\ make.at \in Nat /\ latest < make.at /\ make.at <= make.next
      /\ make.next <= Len(log) /\ make.left \subseteq log[make.at]
  BY DEF IInv, MakeInv, Making
<1>3. /\ latest \in Nat /\ Len(log) \in Nat /\ Len(log) <= MaxTs
      /\ \A c \in Held : c \in Nat /\ c <= latest
  BY HeldIs
<1>4. make.next \in Versions /\ make.next # 0 /\ make.at # 0 /\ make.at - 1 \in Nat /\ latest < make.next
  BY <1>2, <1>3, TreeAssumption DEF Versions
<1>5. \A c \in Held : c < make.next
  BY <1>2, <1>3, <1>4
<1> QED  BY <1>1, <1>2, <1>4, <1>5

\* The collector has no page of the latest checkpoint, until the next one is complete.
LEMMA Apart ==
  ASSUME IInv, TreeInv, loaded, make.pc # "publish", NEW p \in Handed
  PROVE  p \notin Nodes(heap, LatestRoot)
<1>1. latest \in Nat /\ latest \in Held
  BY HeldIs
<1>2. heap[p].obs <= latest /\ (p \in Nodes(heap, LatestRoot) => latest < heap[p].obs)
  BY <1>1 DEF TreeInv, EntriesInv, LatestRoot
<1>3. heap[p].obs \in Nat
  <2>1. p \in PageIds
    BY DEF Handed, PagesIn
  <2>2. heap[p].obs \in Versions \cup {InvalidTs}
    BY <2>1 DEF TreeInv, TypeOK, Pages
  <2> QED  BY <2>2, TreeAssumption DEF Versions
<1> QED  BY <1>1, <1>2, <1>3

-----------------------------------------------------------------------------
(* Steps that leave the pages alone *)

\* Nothing changes but what is checked out.
LEMMA PinStep ==
  ASSUME IInv, TreeInv, UNCHANGED <<log, heap, cps, latest, reverse, entries, make, patched, leaked, failures, loaded>>,
         pinned' \subseteq Versions, Held' \subseteq Held, pinned' = {} \/ loaded
  PROVE  TreeInv'
<1>1. TypeOK' /\ CpsInv' /\ HeldInv'
  BY DEF TreeInv, TypeOK, CpsInv, HeldInv, InodesHanded
<1>2. MakingInv' /\ StackInv' /\ PublishInv'
  BY DEF TreeInv, MakingInv, StackInv, PublishInv, Making, LatestRoot, Handed, InodesHanded
<1>3. EntriesInv'
  <2>1. EntriesInv
    BY DEF TreeInv
  <2>2. Handed' = Handed /\ InodesHanded' = InodesHanded
    BY DEF Handed, InodesHanded
  <2> QED  BY <2>1, <2>2 DEF EntriesInv
<1>4. LeakedInv' /\ AccountInv' /\ GoneInv'
  BY DEF TreeInv, LeakedInv, AccountInv, GoneInv, AllFreed, Making, LatestRoot, Handed
<1> QED  BY <1>1, <1>2, <1>3, <1>4 DEF TreeInv

\* A reader that comes or goes changes no tree.
LEMMA PinSteps ==
  ASSUME IInv, TreeInv, Checkout \/ \E c \in Versions : Release(c)
  PROVE  TreeInv'
<1>0. pinned \subseteq Versions /\ latest \in Versions /\ (~loaded => pinned = {})
  BY DEF TreeInv, TypeOK, GoneInv
<1>1. CASE Checkout
  <2>1. pinned' = pinned \cup {latest} /\ loaded /\ loaded' /\ latest' = latest
    BY <1>1 DEF Checkout
  <2>2. Held' \subseteq Held
    BY <2>1 DEF Held
  <2> QED  BY <1>0, <1>1, <2>1, <2>2, PinStep DEF Checkout
<1>2. CASE \E c \in Versions : Release(c)
  <2>1. PICK c \in Versions : Release(c)
    BY <1>2
  <2>2. pinned' = pinned \ {c} /\ loaded' = loaded /\ latest' = latest /\ loaded
    BY <1>0, <2>1 DEF Release
  <2>3. Held' \subseteq Held
    BY <2>2 DEF Held
  <2> QED  BY <1>0, <2>1, <2>2, <2>3, PinStep DEF Release
<1> QED  BY <1>1, <1>2

\* A commit adds to the log, after what any tree holds.
LEMMA TreeCommit ==
  ASSUME IInv, TreeInv, NEW W \in SUBSET Addrs, Commit(W)
  PROVE  TreeInv'
<1>1. /\ loaded /\ Len(log) < MaxTs /\ log' = Append(log, W)
      /\ UNCHANGED <<heap, cps, latest, reverse, entries, make, pinned, patched, leaked, failures, loaded>>
  BY DEF Commit
<1>2. log \in Seq(SUBSET Addrs) /\ Len(log) \in Nat /\ MaxTs \in Nat
  BY TreeAssumption DEF TreeInv, TypeOK
<1>3. log' \in Seq(SUBSET Addrs) /\ Len(log') <= MaxTs /\ \A i \in 1..Len(log) : log'[i] = log[i]
  BY <1>1, <1>2
<1>4. ASSUME NEW c \in Nat, c <= Len(log), NEW a PROVE LastIn(log', a, c) = LastIn(log, a, c)
  <2>1. \A i \in 1..c : log'[i] = log[i]
    BY <1>2, <1>3, <1>4
  <2> QED  BY <2>1, LogGrows
<1>5. TypeOK' /\ CpsInv'
  BY <1>1, <1>3 DEF TreeInv, TypeOK, CpsInv, InodesHanded
<1>6. HeldInv'
  <2>1. Held' = Held
    BY <1>1 DEF Held
  <2>2. ASSUME NEW c \in Held PROVE c \in DOMAIN cps /\ c <= latest /\ InUse(heap, cps[c].root, c, log', leaked)
    <3>1. /\ c \in Nat /\ c \in DOMAIN cps /\ c <= latest /\ InUse(heap, cps[c].root, c, log, leaked)
          /\ latest \in Nat /\ latest <= Len(log)
      BY HeldIs
    <3>2. c <= Len(log)
      BY <1>2, <3>1
    <3>3. Holds(heap, cps[c].root, log', c)
      BY <1>4, <3>1, <3>2 DEF InUse, Holds
    <3> QED  BY <3>1, <3>3 DEF InUse
  <2> QED  BY <1>1, <2>1, <2>2 DEF HeldInv
<1>7. MakingInv'
  <2> SUFFICES ASSUME Making PROVE Partly(heap, make, log')
    BY <1>1 DEF TreeInv, MakingInv, Making, LatestRoot, Handed
  <2>1. /\ make.at \in Nat /\ make.at - 1 \in Nat /\ make.at <= make.next /\ make.next <= Len(log) /\ make.next \in Nat
    BY MakingIs
  <2>2. make.at <= Len(log) /\ make.at - 1 <= Len(log)
    BY <1>2, <2>1
  <2>3. \A a : Applied(make, log', a) = Applied(make, log, a)
    BY <1>4, <2>1, <2>2 DEF Applied
  <2> QED  BY <2>3 DEF TreeInv, MakingInv, Partly
<1>8. StackInv' /\ PublishInv'
  BY <1>1 DEF TreeInv, StackInv, PublishInv, LatestRoot, Handed, InodesHanded
<1>9. EntriesInv'
  <2>1. EntriesInv
    BY DEF TreeInv
  <2>2. Handed' = Handed /\ InodesHanded' = InodesHanded /\ Held' = Held
    BY <1>1 DEF Handed, InodesHanded, Held
  <2> QED  BY <1>1, <2>1, <2>2 DEF EntriesInv
<1>10. LeakedInv' /\ AccountInv' /\ GoneInv'
  BY <1>1 DEF TreeInv, LeakedInv, AccountInv, GoneInv, AllFreed, Making, LatestRoot, Handed
<1> QED  BY <1>5, <1>6, <1>7, <1>8, <1>9, <1>10 DEF TreeInv

\* What stays as it is if only the checkpointer moves.
LEMMA Around ==
  ASSUME IInv, TreeInv, make.pc # "publish", make'.pc \in {"idle", "apply", "publish", "stopped"},
         UNCHANGED <<log, heap, cps, latest, reverse, entries, pinned, patched, leaked, failures, loaded>>
  PROVE  /\ TypeOK' /\ CpsInv' /\ HeldInv' /\ EntriesInv' /\ LeakedInv' /\ GoneInv'
         /\ Handed' = Handed /\ InodesHanded' = InodesHanded /\ Held' = Held
<1>1. Handed' = Handed /\ InodesHanded' = InodesHanded /\ Held' = Held
  BY DEF Handed, InodesHanded, Held
<1>2. TypeOK' /\ CpsInv'
  BY <1>1 DEF TreeInv, TypeOK, CpsInv
<1>3. HeldInv'
  BY <1>1 DEF TreeInv, HeldInv
<1>4. EntriesInv'
  BY <1>1 DEF TreeInv, EntriesInv
<1>5. LeakedInv' /\ GoneInv'
  BY DEF TreeInv, LeakedInv, GoneInv, AllFreed
<1> QED  BY <1>1, <1>2, <1>3, <1>4, <1>5

\* A checkpoint begins with the tree of the latest one.
LEMMA TreeStart ==
  ASSUME WellOrdered, IInv, TreeInv, StartCheckpoint
  PROVE  TreeInv'
<1>1. /\ loaded /\ make.pc = "idle"
      /\ make' = [pc |-> "apply", next |-> Len(log), root |-> LatestRoot,
                  at |-> latest + 1, left |-> log[latest + 1], stack |-> <<>>]
      /\ UNCHANGED <<log, heap, cps, latest, reverse, entries, pinned, patched, leaked, failures, loaded>>
  BY DEF StartCheckpoint, LatestRoot
<1>2. /\ make'.pc = "apply" /\ make'.root = LatestRoot /\ make'.at = latest + 1
      /\ make'.left = log[latest + 1] /\ make'.stack = <<>>
  BY <1>1
<1>3. /\ TypeOK' /\ CpsInv' /\ HeldInv' /\ EntriesInv' /\ LeakedInv' /\ GoneInv'
      /\ Handed' = Handed /\ InodesHanded' = InodesHanded /\ Held' = Held
  BY <1>1, <1>2, Around
<1>4. /\ latest \in Nat /\ InUse(heap, LatestRoot, latest, log, leaked) /\ Tree(heap, LatestRoot)
  BY <1>1, HeldIs
<1>5. LatestRoot' = LatestRoot
  BY <1>1 DEF LatestRoot
<1>6. Partly(heap, make', log)
  <2> SUFFICES ASSUME NEW a \in Words
               PROVE  Child(heap, PageOn(heap, make'.root, Route(a), 0), a.word) = Applied(make', log, a)
    BY DEF Partly
  <2>1. Child(heap, PageOn(heap, LatestRoot, Route(a), 0), a.word) = LastIn(log, a, latest)
    BY <1>4 DEF InUse, Holds
  <2>2. LastIn(log, a, latest + 1) = IF a \in log[latest + 1] THEN latest + 1 ELSE LastIn(log, a, latest)
    BY <1>4, LastNext
  <2>3. (latest + 1) - 1 = latest
    BY <1>4
  <2> QED  BY <1>2, <2>1, <2>2, <2>3 DEF Applied
<1>7. MakingInv'
  <2>1. ASSUME NEW p \in Nodes(heap, LatestRoot) PROVE p \notin leaked /\ p \notin Handed
    BY <1>1, <1>4, Apart DEF InUse
  <2> QED  BY <1>1, <1>2, <1>3, <1>4, <1>5, <1>6, <2>1 DEF MakingInv
<1>8. StackInv'
  <2>1. <<>> \in Seq(PageIds) /\ DOMAIN <<>> = {}
    OBVIOUS
  <2>2. make'.stack \in Seq(PageIds) /\ DOMAIN make'.stack = {}
    BY <1>2, <2>1
  <2>3. {make'.stack[i] : i \in DOMAIN make'.stack} = {}
    BY <2>2
  <2> QED  BY <1>1, <1>2, <1>5, <2>2, <2>3 DEF StackInv
<1>9. PublishInv' /\ AccountInv'
  BY <1>1, <1>2, <1>3, <1>5 DEF TreeInv, PublishInv, AccountInv, Making
<1> QED  BY <1>3, <1>7, <1>8, <1>9 DEF TreeInv

\* The next entry: all of it is left to apply.
LEMMA TreeEntry ==
  ASSUME WellOrdered, IInv, TreeInv, NextEntry
  PROVE  TreeInv'
<1>1. /\ make.pc = "apply" /\ make.left = {}
      /\ make' = [make EXCEPT !.at = make.at + 1, !.left = log[make.at + 1]]
      /\ UNCHANGED <<log, heap, cps, latest, reverse, entries, pinned, patched, leaked, failures, loaded>>
  BY DEF NextEntry
<1>2. /\ make'.pc = "apply" /\ make'.root = make.root /\ make'.at = make.at + 1 /\ make'.next = make.next
      /\ make'.left = log[make.at + 1] /\ make'.stack = make.stack
  BY <1>1 DEF IInv, MakeFields
<1>3. /\ TypeOK' /\ CpsInv' /\ HeldInv' /\ EntriesInv' /\ LeakedInv' /\ GoneInv'
      /\ Handed' = Handed /\ InodesHanded' = InodesHanded /\ Held' = Held
  BY <1>1, <1>2, Around
<1>4. LatestRoot' = LatestRoot /\ Making /\ make.at \in Nat
  BY <1>1, MakingIs DEF LatestRoot, Making
<1>5. Partly(heap, make', log)
  <2> SUFFICES ASSUME NEW a \in Words
               PROVE  Child(heap, PageOn(heap, make'.root, Route(a), 0), a.word) = Applied(make', log, a)
    BY DEF Partly
  <2>1. Child(heap, PageOn(heap, make.root, Route(a), 0), a.word) = LastIn(log, a, make.at)
    BY <1>1, <1>4 DEF TreeInv, MakingInv, Partly, Applied
  <2>2. LastIn(log, a, make.at + 1) = IF a \in log[make.at + 1] THEN make.at + 1 ELSE LastIn(log, a, make.at)
    BY <1>4, LastNext
  <2>3. (make.at + 1) - 1 = make.at
    BY <1>4
  <2> QED  BY <1>2, <2>1, <2>2, <2>3 DEF Applied
<1>6. MakingInv'
  BY <1>1, <1>2, <1>3, <1>4, <1>5 DEF TreeInv, MakingInv
<1>7. StackInv'
  BY <1>1, <1>2, <1>4 DEF TreeInv, StackInv
<1>8. PublishInv' /\ AccountInv'
  BY <1>1, <1>2, <1>3, <1>4 DEF TreeInv, PublishInv, AccountInv, Making
<1> QED  BY <1>3, <1>6, <1>7, <1>8 DEF TreeInv

\* The inode of the latest checkpoint gets its end.
LEMMA EndedIs ==
  ASSUME IInv, TreeInv, loaded, NEW x, cps' = [cps EXCEPT ![latest].obs = x]
  PROVE  /\ DOMAIN cps' = DOMAIN cps /\ cps'[latest].root = cps[latest].root /\ cps'[latest].obs = x
         /\ \A c \in DOMAIN cps : c # latest => cps'[c] = cps[c]
         /\ \A c \in DOMAIN cps : cps'[c].root = cps[c].root
         /\ \A c \in DOMAIN cps' : cps'[c] = [root |-> cps'[c].root, obs |-> cps'[c].obs]
<1>1. latest \in DOMAIN cps
  BY HeldIs
<1>2. \A c \in DOMAIN cps : cps[c] = [root |-> cps[c].root, obs |-> cps[c].obs]
  BY DEF TreeInv, CpsInv
<1> DEFINE r == cps[latest]
<1>3. r = [root |-> r.root, obs |-> r.obs]
  BY <1>1, <1>2
<1>4. [r EXCEPT !.obs = x] = [root |-> r.root, obs |-> x]
  <2> DEFINE s == r.root
             t == r.obs
  <2>1. r = [root |-> s, obs |-> t]
    BY <1>3
  <2> HIDE DEF r, s, t
  <2>2. [r EXCEPT !.obs = x] = [root |-> s, obs |-> x]
    BY <2>1
  <2> QED  BY <2>2 DEF s
<1>5. /\ DOMAIN cps' = DOMAIN cps /\ cps'[latest] = [root |-> r.root, obs |-> x]
      /\ \A c \in DOMAIN cps : c # latest => cps'[c] = cps[c]
  BY <1>1, <1>4
<1>6. cps'[latest].root = cps[latest].root /\ cps'[latest].obs = x
  BY <1>5
<1>7. \A c \in DOMAIN cps : cps'[c].root = cps[c].root
  BY <1>5, <1>6
<1>8. \A c \in DOMAIN cps' : cps'[c] = [root |-> cps'[c].root, obs |-> cps'[c].obs]
  BY <1>2, <1>5, <1>6
<1> QED  BY <1>5, <1>6, <1>7, <1>8

\* The stack goes to the collector, with the inode of the latest checkpoint.
LEMMA TreeMark ==
  ASSUME IInv, TreeInv, MarkObsoleted
  PROVE  TreeInv'
<1> DEFINE S == {make.stack[i] : i \in DOMAIN make.stack}
           new == {PageEntry(make.stack[i]) : i \in DOMAIN make.stack} \cup {InodeEntry(latest)}
<1>1. make.pc = "apply" /\ make.left = {} /\ make.at = make.next /\ ~Exists
  BY Before DEF MarkObsoleted, Replayed, Exists
<1>2. /\ reverse' = reverse \cup {make.next} /\ cps' = [cps EXCEPT ![latest].obs = make.next]
      /\ entries' = With(entries, new) /\ make' = [make EXCEPT !.pc = "publish", !.stack = <<>>]
      /\ UNCHANGED <<log, heap, latest, pinned, patched, leaked, failures, loaded>>
  BY <1>1 DEF MarkObsoleted
<1>3. /\ make'.pc = "publish" /\ make'.root = make.root /\ make'.at = make.at /\ make'.next = make.next
      /\ make'.left = make.left
  BY <1>2 DEF IInv, MakeFields
<1>4. /\ Making /\ loaded /\ make.next \in Versions /\ make.next \in Nat /\ latest < make.next
      /\ \A c \in Held : c < make.next
  BY <1>1, MakingIs DEF Making
<1>5. /\ latest \in Nat /\ latest \in Versions /\ latest \in Held
      /\ InUse(heap, LatestRoot, latest, log, leaked) /\ Tree(heap, LatestRoot)
  BY <1>4, HeldIs
<1>6. /\ DOMAIN cps' = DOMAIN cps /\ cps'[latest].obs = make.next
      /\ \A c \in DOMAIN cps : c # latest => cps'[c] = cps[c]
      /\ \A c \in DOMAIN cps : cps'[c].root = cps[c].root
      /\ \A c \in DOMAIN cps' : cps'[c] = [root |-> cps'[c].root, obs |-> cps'[c].obs]
  BY <1>2, <1>4, EndedIs
<1>7. /\ S = Nodes(heap, LatestRoot) \ Nodes(heap, make.root)
      /\ \A p \in S : heap[p].obs = make.next
  BY <1>1 DEF TreeInv, StackInv
<1>8. \A e : e \in new <=> (\E p \in S : e = PageEntry(p)) \/ e = InodeEntry(latest)
  OBVIOUS
<1> HIDE DEF S, new
<1>9. ASSUME NEW p \in S
      PROVE  p \in PageIds /\ heap[p].live /\ p \notin ZeroPages /\ p \notin leaked /\ heap[p].ts <= latest /\ p \notin Handed
  <2>1. p \in Nodes(heap, LatestRoot) /\ Typed(heap, LatestRoot)
    BY <1>5, <1>7 DEF Tree
  <2>2. p \in PageIds /\ heap[p].live /\ p \notin ZeroPages
    BY <2>1, NodesLive
  <2>3. p \notin leaked /\ heap[p].ts <= latest
    BY <1>5, <2>1 DEF InUse
  <2>4. p \notin Handed
    BY <1>1, <1>4, <2>1, Apart
  <2> QED  BY <2>2, <2>3, <2>4
<1>10. latest \notin InodesHanded
  BY <1>1, <1>5 DEF TreeInv, EntriesInv
<1>11. \A e \in DOMAIN entries : entries[e] = 1 /\ IsEntry(e)
  BY DEF TreeInv, EntriesInv
<1>12. \A e \in new : e \notin DOMAIN entries
  <2>1. \A p \in S : PageEntry(p) \notin DOMAIN entries
    BY <1>9 DEF Handed, PagesIn
  <2>2. InodeEntry(latest) \notin DOMAIN entries
    BY <1>5, <1>10 DEF InodesHanded, InodesIn
  <2> QED  BY <1>8, <2>1, <2>2
<1>13. DOMAIN entries' = DOMAIN entries \cup new /\ \A e \in DOMAIN entries' : entries'[e] = 1
  BY <1>2, <1>11, <1>12, WithIs
<1>14. Handed' = Handed \cup S
  <2>1. ASSUME NEW p \in PageIds PROVE PageEntry(p) \in DOMAIN entries' <=> PageEntry(p) \in DOMAIN entries \/ p \in S
    BY <1>8, <1>13, EntryIs
  <2> QED  BY <1>9, <2>1 DEF Handed, PagesIn
<1>15. InodesHanded' = InodesHanded \cup {latest}
  <2>1. ASSUME NEW c \in Versions PROVE InodeEntry(c) \in DOMAIN entries' <=> InodeEntry(c) \in DOMAIN entries \/ c = latest
    BY <1>8, <1>13, EntryIs
  <2> QED  BY <1>5, <2>1 DEF InodesHanded, InodesIn
<1>16. Held' = Held
  BY <1>2 DEF Held
<1>17. LatestRoot' = LatestRoot
  <2>1. latest \in DOMAIN cps
    BY <1>5, HeldIs
  <2> QED  BY <1>2, <1>6, <2>1 DEF LatestRoot
<1>18. TypeOK' /\ CpsInv'
  <2>1. TypeOK'
    BY <1>2, <1>3, <1>4, <1>6 DEF TreeInv, TypeOK
  <2>2. DOMAIN cps' = {latest} \cup InodesHanded'
    BY <1>4, <1>6, <1>15 DEF TreeInv, CpsInv
  <2> QED  BY <1>2, <1>6, <2>1, <2>2 DEF CpsInv
<1>19. HeldInv'
  BY <1>2, <1>6, <1>16 DEF TreeInv, HeldInv
<1>20. MakingInv'
  <2>1. Partly(heap, make', log)
    BY <1>3, <1>4 DEF TreeInv, MakingInv, Partly, Applied
  <2>2. ASSUME NEW p \in Nodes(heap, make.root) PROVE p \notin Handed'
    BY <1>4, <1>7, <1>14 DEF TreeInv, MakingInv
  <2> QED  BY <1>2, <1>3, <1>4, <1>17, <2>1, <2>2 DEF TreeInv, MakingInv
<1>21. StackInv' /\ PublishInv'
  BY <1>1, <1>2, <1>3, <1>7, <1>14, <1>15, <1>17, ZenonT(20) DEF StackInv, PublishInv
<1>22. EntriesInv'
  <2>1. \A e \in DOMAIN entries' : entries'[e] = 1 /\ IsEntry(e)
    <3>1. \A e \in new : IsEntry(e)
      BY <1>5, <1>8, <1>9 DEF IsEntry
    <3> QED  BY <1>11, <1>13, <3>1
  <2>2. ASSUME NEW p \in Handed'
        PROVE  /\ heap[p].live /\ p \notin ZeroPages /\ p \notin leaked /\ heap[p].ts <= latest
               /\ heap[p].obs <= latest \/ heap[p].obs = make.next
               /\ \A c \in Held : p \in Nodes(heap, cps[c].root) => c < heap[p].obs
    <3>1. CASE p \in Handed
      BY <1>1, <3>1 DEF TreeInv, EntriesInv
    <3>2. CASE p \in S
      BY <1>4, <1>7, <1>9, <3>2
    <3> QED  BY <1>14, <3>1, <3>2
  <2>3. \A c \in Held : cps'[c].root = cps[c].root
    BY <1>6, HeldIs
  <2>4. ASSUME NEW c \in InodesHanded' PROVE cps'[c].obs \in Nat /\ c < cps'[c].obs /\ (c < latest \/ c = latest)
    <3>1. CASE c = latest
      BY <1>4, <1>6, <3>1
    <3>2. CASE c # latest
      <4>1. c \in InodesHanded /\ c \in DOMAIN cps
        BY <1>4, <1>15, <3>2 DEF TreeInv, CpsInv
      <4> QED  BY <1>1, <1>6, <3>2, <4>1 DEF TreeInv, EntriesInv
    <3> QED  BY <3>1, <3>2
  <2> QED  BY <1>2, <1>3, <1>16, <2>1, <2>2, <2>3, <2>4 DEF EntriesInv
<1>23. LeakedInv' /\ AccountInv' /\ GoneInv'
  BY <1>2, <1>3, <1>4, <1>14, <1>17 DEF TreeInv, LeakedInv, AccountInv, GoneInv, Making
<1> QED  BY <1>18, <1>19, <1>20, <1>21, <1>22, <1>23 DEF TreeInv

\* The checkpoint becomes the latest.
LEMMA TreePublish ==
  ASSUME IInv, TreeInv, Publish
  PROVE  TreeInv'
<1>1. /\ make.pc = "publish" /\ latest' = make.next /\ make' = Idle
      /\ cps' = [c \in DOMAIN cps \cup {make.next} |->
                  IF c = make.next THEN [root |-> make.root, obs |-> 0] ELSE cps[c]]
      /\ UNCHANGED <<log, heap, reverse, entries, pinned, patched, leaked, failures, loaded>>
  BY DEF Publish
<1>2. /\ Making /\ loaded /\ make.next \in Versions /\ make.next \in Nat /\ latest < make.next
      /\ \A c \in Held : c < make.next
  BY <1>1, MakingIs DEF Making
<1>3. /\ latest \in Nat /\ latest \in Held /\ InUse(heap, LatestRoot, latest, log, leaked)
      /\ \A c \in Held : c \in Nat /\ c \in DOMAIN cps
  BY <1>2, HeldIs
<1>4. make'.pc = "idle"
  BY <1>1 DEF Idle
<1>5. Handed' = Handed /\ InodesHanded' = InodesHanded /\ Held' = pinned \cup {make.next} /\ pinned \subseteq Held
  BY <1>1, <1>2 DEF Handed, InodesHanded, Held
<1>6. /\ DOMAIN cps' = DOMAIN cps \cup {make.next} /\ cps'[make.next] = [root |-> make.root, obs |-> 0]
      /\ \A c \in DOMAIN cps : c # make.next => cps'[c] = cps[c]
  BY <1>1
<1>7. cps'[make.next].root = make.root /\ LatestRoot' = make.root
  BY <1>1, <1>6 DEF LatestRoot
<1>8. \A c \in pinned : cps'[c] = cps[c] /\ c # make.next /\ c \in DOMAIN cps
  <2>1. \A c \in Held : c # make.next
    BY <1>2, <1>3
  <2> QED  BY <1>3, <1>5, <1>6, <2>1
<1>9. /\ Tree(heap, make.root) /\ Partly(heap, make, log)
      /\ \A p \in Nodes(heap, make.root) :
           /\ heap[p].ts = make.next \/ p \in Nodes(heap, LatestRoot)
           /\ p \notin leaked /\ p \notin Handed
      /\ make.left = {} /\ make.at = make.next /\ latest \in InodesHanded
      /\ Nodes(heap, LatestRoot) \ Nodes(heap, make.root) \subseteq Handed
  BY <1>1, <1>2 DEF TreeInv, MakingInv, PublishInv
<1>10. InUse(heap, make.root, make.next, log, leaked)
  <2>1. ASSUME NEW p \in Nodes(heap, make.root) PROVE heap[p].ts <= make.next
    <3>1. CASE heap[p].ts = make.next
      BY <1>2, <3>1
    <3>2. CASE p \in Nodes(heap, LatestRoot)
      <4>1. heap[p].ts <= latest
        BY <1>3, <3>2 DEF InUse
      <4>2. heap[p].ts \in Nat
        <5>1. p \in PageIds
          BY <1>9, NodesLive DEF Tree
        <5>2. heap[p].ts \in Versions
          BY <5>1 DEF TreeInv, TypeOK, Pages
        <5> QED  BY <5>2 DEF Versions
      <4> QED  BY <1>2, <1>3, <4>1, <4>2
    <3> QED  BY <1>9, <3>1, <3>2
  <2>2. Holds(heap, make.root, log, make.next)
    BY <1>9 DEF Holds, Partly, Applied
  <2> QED  BY <1>9, <2>1, <2>2 DEF InUse
<1>11. TypeOK'
  <2>1. DOMAIN cps' \subseteq Versions
    BY <1>2, <1>6 DEF TreeInv, TypeOK
  <2> QED  BY <1>1, <1>2, <1>4, <2>1 DEF TreeInv, TypeOK
<1>12. CpsInv'
  <2>1. DOMAIN cps' = {latest'} \cup InodesHanded'
    BY <1>1, <1>2, <1>5, <1>6, <1>9 DEF TreeInv, CpsInv
  <2>2. ASSUME NEW c \in DOMAIN cps' PROVE cps'[c] = [root |-> cps'[c].root, obs |-> cps'[c].obs]
    <3>1. CASE c = make.next
      BY <1>6, <3>1
    <3>2. CASE c # make.next
      <4>1. cps'[c] = cps[c] /\ c \in DOMAIN cps
        BY <1>6, <3>2
      <4> QED  BY <4>1 DEF TreeInv, CpsInv
    <3> QED  BY <3>1, <3>2
  <2> QED  BY <2>1, <2>2 DEF CpsInv
<1>13. HeldInv'
  <2> SUFFICES ASSUME NEW c \in pinned \cup {make.next}
               PROVE  c \in DOMAIN cps' /\ c <= make.next /\ InUse(heap, cps'[c].root, c, log, leaked)
    BY <1>1, <1>5 DEF HeldInv
  <2>1. CASE c = make.next
    BY <1>2, <1>6, <1>7, <1>10, <2>1
  <2>2. CASE c \in pinned
    <3>1. c \in Held /\ cps'[c] = cps[c] /\ c \in DOMAIN cps'
      BY <1>5, <1>6, <1>8, <2>2
    <3>2. c \in Nat /\ c <= latest /\ InUse(heap, cps[c].root, c, log, leaked)
      BY <3>1, HeldIs
    <3>3. c <= make.next
      BY <1>2, <1>3, <3>2
    <3> QED  BY <3>1, <3>2, <3>3
  <2> QED  BY <2>1, <2>2
<1>14. MakingInv' /\ StackInv' /\ PublishInv'
  BY <1>4 DEF MakingInv, StackInv, PublishInv, Making
<1>15. EntriesInv'
  <2>1. \A e \in DOMAIN entries : entries[e] = 1 /\ IsEntry(e)
    BY DEF TreeInv, EntriesInv
  <2>2. ASSUME NEW p \in Handed
        PROVE  /\ heap[p].live /\ p \notin ZeroPages /\ p \notin leaked /\ heap[p].ts <= make.next
               /\ heap[p].obs <= make.next
               /\ \A c \in pinned \cup {make.next} : p \in Nodes(heap, cps'[c].root) => c < heap[p].obs
    <3>1. /\ heap[p].live /\ p \notin ZeroPages /\ p \notin leaked /\ heap[p].ts <= latest
          /\ heap[p].obs <= latest \/ heap[p].obs = make.next
          /\ \A c \in Held : p \in Nodes(heap, cps[c].root) => c < heap[p].obs
      BY DEF TreeInv, EntriesInv
    <3>2. heap[p].ts \in Nat /\ heap[p].obs \in Nat
      <4>1. p \in PageIds
        BY DEF Handed, PagesIn
      <4>2. heap[p].ts \in Versions /\ heap[p].obs \in Versions \cup {InvalidTs}
        BY <4>1 DEF TreeInv, TypeOK, Pages
      <4> QED  BY <4>2, TreeAssumption DEF Versions
    <3>3. heap[p].ts <= make.next /\ heap[p].obs <= make.next
      BY <1>2, <1>3, <3>1, <3>2
    <3>4. ASSUME NEW c \in pinned \cup {make.next}, p \in Nodes(heap, cps'[c].root) PROVE c < heap[p].obs
      <4>1. c # make.next
        BY <1>7, <1>9, <3>4
      <4>2. c \in Held /\ cps'[c] = cps[c]
        BY <1>5, <1>8, <4>1
      <4> QED  BY <3>1, <3>4, <4>2
    <3> QED  BY <3>1, <3>3, <3>4
  <2>3. ASSUME NEW c \in InodesHanded PROVE cps'[c].obs \in Nat /\ c < cps'[c].obs /\ c < make.next
    <3>1. cps[c].obs \in Nat /\ c < cps[c].obs /\ (c < latest \/ c = latest) /\ c \in DOMAIN cps /\ c \in Nat
      <4>1. c \in Versions
        BY DEF InodesHanded, InodesIn
      <4> QED  BY <1>2, <4>1 DEF TreeInv, EntriesInv, CpsInv, Versions
    <3>2. c < make.next
      BY <1>2, <1>3, <3>1
    <3>3. cps'[c] = cps[c]
      BY <1>2, <1>6, <3>1, <3>2
    <3> QED  BY <3>1, <3>2, <3>3
  <2> QED  BY <1>1, <1>5, <2>1, <2>2, <2>3 DEF EntriesInv
<1>16. AccountInv'
  <2> SUFFICES ASSUME NEW p \in PageIds, heap[p].live
               PROVE  p \in ZeroPages \/ p \in leaked \/ p \in Handed \/ p \in Nodes(heap, make.root)
    BY <1>1, <1>5, <1>7 DEF AccountInv
  <2> QED  BY <1>2, <1>9 DEF TreeInv, AccountInv
<1>17. LeakedInv' /\ GoneInv'
  BY <1>1, <1>2 DEF TreeInv, LeakedInv, GoneInv
<1> QED  BY <1>11, <1>12, <1>13, <1>14, <1>15, <1>16, <1>17 DEF TreeInv

-----------------------------------------------------------------------------
(* Steps that change pages *)

\* Work on the new checkpoint, up to now: no page of another checkpoint is changed.
Worked(h, root, next, g) ==
  /\ g \in [PageIds -> Pages] /\ ZerosKept(g) /\ OthersKept(h, root, next, g)
  /\ \A p \in PageIds : ~h[p].live /\ g[p].live => g[p].ts = next

\* Doing nothing is work of the maker.
LEMMA WorkedSelf ==
  ASSUME IInv, TreeInv, loaded
  PROVE  Worked(heap, make.root, make.next, heap)
<1>1. heap \in [PageIds -> Pages] /\ ZerosKept(heap)
  BY HeldIs DEF TreeInv, TypeOK
<1> QED  BY <1>1 DEF Worked, OthersKept

\* The trees in use do not notice.
LEMMA OthersInUse ==
  ASSUME WellOrdered, IInv, TreeInv, make.pc = "apply", NEW g, Worked(heap, make.root, make.next, g), NEW c \in Held,
         NEW lk, \A p \in lk : p \in leaked \/ g[p].ts = make.next
  PROVE  InUse(g, cps[c].root, c, log, lk) /\ Nodes(g, cps[c].root) = Nodes(heap, cps[c].root)
<1>1. Making /\ c < make.next /\ make.next \in Nat
  BY MakingIs DEF Making
<1>2. c \in Nat /\ InUse(heap, cps[c].root, c, log, leaked)
  BY HeldIs
<1>3. ASSUME NEW p \in Nodes(heap, cps[c].root)
      PROVE  g[p].slots = heap[p].slots /\ g[p].live /\ g[p].ts = heap[p].ts /\ p \notin lk
  <2>1. p \in PageIds /\ heap[p].live
    BY <1>2, NodesLive DEF InUse, Tree
  <2>2. heap[p].ts <= c /\ p \notin leaked
    BY <1>2 DEF InUse
  <2>3. heap[p].ts \in Nat
    <3>1. heap[p].ts \in Versions
      BY <2>1 DEF TreeInv, TypeOK, Pages
    <3> QED  BY <3>1 DEF Versions
  <2>4. heap[p].ts # make.next
    BY <1>1, <1>2, <2>2, <2>3
  <2>5. g[p].live /\ g[p].ts = heap[p].ts /\ g[p].slots = heap[p].slots
    BY <2>1, <2>4 DEF Worked, OthersKept
  <2> QED  BY <2>2, <2>4, <2>5
<1>4. g \in [PageIds -> Pages] /\ ZerosKept(g)
  BY DEF Worked
<1>5. Untouched(heap, g, cps[c].root, lk)
  BY <1>3 DEF Untouched
<1> QED  BY <1>2, <1>4, <1>5, FrameUse

\* Nor does what the collector has, or what leaked before.
LEMMA HandedKept ==
  ASSUME IInv, TreeInv, make.pc = "apply", NEW g, Worked(heap, make.root, make.next, g), NEW p \in Handed
  PROVE  /\ p \in PageIds /\ g[p].live /\ g[p].ts = heap[p].ts /\ g[p].obs = heap[p].obs /\ g[p].ts # make.next
         /\ p \notin ZeroPages /\ p \notin leaked /\ heap[p].ts <= latest /\ heap[p].obs <= latest
         /\ \A c \in Held : p \in Nodes(heap, cps[c].root) => c < heap[p].obs
<1>1. /\ heap[p].live /\ p \notin ZeroPages /\ p \notin leaked /\ heap[p].ts <= latest /\ heap[p].obs <= latest
      /\ \A c \in Held : p \in Nodes(heap, cps[c].root) => c < heap[p].obs
  BY DEF TreeInv, EntriesInv
<1>2. p \in PageIds
  BY DEF Handed, PagesIn
<1>3. p \notin Nodes(heap, make.root)
  BY DEF TreeInv, MakingInv, Making
<1>4. g[p].live /\ g[p].ts = heap[p].ts /\ g[p].obs = heap[p].obs
  BY <1>1, <1>2, <1>3 DEF Worked, OthersKept
<1>5. heap[p].ts # make.next
  <2>1. heap[p].ts \in Versions
    BY <1>2 DEF TreeInv, TypeOK, Pages
  <2>2. latest < make.next /\ make.next \in Nat /\ latest \in Nat
    BY MakingIs, HeldIs DEF Making
  <2> QED  BY <1>1, <2>1, <2>2 DEF Versions
<1> QED  BY <1>1, <1>2, <1>4, <1>5

\* Work of the maker leaves the list of the collector sound.
LEMMA EntriesKept ==
  ASSUME WellOrdered, IInv, TreeInv, make.pc = "apply", NEW g, Worked(heap, make.root, make.next, g), heap' = g,
         make'.pc # "publish", UNCHANGED <<latest, entries, pinned, loaded>>,
         DOMAIN cps' = DOMAIN cps, \A c \in DOMAIN cps : cps'[c].root = cps[c].root,
         \A c \in DOMAIN cps : c # latest => cps'[c] = cps[c],
         \A p \in leaked' : p \in leaked \/ g[p].ts = make.next
  PROVE  EntriesInv' /\ Handed' = Handed /\ InodesHanded' = InodesHanded
<1>1. Handed' = Handed /\ InodesHanded' = InodesHanded /\ Held' = Held
  BY DEF Handed, InodesHanded, Held
<1>2. \A e \in DOMAIN entries : entries[e] = 1 /\ IsEntry(e)
  BY DEF TreeInv, EntriesInv
<1>3. ASSUME NEW p \in Handed
      PROVE  /\ g[p].live /\ p \notin ZeroPages /\ p \notin leaked' /\ g[p].ts <= latest /\ g[p].obs <= latest
             /\ \A c \in Held : p \in Nodes(g, cps'[c].root) => c < g[p].obs
  <2>1. /\ g[p].live /\ g[p].ts = heap[p].ts /\ g[p].obs = heap[p].obs /\ g[p].ts # make.next
        /\ p \notin ZeroPages /\ p \notin leaked /\ heap[p].ts <= latest /\ heap[p].obs <= latest
        /\ \A c \in Held : p \in Nodes(heap, cps[c].root) => c < heap[p].obs
    BY HandedKept, ZenonT(20)
  <2>2. p \notin leaked'
    BY <2>1
  <2>3. ASSUME NEW c \in Held PROVE Nodes(g, cps'[c].root) = Nodes(heap, cps[c].root)
    <3>1. cps'[c].root = cps[c].root
      BY HeldIs
    <3> QED  BY <3>1, OthersInUse
  <2> QED  BY <2>1, <2>2, <2>3
<1>4. ASSUME NEW c \in InodesHanded PROVE cps'[c].obs \in Nat /\ c < cps'[c].obs /\ c < latest
  <2>1. cps[c].obs \in Nat /\ c < cps[c].obs /\ c < latest /\ c \in DOMAIN cps
    BY MakingIs DEF TreeInv, EntriesInv, CpsInv, Making
  <2>2. c # latest
    <3>1. c \in Versions /\ latest \in Nat
      BY HeldIs DEF InodesHanded, InodesIn
    <3> QED  BY <2>1, <3>1 DEF Versions
  <2> QED  BY <2>1, <2>2
<1> QED  BY <1>1, <1>2, <1>3, <1>4 DEF EntriesInv

\* The checkpointer gives up: what it copied leaks, and nothing else.
LEMMA GiveUp ==
  ASSUME WellOrdered, IInv, TreeInv, make.pc = "apply", NEW g, Worked(heap, make.root, make.next, g), heap' = g,
         leaked' = leaked \cup {p \in Live(g) : g[p].ts = make.next}, make'.pc \in {"idle", "stopped"},
         UNCHANGED <<log, latest, entries, pinned, patched, loaded>>,
         DOMAIN cps' = DOMAIN cps, \A c \in DOMAIN cps : cps'[c].root = cps[c].root,
         \A c \in DOMAIN cps : c # latest => cps'[c] = cps[c],
         \A c \in DOMAIN cps' : cps'[c] = [root |-> cps'[c].root, obs |-> cps'[c].obs],
         reverse' \subseteq Versions, failures' \in 0..MaxFailures
  PROVE  TreeInv'
<1>1. Making /\ loaded /\ make.next # 0 /\ latest \in Held
  BY MakingIs, HeldIs DEF Making
<1>2. \A p \in leaked' : p \in leaked \/ (p \in PageIds /\ g[p].live /\ g[p].ts = make.next)
  BY DEF Live
<1>3. EntriesInv' /\ Handed' = Handed /\ InodesHanded' = InodesHanded
  BY <1>2, EntriesKept
<1>4. ASSUME NEW c \in Held
      PROVE  /\ c \in DOMAIN cps /\ c <= latest /\ InUse(g, cps'[c].root, c, log, leaked')
             /\ Nodes(g, cps'[c].root) = Nodes(heap, cps[c].root)
  <2>1. c \in DOMAIN cps /\ c <= latest /\ cps'[c].root = cps[c].root
    BY HeldIs
  <2> QED  BY <1>2, <2>1, OthersInUse, ZenonT(20)
<1>5. Held' = Held
  BY DEF Held
<1>6. HeldInv'
  BY <1>4, <1>5 DEF HeldInv
<1>7. TypeOK' /\ CpsInv'
  <2>1. leaked' \subseteq PageIds
    BY <1>2 DEF TreeInv, TypeOK
  <2>2. heap' \in [PageIds -> Pages]
    BY DEF Worked
  <2> QED  BY <1>1, <1>3, <2>1, <2>2 DEF TreeInv, TypeOK, CpsInv
<1>8. MakingInv' /\ StackInv' /\ PublishInv' /\ GoneInv'
  BY <1>1 DEF MakingInv, StackInv, PublishInv, GoneInv, Making
<1>9. LeakedInv'
  <2>1. ASSUME NEW p \in leaked PROVE g[p].live /\ p \notin ZeroPages
    <3>1. p \in PageIds /\ heap[p].live /\ p \notin ZeroPages
      BY DEF TreeInv, TypeOK, LeakedInv
    <3> QED  BY <3>1 DEF Worked, OthersKept
  <2>2. ASSUME NEW p \in PageIds, g[p].ts = make.next PROVE p \notin ZeroPages
    <3>1. \A r \in ZeroPages : g[r].ts = 0
      BY DEF Worked, ZerosKept, ZeroPages
    <3> QED  BY <1>1, <2>2, <3>1
  <2> QED  BY <1>2, <2>1, <2>2 DEF LeakedInv
<1>10. AccountInv'
  <2>1. LatestRoot' = cps'[latest].root /\ Nodes(g, LatestRoot') = Nodes(heap, LatestRoot)
    BY <1>1, <1>4 DEF LatestRoot
  <2> SUFFICES ASSUME NEW p \in PageIds, g[p].live
               PROVE  p \in ZeroPages \/ p \in leaked' \/ p \in Handed \/ p \in Nodes(heap, LatestRoot)
    BY <1>3, <2>1 DEF AccountInv
  <2>2. g[p].ts = make.next => p \in leaked'
    BY DEF Live
  <2>3. CASE ~heap[p].live
    BY <2>2, <2>3 DEF Worked
  <2>4. CASE heap[p].live
    <3>1. g[p].ts = heap[p].ts
      BY <2>4 DEF Worked, OthersKept
    <3>2. p \in Nodes(heap, make.root) => heap[p].ts = make.next \/ p \in Nodes(heap, LatestRoot)
      BY <1>1 DEF TreeInv, MakingInv
    <3>3. \/ p \in ZeroPages \/ p \in leaked \/ p \in Handed \/ p \in Nodes(heap, LatestRoot)
          \/ p \in Nodes(heap, make.root)
      BY <1>1, <2>4 DEF TreeInv, AccountInv
    <3> QED  BY <2>2, <3>1, <3>2, <3>3
  <2> QED  BY <2>3, <2>4
<1> QED  BY <1>3, <1>6, <1>7, <1>8, <1>9, <1>10 DEF TreeInv

\* It meets a word outside the tree.
LEMMA TreeOutside ==
  ASSUME WellOrdered, IInv, TreeInv, NEW a, ApplyOutside(a)
  PROVE  TreeInv'
<1>1. /\ make.pc = "apply" /\ make' = Stopped /\ leaked' = leaked \cup {p \in Live(heap) : heap[p].ts = make.next}
      /\ UNCHANGED <<log, heap, cps, latest, reverse, entries, pinned, patched, failures, loaded>>
  BY DEF ApplyOutside, Stop
<1>2. loaded /\ make'.pc = "stopped"
  BY <1>1, MakingIs DEF Making, Stopped, Idle
<1>3. Worked(heap, make.root, make.next, heap)
  BY <1>2, WorkedSelf
<1>4. /\ reverse \subseteq Versions /\ failures \in 0..MaxFailures
      /\ \A c \in DOMAIN cps : cps[c] = [root |-> cps[c].root, obs |-> cps[c].obs]
  BY DEF TreeInv, TypeOK, CpsInv
<1> QED  BY <1>1, <1>2, <1>3, <1>4, GiveUp

\* Or memory runs out at the end.
LEMMA TreeMarkFails ==
  ASSUME WellOrdered, IInv, TreeInv, MarkFails
  PROVE  TreeInv'
<1>1. /\ make.pc = "apply" /\ make' = Idle /\ leaked' = leaked \cup {p \in Live(heap) : heap[p].ts = make.next}
      /\ cps' = [cps EXCEPT ![latest].obs = make.next] /\ heap' = heap
      /\ reverse' = (reverse \cup {make.next}) \ {make.next}
      /\ UNCHANGED <<log, latest, entries, pinned, patched, loaded>>
  BY DEF MarkFails, Replayed, Fail, Remove
<1>2. loaded /\ make'.pc = "idle"
  BY <1>1, MakingIs DEF Making, Idle
<1>3. Worked(heap, make.root, make.next, heap)
  BY <1>2, WorkedSelf
<1>4. reverse' \subseteq Versions
  BY <1>1 DEF TreeInv, TypeOK
<1>5. failures' \in 0..MaxFailures
  <2>1. failures \in 0..MaxFailures /\ failures < MaxFailures /\ failures' = failures + 1
    BY DEF MarkFails, RunsOut, TreeInv, TypeOK
  <2> QED  BY <2>1, TreeAssumption
<1>6. /\ DOMAIN cps' = DOMAIN cps
      /\ \A c \in DOMAIN cps : c # latest => cps'[c] = cps[c]
      /\ \A c \in DOMAIN cps : cps'[c].root = cps[c].root
      /\ \A c \in DOMAIN cps' : cps'[c] = [root |-> cps'[c].root, obs |-> cps'[c].obs]
  BY <1>1, <1>2, EndedIs
<1> QED  BY <1>1, <1>2, <1>3, <1>4, <1>5, <1>6, GiveUp

\* The pages of two sequences.
LEMMA ConcatIs ==
  ASSUME NEW s \in Seq(PageIds), NEW t \in Seq(PageIds)
  PROVE  /\ s \o t \in Seq(PageIds)
         /\ {(s \o t)[i] : i \in DOMAIN (s \o t)} = {s[i] : i \in DOMAIN s} \cup {t[i] : i \in DOMAIN t}
<1> DEFINE u == s \o t
           R == {s[i] : i \in DOMAIN s} \cup {t[i] : i \in DOMAIN t}
<1>1. /\ u \in Seq(PageIds) /\ Len(s) \in Nat /\ Len(t) \in Nat /\ Len(u) = Len(s) + Len(t)
      /\ DOMAIN s = 1..Len(s) /\ DOMAIN t = 1..Len(t) /\ DOMAIN u = 1..Len(u)
  OBVIOUS
<1>2. /\ \A i \in 1..Len(s) : u[i] = s[i]
      /\ \A i \in 1..Len(t) : u[Len(s) + i] = t[i]
  OBVIOUS
<1> HIDE DEF u
<1>3. ASSUME NEW i \in DOMAIN u PROVE u[i] \in R
  <2>1. CASE i <= Len(s)
    <3>1. i \in DOMAIN s /\ u[i] = s[i]
      BY <1>1, <1>2, <2>1
    <3> QED  BY <3>1
  <2>2. CASE ~(i <= Len(s))
    <3>1. i - Len(s) \in DOMAIN t /\ Len(s) + (i - Len(s)) = i
      BY <1>1, <2>2
    <3>2. u[i] = t[i - Len(s)]
      BY <1>1, <1>2, <3>1
    <3> QED  BY <3>1, <3>2
  <2> QED  BY <2>1, <2>2
<1>4. ASSUME NEW i \in DOMAIN s PROVE s[i] \in {u[j] : j \in DOMAIN u}
  <2>1. i \in DOMAIN u /\ u[i] = s[i]
    BY <1>1, <1>2
  <2> QED  BY <2>1
<1>5. ASSUME NEW i \in DOMAIN t PROVE t[i] \in {u[j] : j \in DOMAIN u}
  <2>1. Len(s) + i \in DOMAIN u /\ u[Len(s) + i] = t[i]
    BY <1>1, <1>2
  <2> QED  BY <2>1
<1>6. {u[i] : i \in DOMAIN u} = R
  BY <1>3, <1>4, <1>5
<1> QED  BY <1>1, <1>6 DEF u

\* What the walk does for the new checkpoint.
LEMMA ApplyWorked ==
  ASSUME WellOrdered, IInv, TreeInv, make.pc = "apply", NEW a \in Addrs, InRange(a), NEW f
  PROVE  LET w == ApplyChange(heap, make.root, a, make.at, make.next, f)
         IN Applies(heap, make.root, a, make.at, make.next, w) /\ Worked(heap, make.root, make.next, w.h)
<1> DEFINE w == ApplyChange(heap, make.root, a, make.at, make.next, f)
<1>1. /\ Making /\ make.next \in Versions /\ make.next # 0 /\ make.at \in Nat
  BY MakingIs DEF Making
<1>2. Tree(heap, make.root)
  BY <1>1 DEF TreeInv, MakingInv
<1>3. a \in Words /\ Route(a) \in Paths /\ a.word \in Offsets
  BY Places
<1>4. Applies(heap, make.root, a, make.at, make.next, w)
  BY <1>1, <1>2, <1>3, ApplyChangeIs
<1> HIDE DEF w
<1>5. Worked(heap, make.root, make.next, w.h)
  BY <1>4 DEF Applies, Grown, Tree, NodesKnown, Worked
<1> QED  BY <1>4, <1>5 DEF w

\* A word is applied.
LEMMA TreeApplied ==
  ASSUME WellOrdered, IInv, TreeInv, make.pc = "apply", NEW a \in Words, a \in make.left, NEW w, w.ok,
         Applies(heap, make.root, a, make.at, make.next, w), Worked(heap, make.root, make.next, w.h),
         heap' = w.h, make' = [make EXCEPT !.root = w.root, !.left = make.left \ {a}, !.stack = make.stack \o w.olds],
         UNCHANGED <<log, cps, latest, reverse, entries, pinned, patched, leaked, loaded>>,
         failures' \in 0..MaxFailures
  PROVE  TreeInv'
<1>1. /\ make'.pc = "apply" /\ make'.root = w.root /\ make'.at = make.at /\ make'.next = make.next
      /\ make'.left = make.left \ {a} /\ make'.stack = make.stack \o w.olds
  BY DEF IInv, MakeFields
<1>2. /\ Making /\ loaded /\ make.at \in Nat /\ make.at # 0 /\ make.at - 1 \in Nat /\ make.left \subseteq log[make.at]
      /\ latest \in Held
  BY MakingIs, HeldIs DEF Making
<1>3. /\ Tree(w.h, w.root) /\ OthersKept(heap, make.root, make.next, w.h)
      /\ NodesKnown(heap, make.root, make.next, w.h, w.root)
      /\ OldsKnown(heap, make.root, make.next, w.h, w.root, w.olds)
  BY DEF Applies, Grown
<1>4. WordSet(w.h, w.root, heap, make.root, Route(a), a.word, make.at)
  BY <1>2 DEF Applies, Null
<1>5. /\ Tree(heap, make.root) /\ Partly(heap, make, log)
      /\ \A p \in Nodes(heap, make.root) :
           /\ heap[p].ts = make.next \/ p \in Nodes(heap, LatestRoot)
           /\ p \notin leaked /\ p \notin Handed
  BY <1>2 DEF TreeInv, MakingInv
<1>6. EntriesInv' /\ Handed' = Handed /\ InodesHanded' = InodesHanded
  BY <1>1, EntriesKept
<1>7. Held' = Held /\ LatestRoot' = LatestRoot
  BY DEF Held, LatestRoot
<1>8. ASSUME NEW c \in Held
      PROVE  /\ c \in DOMAIN cps /\ c <= latest /\ InUse(w.h, cps[c].root, c, log, leaked)
             /\ Nodes(w.h, cps[c].root) = Nodes(heap, cps[c].root)
  BY HeldIs, OthersInUse
<1>9. HeldInv'
  BY <1>7, <1>8 DEF HeldInv
<1>10. Nodes(w.h, LatestRoot) = Nodes(heap, LatestRoot)
  BY <1>2, <1>8 DEF LatestRoot
<1>11. TypeOK' /\ CpsInv'
  BY <1>1, <1>6 DEF TreeInv, TypeOK, CpsInv, Worked
<1>12. ASSUME NEW p \in Nodes(heap, LatestRoot) PROVE p \in PageIds /\ heap[p].live
  <2>1. Typed(heap, LatestRoot)
    BY <1>2, HeldIs DEF Tree
  <2> QED  BY <2>1, NodesLive
<1>13. ASSUME NEW p \in Nodes(w.h, w.root)
       PROVE  /\ w.h[p].ts = make.next \/ p \in Nodes(heap, LatestRoot)
              /\ p \notin leaked /\ p \notin Handed
  <2>1. p \in PageIds /\ w.h[p].live
    BY <1>3, NodesLive DEF Tree
  <2>2. CASE p \in Nodes(heap, make.root)
    <3>1. heap[p].live
      BY <1>5, <2>2, NodesLive DEF Tree
    <3>2. w.h[p].ts = heap[p].ts
      BY <1>3, <2>1, <3>1 DEF OthersKept
    <3> QED  BY <1>5, <2>2, <3>2
  <2>3. CASE ~heap[p].live
    <3>1. w.h[p].ts = make.next
      BY <1>3, <2>1, <2>3 DEF NodesKnown
    <3>2. p \notin leaked /\ p \notin Handed
      BY <2>3 DEF TreeInv, LeakedInv, EntriesInv
    <3> QED  BY <3>1, <3>2
  <2> QED  BY <1>3, <2>2, <2>3 DEF NodesKnown
<1>14. Partly(w.h, make', log)
  <2> SUFFICES ASSUME NEW b \in Words
               PROVE  Child(w.h, PageOn(w.h, w.root, Route(b), 0), b.word) = Applied(make', log, b)
    BY <1>1 DEF Partly
  <2>1. Route(b) \in Paths /\ b.word \in Offsets
    BY Places
  <2>2. Child(w.h, PageOn(w.h, w.root, Route(b), 0), b.word) =
          IF Agree(Route(b), Route(a), 0) /\ b.word = a.word THEN make.at
          ELSE Child(heap, PageOn(heap, make.root, Route(b), 0), b.word)
    BY <1>4, <2>1 DEF WordSet
  <2>3. CASE b = a
    <3>1. Agree(Route(b), Route(a), 0)
      BY <2>3 DEF Agree
    <3>2. Child(w.h, PageOn(w.h, w.root, Route(b), 0), b.word) = make.at
      BY <2>2, <2>3, <3>1
    <3>3. LastIn(log, a, (make.at - 1) + 1) = (make.at - 1) + 1
      <4>1. (make.at - 1) + 1 = make.at /\ a \in log[(make.at - 1) + 1]
        BY <1>2
      <4> QED  BY <1>2, <4>1, LastNext
    <3>4. (make.at - 1) + 1 = make.at
      BY <1>2
    <3>5. Applied(make', log, b) = LastIn(log, a, make.at)
      BY <1>1, <2>3 DEF Applied
    <3> QED  BY <3>2, <3>3, <3>4, <3>5
  <2>4. CASE b # a
    <3>1. ~(Agree(Route(b), Route(a), 0) /\ b.word = a.word)
      BY <2>4, Places
    <3>2. Applied(make', log, b) = Applied(make, log, b)
      BY <1>1, <2>4 DEF Applied
    <3> QED  BY <1>5, <2>2, <3>1, <3>2 DEF Partly
  <2> QED  BY <2>3, <2>4
<1>15. MakingInv'
  BY <1>1, <1>2, <1>3, <1>6, <1>7, <1>10, <1>13, <1>14 DEF MakingInv
<1> DEFINE S == {make.stack[i] : i \in DOMAIN make.stack}
           O == {w.olds[i] : i \in DOMAIN w.olds}
           T == {make'.stack[i] : i \in DOMAIN make'.stack}
<1>16. /\ make.stack \in Seq(PageIds) /\ S = Nodes(heap, LatestRoot) \ Nodes(heap, make.root)
       /\ \A p \in S : heap[p].obs = make.next
  BY DEF TreeInv, StackInv
<1>17. /\ w.olds \in Seq(PageIds) /\ O = Nodes(heap, make.root) \ Nodes(w.h, w.root)
       /\ \A p \in O : w.h[p].obs = make.next /\ heap[p].ts # make.next
  BY <1>3 DEF OldsKnown
<1>18. make'.stack \in Seq(PageIds) /\ T = S \cup O
  <2> DEFINE s == make.stack
             t == w.olds
  <2>1. /\ s \o t \in Seq(PageIds)
        /\ {(s \o t)[i] : i \in DOMAIN (s \o t)} = {s[i] : i \in DOMAIN s} \cup {t[i] : i \in DOMAIN t}
    <3>1. s \in Seq(PageIds) /\ t \in Seq(PageIds)
      BY <1>16, <1>17
    <3> HIDE DEF s, t
    <3> QED  BY <3>1, ConcatIs
  <2>2. make'.stack = s \o t
    BY <1>1
  <2> QED  BY <2>1, <2>2
<1>19. StackInv'
  <2>1. \A i \in DOMAIN make'.stack : make'.stack[i] \in T
    OBVIOUS
  <2> HIDE DEF S, O, T
  <2>2. O \subseteq Nodes(heap, LatestRoot)
    BY <1>5, <1>17
  <2>3. ASSUME NEW p \in Nodes(heap, LatestRoot), p \in Nodes(w.h, w.root) PROVE p \in Nodes(heap, make.root)
    BY <1>3, <1>12, <2>3 DEF NodesKnown
  <2>4. S \cup O = Nodes(heap, LatestRoot) \ Nodes(w.h, w.root)
    BY <1>16, <1>17, <2>2, <2>3
  <2>5. ASSUME NEW p \in S PROVE w.h[p].obs = make.next
    <3>1. p \in PageIds /\ heap[p].live /\ p \notin Nodes(heap, make.root)
      BY <1>12, <1>16
    <3> QED  BY <1>3, <1>16, <3>1 DEF OthersKept
  <2>6. \A p \in T : w.h[p].obs = make.next
    BY <1>17, <1>18, <2>5
  <2>7. T = Nodes(w.h, LatestRoot) \ Nodes(w.h, w.root)
    BY <1>10, <1>18, <2>4
  <2>8. {make'.stack[i] : i \in DOMAIN make'.stack} = Nodes(heap', LatestRoot') \ Nodes(heap', make'.root)
    <3>1. Nodes(heap', LatestRoot') = Nodes(w.h, LatestRoot) /\ Nodes(heap', make'.root) = Nodes(w.h, w.root)
      BY <1>1, <1>7
    <3> QED  BY <2>7, <3>1 DEF T
  <2>9. \A i \in DOMAIN make'.stack : heap'[make'.stack[i]].obs = make'.next
    BY <1>1, <2>1, <2>6
  <2> QED  BY <1>18, <2>8, <2>9 DEF StackInv
<1>20. PublishInv' /\ GoneInv'
  BY <1>1, <1>2 DEF PublishInv, GoneInv
<1>21. LeakedInv'
  <2>1. ASSUME NEW p \in leaked PROVE w.h[p].live /\ p \notin ZeroPages
    <3>1. p \in PageIds /\ heap[p].live /\ p \notin ZeroPages
      BY DEF TreeInv, TypeOK, LeakedInv
    <3> QED  BY <1>3, <3>1 DEF OthersKept
  <2> QED  BY <2>1 DEF LeakedInv
<1>22. AccountInv'
  <2> SUFFICES ASSUME NEW p \in PageIds, w.h[p].live
               PROVE  \/ p \in ZeroPages \/ p \in leaked \/ p \in Handed \/ p \in Nodes(heap, LatestRoot)
                      \/ p \in Nodes(w.h, w.root)
    BY <1>1, <1>6, <1>7, <1>10 DEF AccountInv, Making
  <2>1. CASE ~heap[p].live
    BY <1>3, <2>1 DEF NodesKnown
  <2>2. CASE heap[p].live
    <3>1. \/ p \in ZeroPages \/ p \in leaked \/ p \in Handed \/ p \in Nodes(heap, LatestRoot)
          \/ p \in Nodes(heap, make.root)
      BY <1>2, <2>2 DEF TreeInv, AccountInv
    <3>2. ASSUME p \in Nodes(heap, make.root), p \notin Nodes(w.h, w.root) PROVE p \in Nodes(heap, LatestRoot)
      <4> HIDE DEF O
      <4> QED  BY <1>5, <1>17, <3>2
    <3> QED  BY <3>1, <3>2
  <2> QED  BY <2>1, <2>2
<1> QED  BY <1>6, <1>9, <1>11, <1>15, <1>19, <1>20, <1>21, <1>22, ZenonT(20) DEF TreeInv

\* The maker applies one word, or fails at it.
LEMMA TreeApply ==
  ASSUME WellOrdered, IInv, TreeInv, NEW a \in Addrs, NEW f, ApplyWord(a, f)
  PROVE  TreeInv'
<1> DEFINE w == ApplyChange(heap, make.root, a, make.at, make.next, f)
<1>1. /\ make.pc = "apply" /\ a \in make.left /\ InRange(a) /\ RunsOut(f # NoFailure)
      /\ UNCHANGED <<log, cps, latest, reverse, entries, pinned, patched, loaded>>
      /\ w.ok => /\ heap' = w.h /\ leaked' = leaked
                 /\ make' = [make EXCEPT !.root = w.root, !.left = make.left \ {a}, !.stack = make.stack \o w.olds]
      /\ ~w.ok => Fail(w.h)
  BY DEF ApplyWord
<1>2. Applies(heap, make.root, a, make.at, make.next, w) /\ Worked(heap, make.root, make.next, w.h)
  BY <1>1, ApplyWorked
<1> HIDE DEF w
<1>3. failures' \in 0..MaxFailures
  <2>1. failures \in 0..MaxFailures
    BY DEF TreeInv, TypeOK
  <2> QED  BY <1>1, <2>1, TreeAssumption DEF RunsOut
<1>4. CASE w.ok
  <2>1. a \in Words
    BY <1>1, Places
  <2> QED  BY <1>1, <1>2, <1>3, <1>4, <2>1, TreeApplied
<1>5. CASE ~w.ok
  <2>1. /\ heap' = w.h /\ make' = Idle /\ leaked' = leaked \cup {p \in Live(w.h) : w.h[p].ts = make.next}
    BY <1>1, <1>5 DEF Fail
  <2>2. make'.pc = "idle"
    BY <2>1 DEF Idle
  <2>3. /\ reverse \subseteq Versions
        /\ \A c \in DOMAIN cps : cps[c] = [root |-> cps[c].root, obs |-> cps[c].obs]
    BY DEF TreeInv, TypeOK, CpsInv
  <2> QED  BY <1>1, <1>2, <1>3, <2>1, <2>2, <2>3, GiveUp
<1> QED  BY <1>4, <1>5

-----------------------------------------------------------------------------
(* Steps that free pages *)

\* Putting pages frees these and touches no other.
LEMMA PutIs ==
  ASSUME NEW h \in [PageIds -> Pages], NEW P
  PROVE  /\ Put(h, P) \in [PageIds -> Pages]
         /\ \A p \in PageIds : p \notin P => Put(h, P)[p] = h[p]
         /\ \A p \in PageIds : p \in P => ~Put(h, P)[p].live
<1>1. FreePage \in Pages /\ ~FreePage.live
  <2>1. 0 \in Versions
    BY TreeAssumption DEF Versions
  <2>2. [i \in Offsets |-> Null] \in [Offsets -> Nat]
    BY DEF Null
  <2> QED  BY <2>1, <2>2 DEF FreePage, Pages
<1>2. \A p \in PageIds : h[p] \in Pages
  OBVIOUS
<1> HIDE DEF Pages
<1> QED  BY <1>1, <1>2 DEF Put

\* What the collector frees no checkpoint in use has.
LEMMA NotInUse ==
  ASSUME IInv, TreeInv, loaded, NEW c \in Held
  PROVE  /\ \A p \in Handed : Obsolete(PageEntry(p)) => p \notin Nodes(heap, cps[c].root)
         /\ c \in InodesHanded => ~Obsolete(InodeEntry(c))
<1>1. c \in Nat /\ InUse(heap, cps[c].root, c, log, leaked) /\ latest \in Nat /\ (c \in pinned \/ c = latest)
  BY HeldIs DEF Held
<1>2. ASSUME NEW p \in Handed, Obsolete(PageEntry(p)), p \in Nodes(heap, cps[c].root) PROVE FALSE
  <2>1. heap[p].obs <= latest /\ \A d \in pinned : ~(heap[p].ts <= d /\ d < heap[p].obs)
    BY <1>2, EntryIs DEF Obsolete
  <2>2. c < heap[p].obs /\ heap[p].ts <= c
    BY <1>1, <1>2 DEF TreeInv, EntriesInv, InUse
  <2>3. heap[p].obs \in Nat
    <3>1. p \in PageIds
      BY DEF Handed, PagesIn
    <3>2. heap[p].obs \in Versions \cup {InvalidTs}
      BY <3>1 DEF TreeInv, TypeOK, Pages
    <3> QED  BY <3>2, TreeAssumption DEF Versions
  <2>4. c # latest
    BY <1>1, <2>1, <2>2, <2>3
  <2> QED  BY <1>1, <2>1, <2>2, <2>4
<1>3. ASSUME c \in InodesHanded, Obsolete(InodeEntry(c)) PROVE FALSE
  <2>1. "page" # "inode"
    OBVIOUS
  <2>2. cps[c].obs <= latest /\ \A d \in pinned : ~(c <= d /\ d < cps[c].obs)
    BY <1>3, <2>1, EntryIs DEF Obsolete
  <2>3. cps[c].obs \in Nat /\ c < cps[c].obs
    BY <1>3 DEF TreeInv, EntriesInv
  <2>4. c # latest /\ c <= c
    BY <1>1, <2>2, <2>3
  <2> QED  BY <1>1, <2>2, <2>3, <2>4
<1> QED  BY <1>2, <1>3

\* The collector frees what no reader can reach.
LEMMA TreeCollect ==
  ASSUME WellOrdered, IInv, TreeInv, Collect
  PROVE  TreeInv'
<1> DEFINE gone == {e \in DOMAIN entries : Obsolete(e)}
           P == PagesIn(gone)
           C == InodesIn(gone)
<1>1. \A e \in DOMAIN entries : entries[e] = 1 /\ IsEntry(e)
  BY DEF TreeInv, EntriesInv
<1>2. IdsOf("page", gone) = P /\ IdsOf("inode", gone) = C
  <2>1. \A e \in gone : IsEntry(e)
    BY <1>1
  <2> QED  BY <2>1, IdsAre
<1>3. /\ loaded /\ heap' = Put(heap, P) /\ cps' = Without(C)
      /\ entries' = [e \in DOMAIN entries \ gone |-> entries[e]]
      /\ UNCHANGED <<log, latest, reverse, make, pinned, patched, leaked, failures, loaded>>
  BY <1>2 DEF Collect
<1>4. P \subseteq PageIds /\ P \subseteq Handed /\ \A p \in P : Obsolete(PageEntry(p))
  BY DEF PagesIn, Handed
<1>5. C \subseteq InodesHanded /\ \A c \in C : Obsolete(InodeEntry(c))
  BY DEF InodesIn, InodesHanded
<1>6. DOMAIN entries' = DOMAIN entries \ gone /\ \A e \in DOMAIN entries' : entries'[e] = 1 /\ IsEntry(e)
  BY <1>1, <1>3
<1>7. Handed' = Handed \ P
  BY <1>6 DEF Handed, PagesIn
<1>8. InodesHanded' = InodesHanded \ C
  BY <1>6 DEF InodesHanded, InodesIn
<1> HIDE DEF gone, P, C
<1>9. Held' = Held
  BY <1>3 DEF Held
<1>10. /\ heap' \in [PageIds -> Pages]
       /\ \A p \in PageIds : p \notin P => heap'[p] = heap[p]
       /\ \A p \in PageIds : p \in P => ~heap'[p].live
  <2>1. heap \in [PageIds -> Pages]
    BY DEF TreeInv, TypeOK
  <2> QED  BY <1>3, <2>1, PutIs
<1>11. \A p \in Handed : p \in PageIds /\ heap[p].live /\ p \notin ZeroPages /\ p \notin leaked
  BY DEF TreeInv, EntriesInv, Handed, PagesIn
<1>12. ZerosKept(heap')
  <2>1. \A l \in 0..(FoffsetLevels - 1) : Zero(l) \in PageIds /\ Zero(l) \notin P
    BY <1>4, <1>11, ZeroIs
  <2> QED  BY <1>3, <1>10, <2>1, HeldIs DEF ZerosKept
<1>13. DOMAIN cps' = DOMAIN cps \ C /\ \A c \in DOMAIN cps \ C : cps'[c] = cps[c]
  BY <1>3 DEF Without
<1>14. ASSUME NEW c \in Held
       PROVE  /\ c \in DOMAIN cps' /\ cps'[c] = cps[c] /\ c <= latest
              /\ InUse(heap', cps[c].root, c, log, leaked) /\ Nodes(heap', cps[c].root) = Nodes(heap, cps[c].root)
              /\ \A p \in Nodes(heap, cps[c].root) : p \in PageIds /\ p \notin P
  <2>1. c \in DOMAIN cps /\ c <= latest /\ InUse(heap, cps[c].root, c, log, leaked)
    BY HeldIs
  <2>2. c \notin C
    BY <1>3, <1>5, NotInUse
  <2>3. ASSUME NEW p \in Nodes(heap, cps[c].root) PROVE p \in PageIds /\ p \notin P /\ heap[p].live /\ p \notin leaked
    <3>1. p \notin P
      BY <1>3, <1>4, NotInUse
    <3> QED  BY <2>1, <3>1, NodesLive DEF InUse, Tree
  <2>4. InUse(heap', cps[c].root, c, log, leaked) /\ Nodes(heap', cps[c].root) = Nodes(heap, cps[c].root)
    <3>1. Untouched(heap, heap', cps[c].root, leaked)
      BY <1>10, <2>3 DEF Untouched
    <3> QED  BY <1>10, <1>12, <2>1, <3>1, FrameUse
  <2> QED  BY <1>13, <2>1, <2>2, <2>3, <2>4
<1>15. latest \in Held
  BY <1>3, HeldIs
<1>16. LatestRoot' = LatestRoot /\ Nodes(heap', LatestRoot) = Nodes(heap, LatestRoot)
  BY <1>3, <1>14, <1>15 DEF LatestRoot
<1>17. \A p \in Nodes(heap, LatestRoot) : p \in PageIds /\ p \notin P
  BY <1>14, <1>15 DEF LatestRoot
<1>18. TypeOK' /\ CpsInv'
  <2>1. DOMAIN cps' \subseteq Versions
    BY <1>13 DEF TreeInv, TypeOK
  <2>2. TypeOK'
    BY <1>3, <1>10, <2>1 DEF TreeInv, TypeOK
  <2>3. latest \notin C
    BY <1>13, <1>14, <1>15
  <2>4. DOMAIN cps' = {latest} \cup InodesHanded'
    BY <1>3, <1>8, <1>13, <2>3 DEF TreeInv, CpsInv
  <2>5. \A c \in DOMAIN cps' : cps'[c] = [root |-> cps'[c].root, obs |-> cps'[c].obs]
    BY <1>13 DEF TreeInv, CpsInv
  <2> QED  BY <1>3, <2>2, <2>4, <2>5 DEF CpsInv
<1>19. HeldInv'
  BY <1>3, <1>9, <1>14 DEF HeldInv
<1>20. ASSUME Making
       PROVE  /\ Tree(heap', make.root) /\ Nodes(heap', make.root) = Nodes(heap, make.root)
              /\ Partly(heap', make, log)
              /\ \A p \in Nodes(heap, make.root) :
                  /\ heap'[p].ts = make.next \/ p \in Nodes(heap, LatestRoot)
                  /\ p \notin leaked /\ p \notin Handed'
  <2>1. /\ Tree(heap, make.root) /\ Partly(heap, make, log)
        /\ \A p \in Nodes(heap, make.root) :
             /\ heap[p].ts = make.next \/ p \in Nodes(heap, LatestRoot)
             /\ p \notin leaked /\ p \notin Handed
    BY <1>20 DEF TreeInv, MakingInv
  <2>2. ASSUME NEW p \in Nodes(heap, make.root) PROVE heap'[p] = heap[p] /\ heap[p].live
    <3>1. p \in PageIds /\ heap[p].live
      BY <2>1, NodesLive DEF Tree
    <3> QED  BY <1>4, <1>10, <2>1, <3>1
  <2>3. /\ Tree(heap', make.root) /\ Nodes(heap', make.root) = Nodes(heap, make.root)
        /\ SameWords(heap', make.root, heap, make.root)
    BY <1>10, <1>12, <2>1, <2>2, FrameTree
  <2>4. Partly(heap', make, log)
    BY <2>1, <2>3, Places DEF Partly, SameWords
  <2> QED  BY <1>7, <2>1, <2>2, <2>3, <2>4
<1>21. MakingInv'
  <2>1. Making' = Making
    BY <1>3 DEF Making
  <2> QED  BY <1>3, <1>16, <1>20, <2>1 DEF MakingInv
<1>22. StackInv'
  <2> SUFFICES ASSUME make.pc = "apply" PROVE StackInv'
    BY <1>3 DEF StackInv
  <2>1. Making
    BY DEF Making
  <2>2. /\ make.stack \in Seq(PageIds)
        /\ {make.stack[i] : i \in DOMAIN make.stack} = Nodes(heap, LatestRoot) \ Nodes(heap, make.root)
        /\ \A i \in DOMAIN make.stack : heap[make.stack[i]].obs = make.next
    BY DEF TreeInv, StackInv
  <2>3. \A i \in DOMAIN make.stack : make.stack[i] \in Nodes(heap, LatestRoot)
    BY <2>2
  <2>4. \A i \in DOMAIN make.stack : heap'[make.stack[i]] = heap[make.stack[i]]
    BY <1>10, <1>17, <2>3
  <2> QED  BY <1>3, <1>16, <1>20, <2>1, <2>2, <2>4 DEF StackInv
<1>23. PublishInv'
  <2> SUFFICES ASSUME make.pc = "publish" PROVE PublishInv'
    BY <1>3 DEF PublishInv
  <2>1. Making
    BY DEF Making
  <2>2. /\ make.left = {} /\ make.at = make.next /\ latest \in InodesHanded
        /\ Nodes(heap, LatestRoot) \ Nodes(heap, make.root) \subseteq Handed
    BY DEF TreeInv, PublishInv
  <2>3. latest \notin C
    BY <1>13, <1>14, <1>15
  <2>4. Nodes(heap, LatestRoot) \ Nodes(heap, make.root) \subseteq Handed'
    BY <1>7, <1>17, <2>2
  <2> QED  BY <1>3, <1>8, <1>16, <1>20, <2>1, <2>2, <2>3, <2>4, ZenonT(20) DEF PublishInv
<1>24. EntriesInv'
  <2>1. ASSUME NEW p \in Handed'
        PROVE  /\ heap'[p].live /\ p \notin ZeroPages /\ p \notin leaked /\ heap'[p].ts <= latest
               /\ heap'[p].obs <= latest \/ (make.pc = "publish" /\ heap'[p].obs = make.next)
               /\ \A c \in Held : p \in Nodes(heap', cps'[c].root) => c < heap'[p].obs
    <3>1. p \in Handed /\ heap'[p] = heap[p]
      BY <1>7, <1>10, <1>11
    <3>2. /\ heap[p].live /\ p \notin ZeroPages /\ p \notin leaked /\ heap[p].ts <= latest
          /\ heap[p].obs <= latest \/ (make.pc = "publish" /\ heap[p].obs = make.next)
          /\ \A c \in Held : p \in Nodes(heap, cps[c].root) => c < heap[p].obs
      BY <3>1 DEF TreeInv, EntriesInv
    <3> QED  BY <1>14, <3>1, <3>2
  <2>2. ASSUME NEW c \in InodesHanded'
        PROVE  cps'[c].obs \in Nat /\ c < cps'[c].obs /\ (c < latest \/ (make.pc = "publish" /\ c = latest))
    <3>1. c \in InodesHanded /\ c \in DOMAIN cps \ C
      BY <1>3, <1>8 DEF TreeInv, CpsInv
    <3> QED  BY <1>13, <3>1 DEF TreeInv, EntriesInv
  <2> QED  BY <1>3, <1>6, <1>9, <2>1, <2>2 DEF EntriesInv
<1>25. LeakedInv'
  <2>1. ASSUME NEW p \in leaked PROVE heap'[p].live /\ p \notin ZeroPages
    <3>1. p \in PageIds /\ heap[p].live /\ p \notin ZeroPages
      BY DEF TreeInv, TypeOK, LeakedInv
    <3> QED  BY <1>4, <1>10, <1>11, <3>1
  <2> QED  BY <1>3, <2>1 DEF LeakedInv
<1>26. AccountInv'
  <2> SUFFICES ASSUME NEW p \in PageIds, heap'[p].live
               PROVE  \/ p \in ZeroPages \/ p \in leaked \/ p \in Handed' \/ p \in Nodes(heap', LatestRoot)
                      \/ Making /\ p \in Nodes(heap', make.root)
    BY <1>3, <1>16 DEF AccountInv, Making
  <2>1. p \notin P /\ heap[p].live
    BY <1>10
  <2>2. \/ p \in ZeroPages \/ p \in leaked \/ p \in Handed \/ p \in Nodes(heap, LatestRoot)
        \/ Making /\ p \in Nodes(heap, make.root)
    BY <1>3, <2>1 DEF TreeInv, AccountInv
  <2> QED  BY <1>7, <1>16, <1>20, <2>1, <2>2
<1>27. GoneInv'
  BY <1>3 DEF GoneInv
<1> QED  BY <1>18, <1>19, <1>21, <1>22, <1>23, <1>24, <1>25, <1>26, <1>27 DEF TreeInv

\* sivfs_destroy_checkpoints leaves nothing but what leaked.
LEMMA TreeUnload ==
  ASSUME WellOrdered, IInv, TreeInv, Unload
  PROVE  TreeInv'
<1>1. \A e \in DOMAIN entries : entries[e] = 1 /\ IsEntry(e)
  BY DEF TreeInv, EntriesInv
<1>2. IdsOf("page", DOMAIN entries) = Handed /\ IdsOf("inode", DOMAIN entries) = InodesHanded
  BY <1>1, IdsAre DEF Handed, InodesHanded
<1> DEFINE P == Nodes(heap, LatestRoot) \cup ZeroPages \cup Handed
<1>3. loaded
  BY DEF Unload
<1>4. TreePages(heap, LatestRoot) = Nodes(heap, LatestRoot)
  BY <1>3, HeldIs, TreePagesIs DEF Tree
<1>5. /\ make.pc \in {"idle", "stopped"} /\ pinned = {}
      /\ heap' = Put(heap, P) /\ cps' = Without({latest} \cup InodesHanded)
      /\ entries' = NoEntries /\ reverse' = {} /\ loaded' = FALSE
      /\ UNCHANGED <<log, latest, make, pinned, patched, leaked, failures>>
  BY <1>2, <1>4 DEF Unload, LatestRoot
<1>6. /\ heap' \in [PageIds -> Pages]
      /\ \A p \in PageIds : p \notin P => heap'[p] = heap[p]
      /\ \A p \in PageIds : p \in P => ~heap'[p].live
  <2>1. heap \in [PageIds -> Pages]
    BY DEF TreeInv, TypeOK
  <2> HIDE DEF P
  <2> QED  BY <1>5, <2>1, PutIs
<1>7. DOMAIN cps' = {}
  BY <1>3, <1>5 DEF TreeInv, CpsInv, Without
<1>8. DOMAIN entries' = {}
  BY <1>5 DEF NoEntries
<1>9. ~Making /\ ~Making' /\ Held' = {} /\ Handed' = {} /\ InodesHanded' = {}
  BY <1>5, <1>8 DEF Making, Held, Handed, InodesHanded, PagesIn, InodesIn
<1>10. ASSUME NEW p \in leaked PROVE p \in PageIds /\ p \notin P /\ heap[p].live /\ p \notin ZeroPages
  <2>1. p \in PageIds /\ heap[p].live /\ p \notin ZeroPages
    BY DEF TreeInv, TypeOK, LeakedInv
  <2>2. p \notin Handed
    BY DEF TreeInv, EntriesInv
  <2>3. p \notin Nodes(heap, LatestRoot)
    BY <1>3, HeldIs DEF InUse
  <2> QED  BY <2>1, <2>2, <2>3
<1>11. ASSUME NEW p \in PageIds, heap'[p].live PROVE p \in leaked
  <2>1. p \notin P /\ heap[p].live
    BY <1>6, <1>11
  <2> QED  BY <1>3, <1>9, <2>1 DEF TreeInv, AccountInv
<1>12. Live(heap') = leaked
  BY <1>6, <1>10, <1>11 DEF Live
<1>13. TypeOK' /\ CpsInv'
  BY <1>5, <1>6, <1>7 DEF TreeInv, TypeOK, CpsInv
<1>14. HeldInv' /\ MakingInv' /\ StackInv' /\ PublishInv'
  BY <1>5, <1>9 DEF HeldInv, MakingInv, StackInv, PublishInv
<1>15. EntriesInv' /\ AccountInv'
  BY <1>5, <1>8, <1>9 DEF EntriesInv, AccountInv
<1>16. LeakedInv'
  BY <1>5, <1>6, <1>10 DEF LeakedInv
<1>17. GoneInv'
  BY <1>5, <1>7, <1>8, <1>12 DEF GoneInv, AllFreed
<1> QED  BY <1>13, <1>14, <1>15, <1>16, <1>17 DEF TreeInv

-----------------------------------------------------------------------------
(* Direct access *)

\* The latest checkpoint gets another root.
LEMMA RootedIs ==
  ASSUME IInv, TreeInv, loaded, NEW x, cps' = [cps EXCEPT ![latest].root = x]
  PROVE  /\ DOMAIN cps' = DOMAIN cps /\ cps'[latest].root = x
         /\ \A c \in DOMAIN cps : c # latest => cps'[c] = cps[c]
         /\ \A c \in DOMAIN cps' : cps'[c] = [root |-> cps'[c].root, obs |-> cps'[c].obs]
<1>1. latest \in DOMAIN cps
  BY HeldIs
<1>2. \A c \in DOMAIN cps : cps[c] = [root |-> cps[c].root, obs |-> cps[c].obs]
  BY DEF TreeInv, CpsInv
<1> DEFINE r == cps[latest]
<1>3. r = [root |-> r.root, obs |-> r.obs]
  BY <1>1, <1>2
<1>4. [r EXCEPT !.root = x] = [root |-> x, obs |-> r.obs]
  <2> DEFINE s == r.root
             t == r.obs
  <2>1. r = [root |-> s, obs |-> t]
    BY <1>3
  <2> HIDE DEF r, s, t
  <2>2. [r EXCEPT !.root = x] = [root |-> x, obs |-> t]
    BY <2>1
  <2> QED  BY <2>2 DEF t
<1>5. /\ DOMAIN cps' = DOMAIN cps /\ cps'[latest] = [root |-> x, obs |-> r.obs]
      /\ \A c \in DOMAIN cps : c # latest => cps'[c] = cps[c]
  BY <1>1, <1>4
<1>6. cps'[latest].root = x /\ cps'[latest].obs = r.obs
  BY <1>5
<1>7. \A c \in DOMAIN cps' : cps'[c] = [root |-> cps'[c].root, obs |-> cps'[c].obs]
  BY <1>2, <1>5, <1>6
<1> QED  BY <1>5, <1>6, <1>7

\* The latest checkpoint gets pages of its own, and holds what it held.
LEMMA TreeRooted ==
  ASSUME WellOrdered, IInv, TreeInv, loaded, make.pc = "idle", NEW w, Grown(heap, LatestRoot, latest, w),
         SameWords(w.h, w.root, heap, LatestRoot),
         heap' = w.h, cps' = [cps EXCEPT ![latest].root = w.root],
         entries' = With(entries, {PageEntry(w.olds[i]) : i \in DOMAIN w.olds}),
         UNCHANGED <<log, latest, reverse, make, pinned, leaked, loaded>>,
         patched' \subseteq Versions \X Addrs, failures' \in 0..MaxFailures
  PROVE  TreeInv'
<1> DEFINE O == {w.olds[i] : i \in DOMAIN w.olds}
           new == {PageEntry(w.olds[i]) : i \in DOMAIN w.olds}
<1>1. /\ Tree(w.h, w.root) /\ OthersKept(heap, LatestRoot, latest, w.h)
      /\ NodesKnown(heap, LatestRoot, latest, w.h, w.root)
      /\ OldsKnown(heap, LatestRoot, latest, w.h, w.root, w.olds)
  BY DEF Grown
<1>2. /\ latest \in Nat /\ latest \in Versions /\ latest \in Held
      /\ InUse(heap, LatestRoot, latest, log, leaked) /\ Tree(heap, LatestRoot)
  BY HeldIs
<1>3. O = Nodes(heap, LatestRoot) \ Nodes(w.h, w.root) /\ \A p \in O : w.h[p].obs = latest
  BY <1>1 DEF OldsKnown
<1>4. \A e : e \in new <=> \E p \in O : e = PageEntry(p)
  OBVIOUS
<1>5. /\ DOMAIN cps' = DOMAIN cps /\ cps'[latest].root = w.root
      /\ \A c \in DOMAIN cps : c # latest => cps'[c] = cps[c]
      /\ \A c \in DOMAIN cps' : cps'[c] = [root |-> cps'[c].root, obs |-> cps'[c].obs]
  <2> DEFINE x == w.root
  <2>1. cps' = [cps EXCEPT ![latest].root = x]
    OBVIOUS
  <2> HIDE DEF x
  <2>2. /\ DOMAIN cps' = DOMAIN cps /\ cps'[latest].root = x
        /\ \A c \in DOMAIN cps : c # latest => cps'[c] = cps[c]
        /\ \A c \in DOMAIN cps' : cps'[c] = [root |-> cps'[c].root, obs |-> cps'[c].obs]
    BY <2>1, RootedIs
  <2> QED  BY <2>2 DEF x
<1>6. entries' = With(entries, new)
  OBVIOUS
<1> HIDE DEF O, new
<1>7. ASSUME NEW p \in Nodes(heap, LatestRoot)
      PROVE  p \in PageIds /\ heap[p].live /\ p \notin ZeroPages /\ p \notin leaked /\ heap[p].ts <= latest /\ p \notin Handed
  <2>1. p \in PageIds /\ heap[p].live /\ p \notin ZeroPages
    BY <1>2, NodesLive DEF Tree
  <2>2. p \notin leaked /\ heap[p].ts <= latest
    BY <1>2 DEF InUse
  <2>3. p \notin Handed
    BY Apart
  <2> QED  BY <2>1, <2>2, <2>3
<1>8. \A e \in DOMAIN entries : entries[e] = 1 /\ IsEntry(e)
  BY DEF TreeInv, EntriesInv
<1>9. \A e \in new : e \notin DOMAIN entries
  <2>1. \A p \in O : PageEntry(p) \notin DOMAIN entries
    BY <1>3, <1>7 DEF Handed, PagesIn
  <2> QED  BY <1>4, <2>1
<1>10. DOMAIN entries' = DOMAIN entries \cup new /\ \A e \in DOMAIN entries' : entries'[e] = 1
  <2>1. \A e \in DOMAIN entries : entries[e] = 1
    BY <1>8
  <2>2. DOMAIN With(entries, new) = DOMAIN entries \cup new /\ \A e \in DOMAIN With(entries, new) : With(entries, new)[e] = 1
    BY <1>9, <2>1, WithIs
  <2> QED  BY <1>6, <2>2
<1>11. Handed' = Handed \cup O
  <2>1. ASSUME NEW p \in PageIds PROVE PageEntry(p) \in DOMAIN entries' <=> PageEntry(p) \in DOMAIN entries \/ p \in O
    BY <1>4, <1>10, EntryIs
  <2>2. O \subseteq PageIds
    BY <1>3, <1>7
  <2> QED  BY <2>1, <2>2 DEF Handed, PagesIn
<1>12. InodesHanded' = InodesHanded
  <2>1. ASSUME NEW c \in Versions PROVE InodeEntry(c) \in DOMAIN entries' <=> InodeEntry(c) \in DOMAIN entries
    BY <1>4, <1>10, EntryIs
  <2> QED  BY <2>1 DEF InodesHanded, InodesIn
<1>13. Held' = Held /\ LatestRoot' = w.root /\ ~Making /\ ~Making'
  BY <1>5 DEF Held, LatestRoot, Making
<1>14. ASSUME NEW p \in PageIds, heap[p].live PROVE w.h[p].live /\ w.h[p].ts = heap[p].ts
  BY <1>1, <1>14 DEF OthersKept
<1>15. ASSUME NEW c \in Held, c # latest
       PROVE  /\ c \in DOMAIN cps' /\ cps'[c] = cps[c] /\ c < latest
              /\ InUse(w.h, cps[c].root, c, log, leaked) /\ Nodes(w.h, cps[c].root) = Nodes(heap, cps[c].root)
  <2>1. c \in Nat /\ c \in DOMAIN cps /\ c <= latest /\ InUse(heap, cps[c].root, c, log, leaked)
    BY HeldIs
  <2>2. c < latest
    BY <1>2, <1>15, <2>1
  <2>3. ASSUME NEW p \in Nodes(heap, cps[c].root)
        PROVE  w.h[p].slots = heap[p].slots /\ w.h[p].live /\ w.h[p].ts = heap[p].ts /\ p \notin leaked
    <3>1. p \in PageIds /\ heap[p].live
      BY <2>1, NodesLive DEF InUse, Tree
    <3>2. heap[p].ts <= c /\ p \notin leaked
      BY <2>1 DEF InUse
    <3>3. heap[p].ts \in Versions
      BY <3>1 DEF TreeInv, TypeOK, Pages
    <3>4. heap[p].ts # latest
      BY <1>2, <2>1, <2>2, <3>2, <3>3 DEF Versions
    <3> QED  BY <1>1, <3>1, <3>2, <3>4 DEF OthersKept
  <2>4. w.h \in [PageIds -> Pages] /\ ZerosKept(w.h)
    BY <1>1 DEF Tree
  <2>5. InUse(w.h, cps[c].root, c, log, leaked) /\ Nodes(w.h, cps[c].root) = Nodes(heap, cps[c].root)
    <3> DEFINE g == w.h
    <3>1. g \in [PageIds -> Pages] /\ ZerosKept(g) /\ Untouched(heap, g, cps[c].root, leaked)
      BY <2>3, <2>4 DEF Untouched
    <3> HIDE DEF g
    <3>2. InUse(g, cps[c].root, c, log, leaked) /\ Nodes(g, cps[c].root) = Nodes(heap, cps[c].root)
      BY <2>1, <3>1, FrameUse
    <3> QED  BY <3>2 DEF g
  <2> QED  BY <1>5, <1>15, <2>1, <2>2, <2>5
<1>16. ASSUME NEW p \in Nodes(w.h, w.root)
       PROVE  w.h[p].ts <= latest /\ p \notin leaked /\ p \notin Handed
  <2>1. p \in PageIds /\ w.h[p].live
    BY <1>1, NodesLive DEF Tree
  <2>2. CASE p \in Nodes(heap, LatestRoot)
    BY <1>7, <1>14, <2>2
  <2>3. CASE ~heap[p].live
    <3>1. w.h[p].ts = latest
      BY <1>1, <2>1, <2>3 DEF NodesKnown
    <3>2. p \notin leaked /\ p \notin Handed
      BY <2>3 DEF TreeInv, LeakedInv, EntriesInv
    <3>3. w.h[p].ts <= latest
      BY <1>2, <3>1
    <3> QED  BY <3>2, <3>3
  <2> QED  BY <1>1, <2>2, <2>3 DEF NodesKnown
<1>17. InUse(w.h, w.root, latest, log, leaked)
  <2>1. Holds(w.h, w.root, log, latest)
    BY <1>2, Places DEF InUse, Holds, SameWords
  <2> QED  BY <1>1, <1>16, <2>1 DEF InUse
<1>18. HeldInv'
  <2> SUFFICES ASSUME NEW c \in Held
               PROVE  c \in DOMAIN cps' /\ c <= latest /\ InUse(w.h, cps'[c].root, c, log, leaked)
    BY <1>13 DEF HeldInv
  <2>1. CASE c = latest
    BY <1>2, <1>5, <1>17, <2>1, HeldIs
  <2>2. CASE c # latest
    BY <1>15, <2>2, HeldIs
  <2> QED  BY <2>1, <2>2
<1>19. TypeOK'
  <2>1. heap' \in [PageIds -> Pages]
    BY <1>1 DEF Tree
  <2>2. DOMAIN cps' \subseteq Versions
    BY <1>5 DEF TreeInv, TypeOK
  <2> QED  BY <2>1, <2>2 DEF TreeInv, TypeOK
<1>20. CpsInv'
  BY <1>5, <1>12 DEF TreeInv, CpsInv
<1>21. MakingInv' /\ StackInv' /\ PublishInv' /\ GoneInv'
  BY <1>13 DEF MakingInv, StackInv, PublishInv, GoneInv
<1>22. ASSUME NEW p \in Handed'
       PROVE  /\ w.h[p].live /\ p \notin ZeroPages /\ p \notin leaked /\ w.h[p].ts <= latest /\ w.h[p].obs <= latest
              /\ \A c \in Held : p \in Nodes(w.h, cps'[c].root) => c < w.h[p].obs
  <2>1. CASE p \in Handed
    <3>1. /\ heap[p].live /\ p \notin ZeroPages /\ p \notin leaked /\ heap[p].ts <= latest /\ heap[p].obs <= latest
          /\ \A c \in Held : p \in Nodes(heap, cps[c].root) => c < heap[p].obs
      BY <2>1 DEF TreeInv, EntriesInv
    <3>2. p \in PageIds
      BY <2>1 DEF Handed, PagesIn
    <3>3. p \notin Nodes(heap, LatestRoot)
      BY <2>1, <1>7
    <3>4. w.h[p].live /\ w.h[p].ts = heap[p].ts /\ w.h[p].obs = heap[p].obs
      BY <1>1, <3>1, <3>2, <3>3 DEF OthersKept
    <3>5. ASSUME NEW c \in Held, p \in Nodes(w.h, cps'[c].root) PROVE c < heap[p].obs
      <4>1. c # latest
        BY <1>5, <1>16, <2>1, <3>5
      <4> QED  BY <1>15, <3>1, <3>5, <4>1
    <3> QED  BY <3>1, <3>4, <3>5
  <2>2. CASE p \in O
    <3>1. /\ p \in PageIds /\ heap[p].live /\ p \notin ZeroPages /\ p \notin leaked /\ heap[p].ts <= latest
          /\ p \notin Nodes(w.h, w.root) /\ w.h[p].obs = latest
      BY <1>3, <1>7, <2>2
    <3>2. w.h[p].live /\ w.h[p].ts <= latest
      BY <1>14, <3>1
    <3>3. w.h[p].obs <= latest
      BY <1>2, <3>1
    <3>4. ASSUME NEW c \in Held, p \in Nodes(w.h, cps'[c].root) PROVE c < latest
      <4>1. c # latest
        BY <1>5, <3>1, <3>4
      <4> QED  BY <1>15, <4>1
    <3> QED  BY <3>1, <3>2, <3>3, <3>4
  <2> QED  BY <1>11, <2>1, <2>2
<1>23. EntriesInv'
  <2>1. \A e \in DOMAIN entries' : entries'[e] = 1 /\ IsEntry(e)
    <3>1. \A e \in new : IsEntry(e)
      BY <1>3, <1>4, <1>7 DEF IsEntry
    <3> QED  BY <1>8, <1>10, <3>1
  <2>2. ASSUME NEW c \in InodesHanded PROVE cps'[c].obs \in Nat /\ c < cps'[c].obs /\ c < latest
    <3>1. cps[c].obs \in Nat /\ c < cps[c].obs /\ c < latest /\ c \in DOMAIN cps
      BY DEF TreeInv, EntriesInv, CpsInv
    <3>2. c # latest
      BY <1>2, <3>1
    <3> QED  BY <1>5, <3>1, <3>2
  <2> QED  BY <1>12, <1>13, <1>22, <2>1, <2>2 DEF EntriesInv
<1>24. LeakedInv'
  <2>1. ASSUME NEW p \in leaked PROVE w.h[p].live /\ p \notin ZeroPages
    <3>1. p \in PageIds /\ heap[p].live /\ p \notin ZeroPages
      BY DEF TreeInv, TypeOK, LeakedInv
    <3> QED  BY <1>14, <3>1
  <2> QED  BY <2>1 DEF LeakedInv
<1>25. AccountInv'
  <2> SUFFICES ASSUME NEW p \in PageIds, w.h[p].live
               PROVE  p \in ZeroPages \/ p \in leaked \/ p \in Handed' \/ p \in Nodes(w.h, w.root)
    BY <1>13 DEF AccountInv
  <2>1. CASE ~heap[p].live
    BY <1>1, <2>1 DEF NodesKnown
  <2>2. CASE heap[p].live
    <3>1. p \in ZeroPages \/ p \in leaked \/ p \in Handed \/ p \in Nodes(heap, LatestRoot)
      BY <1>13, <2>2 DEF TreeInv, AccountInv
    <3> QED  BY <1>3, <1>11, <3>1
  <2> QED  BY <2>1, <2>2
<1> QED  BY <1>18, <1>19, <1>20, <1>21, <1>23, <1>24, <1>25 DEF TreeInv

\* Preparing a page for direct access changes the latest tree and none of its words.
LEMMA TreeDirect ==
  ASSUME WellOrdered, IInv, TreeInv, NEW a \in Addrs, NEW f, PrepareDirect(a, f)
  PROVE  TreeInv'
<1> DEFINE w == ApplyChange(heap, LatestRoot, a, Null, latest, f)
<1>1. /\ loaded /\ make.pc = "idle" /\ InRange(a) /\ RunsOut(f # NoFailure)
      /\ heap' = w.h /\ cps' = [cps EXCEPT ![latest].root = w.root]
      /\ entries' = With(entries, {PageEntry(w.olds[i]) : i \in DOMAIN w.olds})
      /\ patched' = (IF w.ok THEN patched \cup {<<latest, a>>} ELSE patched)
      /\ UNCHANGED <<log, latest, reverse, make, pinned, leaked, loaded>>
  BY DEF PrepareDirect, LatestRoot
<1>2. Applies(heap, LatestRoot, a, Null, latest, w)
  <2>1. latest \in Versions /\ Tree(heap, LatestRoot) /\ Null \in Nat
    BY <1>1, HeldIs DEF Null
  <2>2. Route(a) \in Paths /\ a.word \in Offsets
    BY <1>1, Places
  <2> QED  BY <2>1, <2>2, ApplyChangeIs
<1> HIDE DEF w
<1>3. Grown(heap, LatestRoot, latest, w) /\ SameWords(w.h, w.root, heap, LatestRoot)
  BY <1>2 DEF Applies
<1>4. failures' \in 0..MaxFailures
  <2>1. failures \in 0..MaxFailures
    BY DEF TreeInv, TypeOK
  <2> QED  BY <1>1, <2>1, TreeAssumption DEF RunsOut
<1>5. patched' \subseteq Versions \X Addrs
  <2>1. patched \subseteq Versions \X Addrs /\ latest \in Versions
    BY DEF TreeInv, TypeOK
  <2>2. <<latest, a>> \in Versions \X Addrs
    BY <2>1
  <2> QED  BY <1>1, <2>1, <2>2
<1> QED  BY <1>1, <1>3, <1>4, <1>5, TreeRooted

-----------------------------------------------------------------------------
(* The first state, and every step *)

\* The first checkpoint has no pages.
LEMMA EmptyTree ==
  ASSUME WellOrdered, NEW h \in [PageIds -> Pages], ZerosKept(h)
  PROVE  /\ Tree(h, Null) /\ Nodes(h, Null) = {}
         /\ \A q \in Paths : PageOn(h, Null, q, 0) = Null
<1> DEFINE A == [k \in Levels |-> Null]
<1>1. ASSUME NEW q \in Paths PROVE \A k \in Levels : PageOn(h, Null, q, k) = Null
  <2>1. Walks(A, h, Null, q)
    BY TopIs, LevelBelow DEF Walks, Child
  <2>2. \A k \in Levels : A[k] = Null
    OBVIOUS
  <2> HIDE DEF A
  <2>3. \A k \in Levels : PageOn(h, Null, q, k) = A[k]
    BY <2>1, OnlyWalk
  <2> QED  BY <2>2, <2>3
<1>2. Typed(h, Null)
  BY <1>1 DEF Typed, Blank
<1>3. Null \in NotFreed
  BY DEF NotFreed
<1>4. Single(h, Null)
  BY <1>1, <1>3 DEF Single
<1>5. Nodes(h, Null) = {}
  BY <1>1, <1>3 DEF Nodes
<1>6. 0 \in Levels
  BY TopIs
<1> QED  BY <1>1, <1>2, <1>4, <1>5, <1>6 DEF Tree

\* At first the zero pages are the only ones allocated.
LEMMA InitialHeapIs ==
  /\ InitialHeap \in [PageIds -> Pages] /\ ZerosKept(InitialHeap)
  /\ \A p \in PageIds : InitialHeap[p].live => p \in ZeroPages
<1>1. /\ 0 \in Versions /\ InvalidTs \in Versions \cup {InvalidTs}
  BY TreeAssumption DEF Versions
<1>2. ASSUME NEW l \in 0..(FoffsetLevels - 1)
      PROVE  l \in Levels /\ Zero(l) - 1 = l /\ Zero(l) \in PageIds /\ Zero(l) \in ZeroPages
  <2>1. l \in Levels /\ l \in Nat
    BY TopIs, TreeAssumption DEF Levels
  <2>2. Zero(l) - 1 = l
    BY <2>1 DEF Zero
  <2> QED  BY <2>1, <2>2, ZeroIs
<1>3. ASSUME NEW l \in Levels PROVE NewPage(0, ZeroSlots(l)) \in Pages
  <2>1. ZeroSlots(l) \in [Offsets -> Nat]
    BY ZeroSlotsType
  <2> QED  BY <1>1, <2>1 DEF NewPage, Pages
<1>4. FreePage \in Pages /\ ~FreePage.live
  <2>1. [i \in Offsets |-> Null] \in [Offsets -> Nat]
    BY DEF Null
  <2> QED  BY <1>1, <2>1 DEF FreePage, Pages
<1>5. ASSUME NEW p \in ZeroPages PROVE NewPage(0, ZeroSlots(p - 1)) \in Pages
  <2>1. PICK l \in 0..(FoffsetLevels - 1) : p = Zero(l)
    BY ZeroIs
  <2>2. p - 1 = l /\ l \in Levels
    BY <1>2, <2>1
  <2> QED  BY <1>3, <2>2
<1>6. \A p \in PageIds : InitialHeap[p] = IF p \in ZeroPages THEN NewPage(0, ZeroSlots(p - 1)) ELSE FreePage
  BY DEF InitialHeap
<1>7. InitialHeap \in [PageIds -> Pages]
  <2> HIDE DEF Pages
  <2> QED  BY <1>4, <1>5 DEF InitialHeap
<1>8. \A p \in PageIds : InitialHeap[p].live => p \in ZeroPages
  BY <1>4, <1>6
<1>9. ZerosKept(InitialHeap)
  <2> SUFFICES ASSUME NEW l \in 0..(FoffsetLevels - 1)
               PROVE  InitialHeap[Zero(l)].live /\ InitialHeap[Zero(l)].ts = 0 /\ InitialHeap[Zero(l)].slots = ZeroSlots(l)
    BY DEF ZerosKept
  <2>1. InitialHeap[Zero(l)] = NewPage(0, ZeroSlots(l))
    BY <1>2, <1>6
  <2> QED  BY <2>1 DEF NewPage
<1> QED  BY <1>7, <1>8, <1>9

\* TreeInv holds at first.
LEMMA TreeInit ==
  ASSUME WellOrdered, Init
  PROVE  TreeInv
<1>1. /\ log = <<>> /\ heap = InitialHeap /\ cps = [c \in {0} |-> [root |-> Null, obs |-> 0]]
      /\ latest = 0 /\ reverse = {0} /\ entries = NoEntries /\ make = Idle
      /\ pinned = {} /\ patched = {} /\ leaked = {} /\ failures = 0 /\ loaded = TRUE
  BY DEF Init
<1>2. /\ heap \in [PageIds -> Pages] /\ ZerosKept(heap) /\ \A p \in PageIds : heap[p].live => p \in ZeroPages
  BY <1>1, InitialHeapIs
<1>3. /\ Tree(heap, Null) /\ Nodes(heap, Null) = {} /\ \A q \in Paths : PageOn(heap, Null, q, 0) = Null
  BY <1>2, EmptyTree
<1>4. DOMAIN cps = {0} /\ cps[0] = [root |-> Null, obs |-> 0] /\ cps[0].root = Null
  BY <1>1
<1>5. DOMAIN entries = {} /\ Handed = {} /\ InodesHanded = {}
  <2>1. DOMAIN entries = {}
    BY <1>1 DEF NoEntries
  <2> QED  BY <2>1 DEF Handed, InodesHanded, PagesIn, InodesIn
<1>6. make.pc = "idle" /\ ~Making /\ Held = {0} /\ LatestRoot = Null
  BY <1>1, <1>4 DEF Idle, Making, Held, LatestRoot
<1>7. 0 \in Versions /\ 0 \in 0..MaxFailures
  BY TreeAssumption DEF Versions
<1>8. log \in Seq(SUBSET Addrs) /\ Len(log) <= MaxTs
  BY <1>1, TreeAssumption
<1>9. TypeOK
  BY <1>1, <1>2, <1>4, <1>6, <1>7, <1>8 DEF TypeOK
<1>10. CpsInv
  BY <1>1, <1>4, <1>5 DEF CpsInv
<1>11. InUse(heap, Null, 0, log, leaked)
  <2>1. ASSUME NEW a \in Words
        PROVE  Child(heap, PageOn(heap, Null, Route(a), 0), a.word) = LastIn(log, a, 0)
    <3>1. PageOn(heap, Null, Route(a), 0) = Null
      BY <1>3, Places
    <3>2. LastIn(log, a, 0) \in 0..0
      BY LastIs
    <3>3. LastIn(log, a, 0) = 0
      BY <3>2
    <3> QED  BY <3>1, <3>3 DEF Child, Null
  <2> QED  BY <1>3, <2>1 DEF InUse, Holds
<1>12. HeldInv
  <2>1. 0 \in DOMAIN cps /\ 0 <= latest /\ InUse(heap, cps[0].root, 0, log, leaked)
    BY <1>1, <1>4, <1>11
  <2> QED  BY <1>6, <2>1 DEF HeldInv
<1>13. MakingInv /\ StackInv /\ PublishInv
  BY <1>6 DEF MakingInv, StackInv, PublishInv
<1>14. EntriesInv /\ LeakedInv
  BY <1>1, <1>5 DEF EntriesInv, LeakedInv
<1>15. AccountInv /\ GoneInv
  BY <1>1, <1>2 DEF AccountInv, GoneInv
<1> QED  BY <1>9, <1>10, <1>12, <1>13, <1>14, <1>15 DEF TreeInv

\* A step that changes nothing keeps TreeInv.
LEMMA TreeSame ==
  ASSUME IInv, TreeInv, UNCHANGED vars
  PROVE  TreeInv'
<1>1. /\ UNCHANGED <<log, heap, cps, latest, reverse, entries, make, patched, leaked, failures, loaded>>
      /\ pinned' = pinned
  BY DEF vars
<1>2. pinned' \subseteq Versions /\ (pinned' = {} \/ loaded)
  BY <1>1 DEF TreeInv, TypeOK, GoneInv
<1>3. Held' \subseteq Held
  BY <1>1 DEF Held
<1> QED  BY <1>1, <1>2, <1>3, PinStep

\* TreeInv is kept by every step.
LEMMA TreeStep ==
  ASSUME WellOrdered
  PROVE  IInv /\ TreeInv /\ [Next]_vars => TreeInv'
<1> SUFFICES ASSUME IInv, TreeInv, [Next]_vars PROVE TreeInv'
  OBVIOUS
<1>1. CASE \E W \in WriteSets : Commit(W)
  BY <1>1, WriteSetsType, TreeCommit
<1>2. CASE Checkout \/ \E c \in Versions : Release(c)
  BY <1>2, PinSteps
<1>3. CASE StartCheckpoint
  BY <1>3, TreeStart
<1>4. CASE NextEntry
  BY <1>4, TreeEntry
<1>5. CASE \E a \in Addrs, f \in Failures \cup {NoFailure} : ApplyWord(a, f)
  BY <1>5, TreeApply
<1>6. CASE \E a \in Addrs : ApplyOutside(a)
  BY <1>6, TreeOutside
<1>7. CASE MarkObsoleted
  BY <1>7, TreeMark
<1>8. CASE MarkFails
  BY <1>8, TreeMarkFails
<1>9. CASE Publish
  BY <1>9, TreePublish
<1>10. CASE Collect
  BY <1>10, TreeCollect
<1>11. CASE \E a \in Addrs, f \in Failures \cup {NoFailure} : PrepareDirect(a, f)
  BY <1>11, TreeDirect
<1>12. CASE Unload
  BY <1>12, TreeUnload
<1>13. CASE UNCHANGED vars
  BY <1>13, TreeSame
<1> QED
  BY <1>1, <1>2, <1>3, <1>4, <1>5, <1>6, <1>7, <1>8, <1>9, <1>10, <1>11, <1>12, <1>13, ZenonT(20) DEF Next

\* A word reads as what the path to it holds.
LEMMA ReadIs ==
  ASSUME WellOrdered, NEW h, NEW root, NEW a
  PROVE  Read(h, root, a) = Child(h, PageOn(h, root, Route(a), 0), a.word)
<1>1. PageAt(h, root, a, 0) = PageOn(h, root, Route(a), 0)
  BY TopIs, PageAtIs
<1> QED  BY <1>1 DEF Read, Child, Null

\* Whoever has a checkpoint reads the log from it.
LEMMA HeldReads ==
  ASSUME WellOrdered, IInv, TreeInv
  PROVE  ReadsLog
<1> SUFFICES ASSUME NEW c \in Held
             PROVE  /\ c \in DOMAIN cps
                    /\ TreePages(heap, cps[c].root) \subseteq Live(heap)
                    /\ \A a \in Words : Read(heap, cps[c].root, a) = LastWrite(a, c)
  BY DEF ReadsLog, TreeInv
<1>1. c \in DOMAIN cps /\ InUse(heap, cps[c].root, c, log, leaked)
  BY HeldIs
<1>2. TreePages(heap, cps[c].root) = Nodes(heap, cps[c].root)
  BY <1>1, TreePagesIs DEF InUse, Tree
<1>3. Nodes(heap, cps[c].root) \subseteq Live(heap)
  BY <1>1, NodesLive DEF InUse, Tree, Live
<1>4. ASSUME NEW a \in Words PROVE Read(heap, cps[c].root, a) = LastWrite(a, c)
  BY <1>1, ReadIs, LastIsLog DEF InUse, Holds
<1> QED  BY <1>1, <1>2, <1>3, <1>4

\* The lifetimes of the pages of a checkpoint in use hold its timestamp.
LEMMA HeldLifetimes ==
  ASSUME WellOrdered, IInv, TreeInv
  PROVE  LifetimesHold
<1>1. ASSUME NEW c \in Held, NEW p \in TreePages(heap, cps[c].root), PageEntry(p) \in DOMAIN entries
      PROVE  heap[p].ts <= c /\ c < heap[p].obs
  <2>1. InUse(heap, cps[c].root, c, log, leaked)
    BY HeldIs
  <2>2. p \in Nodes(heap, cps[c].root)
    BY <2>1, TreePagesIs DEF InUse, Tree
  <2>3. p \in PageIds
    BY <2>1, <2>2, NodesLive DEF InUse, Tree
  <2>4. p \in Handed
    BY <1>1, <2>3 DEF Handed, PagesIn
  <2>5. c < heap[p].obs
    BY <2>2, <2>4 DEF TreeInv, EntriesInv
  <2> QED  BY <2>1, <2>2, <2>5 DEF InUse
<1>2. \A e \in DOMAIN entries : entries[e] = 1
  BY DEF TreeInv, EntriesInv
<1> QED  BY <1>1, <1>2 DEF LifetimesHold

-----------------------------------------------------------------------------
(* The theorems *)

INSTANCE WellFoundedInduction

\* The natural numbers are well ordered.
LEMMA Smallest == WellOrdered
<1> SUFFICES ASSUME NEW T \in SUBSET Nat, T # {} PROVE \E x \in T : \A y \in T : x <= y
  BY DEF WellOrdered
<1>1. \E x \in T : \A y \in T : ~ (<<y, x>> \in OpToRel(<, Nat))
  BY NatLessThanWellFounded, WFMin
<1>2. ASSUME NEW x \in T, NEW y \in T, <<y, x>> \notin OpToRel(<, Nat) PROVE x <= y
  BY <1>2 DEF OpToRel
<1> QED BY <1>1, <1>2

\* Both invariants hold in every state.
LEMMA Always == Spec => [](IInv /\ TreeInv)
<1>1. Init => TreeInv
  BY Smallest, TreeInit
<1>2. IInv /\ TreeInv /\ [Next]_vars => TreeInv'
  BY Smallest, TreeStep
<1> QED  BY <1>1, <1>2, InitInv, StepInv, PTL DEF Spec

\* Every checkpoint in use reads as the log up to its timestamp, at every word
\* (sivfs_make_checkpoint, sivfs_apply_change_checkpoint, sivfs_gc_checkpoints): for
\* every shape of the tree, any number of pages and however often memory runs out.
THEOREM CheckpointsRead == Spec => []ReadsLog
<1>1. IInv /\ TreeInv => ReadsLog
  BY Smallest, HeldReads
<1> QED  BY <1>1, Always, PTL

\* What the collector (sivfs_gc_or_reassign_entry) has of a checkpoint in use it can tell
\* by the lifetime, and it has nothing twice.
THEOREM CollectorSees == Spec => []LifetimesHold
<1>1. IInv /\ TreeInv => LifetimesHold
  BY Smallest, HeldLifetimes
<1> QED  BY <1>1, Always, PTL

\* sivfs_destroy_checkpoints frees every inode and every page but those that leaked when
\* a checkpoint failed.
THEOREM DestroyFrees == Spec => []AllFreed
<1>1. IInv /\ TreeInv => AllFreed
  BY DEF TreeInv, GoneInv, AllFreed
<1> QED  BY <1>1, Always, PTL

\* The thread that makes checkpoints (sivfs_make_checkpoint) gives up only over a word
\* outside the tree, for every shape of the tree and however often memory runs out: the
\* timestamp of a checkpoint that failed is free when it is made again.
THEOREM MakerGoesOn == Spec => []MakerSurvives
<1>1. IInv => MakerSurvives
  BY DEF IInv
<1> QED  BY <1>1, InitInv, StepInv, PTL DEF Spec

=============================================================================
