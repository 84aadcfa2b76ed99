-------------------------- MODULE WorkingSetProofs --------------------------
(***************************************************************************)
(* A transaction reads its snapshot, for any number of pages, words and    *)
(* commits, as long as files are not truncated and a page with writes is   *)
(* not reclaimed.                                                          *)
(***************************************************************************)
EXTENDS WorkingSet, WellFoundedInduction, TLAPS

\* Most leaves are logic, the others arithmetic.
USE ZenonT(5), SMTT(15)

-----------------------------------------------------------------------------
(* The last write to a word *)

\* Entry k of the log g wrote word l.
Wrote(g, l, k) == ~g[k].aborted /\ l \in g[k].writes

\* v is the last of the first n entries of g that wrote l, or 0.
IsLast(g, l, n, v) ==
  /\ v \in 0 .. n
  /\ v # 0 => Wrote(g, l, v)
  /\ \A k \in (v + 1) .. n : ~Wrote(g, l, k)

\* A set of numbers up to some bound, if it is not empty, has a greatest element.
LEMMA HasMax ==
  ASSUME NEW K \in SUBSET Nat, NEW n \in Nat, \A k \in K : k <= n, K # {}
  PROVE  Max(K) \in K /\ \A k \in K : k <= Max(K)
<1> DEFINE T == {x \in Nat : n - x \in K}
<1>1. T \subseteq Nat /\ T # {}
  <2>1. PICK k \in K : TRUE
    OBVIOUS
  <2>2. k \in Nat /\ k <= n
    BY <2>1
  <2>3. n - k \in Nat /\ n - (n - k) = k
    BY <2>2
  <2> QED  BY <2>1, <2>3
<1>2. IsWellFoundedOn(OpToRel(<, Nat), Nat)
  BY NatLessThanWellFounded
<1>3. \E x \in T : \A y \in T : ~(<<y, x>> \in OpToRel(<, Nat))
  BY <1>1, <1>2, WFMin
<1>4. \A x, y \in Nat : <<y, x>> \in OpToRel(<, Nat) <=> y < x
  BY DEF OpToRel
<1>5. PICK x \in T : \A y \in T : ~(y < x)
  BY <1>1, <1>3, <1>4
<1>6. \A k \in K : k \in Nat /\ n - k \in T
  OBVIOUS
<1>7. \A k \in K : n - x >= k
  BY <1>5, <1>6
<1>8. \E z \in K : \A k \in K : z >= k
  BY <1>7
<1>9. Max(K) \in K /\ \A k \in K : Max(K) >= k
  BY <1>8 DEF Max
<1> QED  BY <1>9

\* There is only one last write.
LEMMA LastUnique ==
  ASSUME NEW g, NEW l, NEW n \in Nat, NEW v, NEW w, IsLast(g, l, n, v), IsLast(g, l, n, w)
  PROVE  v = w
<1>1. v \in Nat /\ w \in Nat /\ v <= n /\ w <= n
  BY DEF IsLast
<1>2. CASE v < w
  BY <1>1, <1>2 DEF IsLast
<1>3. CASE w < v
  BY <1>1, <1>3 DEF IsLast
<1> QED  BY <1>1, <1>2, <1>3

\* Entries appended to the log do not change the last write of an earlier time.
LEMMA LastStays ==
  ASSUME NEW g, NEW h, NEW l, NEW n \in Nat, NEW v, \A k \in 1 .. n : h[k] = g[k],
         IsLast(g, l, n, v)
  PROVE  IsLast(h, l, n, v)
<1>1. v \in Nat /\ v <= n
  BY DEF IsLast
<1>2. \A k \in 1 .. n : Wrote(h, l, k) <=> Wrote(g, l, k)
  BY DEF Wrote
<1>3. v # 0 => v \in 1 .. n
  BY <1>1
<1>4. \A k \in (v + 1) .. n : k \in 1 .. n
  BY <1>1
<1> QED  BY <1>2, <1>3, <1>4 DEF IsLast

\* Applying the entries from a + 1 to b, without one that did not write l, to the last
\* write up to a gives the last write up to b.
LEMMA ApplyLast ==
  ASSUME NEW l, NEW a \in Nat, NEW b \in Nat, a <= b, NEW v, NEW skip,
         IsLast(log, l, a, v),
         skip \in (a + 1) .. b => ~Wrote(log, l, skip)
  PROVE  IsLast(log, l, b, Apply(v, l, a + 1, b, skip))
<1> DEFINE K == Writers(l, a + 1, b) \ {skip}
<1>1. \A k : k \in K <=> k \in (a + 1) .. b /\ Wrote(log, l, k)
  BY DEF Writers, Wrote
<1>2. v \in Nat /\ v <= a
  BY DEF IsLast
<1>3. CASE K = {}
  <2>1. Apply(v, l, a + 1, b, skip) = v
    BY <1>3 DEF Apply
  <2>2. \A k \in (v + 1) .. b : ~Wrote(log, l, k)
    <3> TAKE k \in (v + 1) .. b
    <3>1. CASE k <= a
      <4>1. k \in (v + 1) .. a
        BY <1>2, <3>1
      <4> QED  BY <4>1 DEF IsLast
    <3>2. CASE k > a
      <4>1. k \in (a + 1) .. b
        BY <1>2, <3>2
      <4> QED  BY <1>1, <1>3, <4>1
    <3> QED  BY <1>2, <3>1, <3>2
  <2>3. v \in 0 .. b
    BY <1>2
  <2> QED  BY <2>1, <2>2, <2>3 DEF IsLast
<1>4. CASE K # {}
  <2>1. Apply(v, l, a + 1, b, skip) = Max(K)
    BY <1>4 DEF Apply
  <2>2. K \in SUBSET Nat /\ \A k \in K : k <= b
    BY <1>1
  <2>3. Max(K) \in K /\ \A k \in K : k <= Max(K)
    BY <1>4, <2>2, HasMax
  <2> HIDE DEF K
  <2>4. /\ Max(K) \in (a + 1) .. b /\ Wrote(log, l, Max(K))
    BY <1>1, <2>3
  <2>5. \A k \in (Max(K) + 1) .. b : ~Wrote(log, l, k)
    BY <1>1, <2>3, <2>4
  <2> QED  BY <2>1, <2>4, <2>5 DEF IsLast
<1> QED  BY <1>3, <1>4

\* A checkpoint holds the last writes up to its timestamp.
LEMMA CheckpointLast ==
  ASSUME NEW l, NEW n \in Nat, InvalidTs \notin Nat
  PROVE  IsLast(log, l, n, InCheckpoint(l, n))
<1>1. IsLast(log, l, 0, 0)
  BY DEF IsLast
<1>2. InvalidTs \notin 1 .. n
  OBVIOUS
<1> QED  BY <1>1, <1>2, ApplyLast DEF InCheckpoint

-----------------------------------------------------------------------------
(* The inductive invariant *)

\* What a mapped word holds.  Between the commit and the update it is ahead of the
\* thread's timestamp if the commit wrote it, and then no other entry in between did.
Holds(l) ==
  IF l \in own THEN content[l] = Own
  ELSE IF commit # InvalidTs /\ Wrote(log, l, commit)
  THEN /\ kind[l[1]] = "own" /\ content[l] = commit
       /\ \A k \in (ts + 1) .. (commit - 1) : ~Wrote(log, l, k)
  ELSE IsLast(log, l, ts, content[l])

Words == \A l \in Locs : kind[l[1]] # "none" => Holds(l)

\* How the thread's timestamp, checkpoint, write set and pages are related.
Related ==
  /\ beyond = {} /\ ptl = FALSE /\ Len(log) <= MaxTs
  /\ ts # InvalidTs => ts <= Len(log)
  /\ ts = InvalidTs => own = {} /\ \A p \in Pages : kind[p] = "none"
  /\ cp # InvalidTs => cp <= Len(log)
  /\ phase = "run" /\ ts # InvalidTs => cp # InvalidTs /\ cp <= ts
  /\ phase = "update" => cp # InvalidTs
  /\ phase \in {"checkout", "update"} => own = {}
  /\ commit # InvalidTs =>
       /\ phase \in {"checkout", "update"} /\ ts # InvalidTs
       /\ ts < commit /\ commit <= Len(log)
  /\ \A l \in own : kind[l[1]] = "own"

IInv == TypeOK /\ Related /\ Words

\* Files are not truncated and a page with writes is not reclaimed.
Kept == LossyReclaim = FALSE /\ Truncates = FALSE

\* The invariant holds initially.
LEMMA InitInv == ASSUME Init PROVE IInv
<1>1. TypeOK
  <2>1. log \in Seq(Entry) /\ Len(log) = 0
    BY DEF Init
  <2>2. 0 \in 0 .. 0 /\ 0 \in 0 .. MaxTs
    BY WorkingSetAssumption
  <2>3. kind \in [Pages -> {"none", "checkpoint", "own"}] /\ content \in [Locs -> 0 .. MaxTs \cup {Own}]
    BY <2>2 DEF Init
  <2> QED  BY <2>1, <2>2, <2>3 DEF Init, TypeOK, NoPage
<1>2. Related
  BY WorkingSetAssumption DEF Init, Related
<1>3. Words
  BY WorkingSetAssumption DEF Init, Words
<1> QED  BY <1>1, <1>2, <1>3 DEF IInv

\* A step that changes nothing that the mapped words depend on.
LEMMA WordsSame ==
  ASSUME Words, UNCHANGED <<log, ts, kind, content, own, commit>>
  PROVE  Words'
BY DEF Words, Holds, IsLast, Wrote

\* A step that only unmaps pages without writes.
LEMMA WordsUnmapped ==
  ASSUME IInv, UNCHANGED <<log, ts, commit>>, content' = Mapped(content),
         \A p \in Pages : kind'[p] # "none" => kind'[p] = kind[p],
         own' \subseteq own, \A l \in own \ own' : kind'[l[1]] = "none"
  PROVE  Words'
<1> SUFFICES ASSUME NEW l \in Locs, kind'[l[1]] # "none"
             PROVE  Holds(l)'
  BY DEF Words
<1>1. l[1] \in Pages
  BY WorkingSetAssumption
<1>2. kind'[l[1]] = kind[l[1]] /\ content'[l] = content[l] /\ (l \in own' <=> l \in own)
  BY <1>1 DEF Mapped
<1>3. Holds(l)
  BY <1>2 DEF IInv, Words
<1> QED  BY <1>2, <1>3 DEF Holds, IsLast, Wrote

\* A step that appends to the log.
LEMMA Appended ==
  ASSUME IInv, NEW e \in Entry, log' = Append(log, e), Len(log) < MaxTs
  PROVE  /\ log' \in Seq(Entry) /\ Len(log') = Len(log) + 1 /\ Len(log') <= MaxTs
         /\ log'[Len(log) + 1] = e
         /\ \A k \in 1 .. Len(log) : log'[k] = log[k]
BY WorkingSetAssumption DEF IInv, TypeOK

-----------------------------------------------------------------------------
(* Each action preserves the invariant *)

\* The invariant after a page fault.
LEMMA FaultInv == ASSUME IInv, NEW p \in Pages, Fault(p) PROVE IInv'
<1>1. PICK c \in FromCheckpoint(p) :
        /\ kind' = [kind EXCEPT ![p] =
             IF c /\ to_cow # CheckpointPage(p) THEN "checkpoint" ELSE "own"]
        /\ content' = Filled(p, c)
  BY DEF Fault
<1>2. /\ phase = "run" /\ ts # InvalidTs /\ kind[p] = "none" /\ to_cow' = NoPage
      /\ UNCHANGED <<log, latest, beyond, ts, cp, own, dirty, store, ptl, phase, commit>>
  BY DEF Fault, InTxn, shared
<1>3. ts \in Nat /\ cp \in Nat /\ cp <= ts /\ ts <= MaxTs
  BY <1>2, WorkingSetAssumption DEF IInv, TypeOK, Related
<1>4. commit = InvalidTs
  BY <1>2 DEF IInv, Related
<1>5. \A l \in Locs : l[1] = p => IsLast(log, l, ts, Filled(p, c)[l])
  <2> SUFFICES ASSUME NEW l \in Locs, l[1] = p
               PROVE  IsLast(log, l, ts, Filled(p, c)[l])
    OBVIOUS
  <2>1. IsLast(log, l, cp, InCheckpoint(l, cp))
    BY <1>3, CheckpointLast, WorkingSetAssumption
  <2>2. InvalidTs \notin (cp + 1) .. ts
    BY <1>3, WorkingSetAssumption
  <2>3. IsLast(log, l, ts, Apply(InCheckpoint(l, cp), l, cp + 1, ts, InvalidTs))
    BY <1>3, <2>1, <2>2, ApplyLast
  <2>4. CASE c
    <3>1. ~FindFirstWrite(p)
      BY <1>1, <2>4 DEF FromCheckpoint
    <3>2. Writers(l, cp + 1, ts) \ {InvalidTs} = {}
      BY <3>1 DEF FindFirstWrite, Modified, OnPage
    <3>3. Filled(p, c)[l] = Apply(InCheckpoint(l, cp), l, cp + 1, ts, InvalidTs)
      BY <2>4, <3>2 DEF Filled, Apply
    <3> QED  BY <2>3, <3>3
  <2>5. CASE ~c
    <3>1. Filled(p, c)[l] = Apply(InCheckpoint(l, cp), l, cp + 1, ts, InvalidTs)
      BY <2>5 DEF Filled
    <3> QED  BY <2>3, <3>1
  <2> QED  BY <2>4, <2>5
<1>6. \A l \in Locs : content'[l] = IF l[1] = p THEN Filled(p, c)[l] ELSE content[l]
  BY <1>1 DEF Filled
<1>7. \A l \in own : l[1] # p
  BY <1>2 DEF IInv, Related
<1>8. kind' \in [Pages -> {"none", "checkpoint", "own"}] /\ \A q \in Pages : q # p => kind'[q] = kind[q]
  BY <1>1 DEF IInv, TypeOK
<1>9. TypeOK'
  <2>1. \A l \in Locs : content'[l] \in 0 .. MaxTs \cup {Own}
    <3> TAKE l \in Locs
    <3>1. CASE l[1] = p
      <4>1. Filled(p, c)[l] \in 0 .. ts
        BY <1>5, <3>1 DEF IsLast
      <4> QED  BY <1>3, <1>6, <3>1, <4>1, WorkingSetAssumption
    <3>2. CASE l[1] # p
      BY <1>6, <3>2 DEF IInv, TypeOK
    <3> QED  BY <3>1, <3>2
  <2>2. content' \in [Locs -> 0 .. MaxTs \cup {Own}]
    BY <1>1, <2>1 DEF Filled
  <2> QED  BY <1>2, <1>8, <2>2 DEF IInv, TypeOK
<1>10. Related'
  <2>1. \A l \in own' : kind'[l[1]] = "own"
    BY <1>2, <1>7, <1>8, WorkingSetAssumption DEF IInv, TypeOK, Related
  <2> QED  BY <1>2, <2>1 DEF IInv, Related
<1>11. Words'
  <2> SUFFICES ASSUME NEW l \in Locs, kind'[l[1]] # "none"
               PROVE  Holds(l)'
    BY DEF Words
  <2>1. CASE l[1] = p
    <3>1. l \notin own' /\ commit' = InvalidTs /\ log' = log /\ ts' = ts
      BY <1>2, <1>4, <1>7, <2>1
    <3>2. IsLast(log', l, ts', content'[l])
      BY <1>5, <1>6, <2>1, <3>1
    <3> QED  BY <3>1, <3>2 DEF Holds
  <2>2. CASE l[1] # p
    <3>1. kind'[l[1]] = kind[l[1]] /\ content'[l] = content[l]
      BY <1>6, <1>8, <2>2, WorkingSetAssumption
    <3>2. Holds(l)
      BY <3>1 DEF IInv, Words
    <3> QED  BY <1>2, <3>1, <3>2 DEF Holds, IsLast, Wrote
  <2> QED  BY <2>1, <2>2
<1> QED  BY <1>9, <1>10, <1>11 DEF IInv

\* The invariant after reclaim of a clean page.
LEMMA ReclaimInv == ASSUME IInv, Kept, NEW p \in Pages, Reclaim(p) PROVE IInv'
<1>1. /\ kind' = [kind EXCEPT ![p] = "none"] /\ content' = Mapped(content)
      /\ p \notin OnPage(own)
      /\ UNCHANGED <<log, latest, beyond, ts, cp, own, dirty, store, to_cow, ptl, phase, commit>>
  BY DEF Reclaim, shared, access, Kept
<1>2. /\ kind' \in [Pages -> {"none", "checkpoint", "own"}]
      /\ \A q \in Pages : kind'[q] # "none" => kind'[q] = kind[q]
      /\ \A q \in Pages : q # p => kind'[q] = kind[q]
      /\ \A q \in Pages : kind[q] = "none" => kind'[q] = "none"
  BY <1>1 DEF IInv, TypeOK
<1>3. content' \in [Locs -> 0 .. MaxTs \cup {Own}]
  BY <1>1, WorkingSetAssumption DEF IInv, TypeOK, Mapped
<1>4. TypeOK'
  BY <1>1, <1>2, <1>3 DEF IInv, TypeOK
<1>5. \A l \in own' : kind'[l[1]] = "own"
  BY <1>1, <1>2, WorkingSetAssumption DEF IInv, Related, TypeOK, OnPage
<1>6. Related'
  BY <1>1, <1>2, <1>5 DEF IInv, Related
<1>7. Words'
  BY <1>1, <1>2, WordsUnmapped
<1> QED  BY <1>4, <1>6, <1>7 DEF IInv

\* The invariant after the start of a store.
LEMMA BeginStoreInv == ASSUME IInv, NEW l \in Locs, BeginStore(l) PROVE IInv'
<1>1. store' = l /\ UNCHANGED <<log, latest, beyond, ts, cp, kind, content, own, dirty, to_cow, ptl, phase, commit>>
  BY DEF BeginStore, shared
<1>2. TypeOK' /\ Related'
  BY <1>1 DEF IInv, TypeOK, Related
<1> QED  BY <1>1, <1>2, WordsSame DEF IInv

\* The invariant after page_mkwrite.
LEMMA MkwriteInv == ASSUME IInv, Mkwrite PROVE IInv'
<1>1. /\ phase = "run" /\ ts # InvalidTs /\ store # <<>> /\ kind[store[1]] = "checkpoint"
      /\ UNCHANGED <<log, latest, beyond, ts, cp, own, dirty, store, ptl, commit>>
  BY DEF Mkwrite, InTxn, shared
<1>2. store \in Locs /\ store[1] \in Pages
  BY <1>1, WorkingSetAssumption DEF IInv, TypeOK
<1>3. commit = InvalidTs
  BY <1>1 DEF IInv, Related
<1>4. CASE phase' = "bus" /\ UNCHANGED <<kind, content, to_cow>>
  <2>1. TypeOK' /\ Related'
    BY <1>1, <1>3, <1>4 DEF IInv, TypeOK, Related
  <2> QED  BY <1>1, <1>4, <2>1, WordsSame DEF IInv
<1>5. CASE /\ to_cow' = CheckpointPage(store[1])
           /\ kind' = [kind EXCEPT ![store[1]] = "none"]
           /\ content' = Mapped(content)
           /\ UNCHANGED phase
  <2>1. /\ kind' \in [Pages -> {"none", "checkpoint", "own"}]
        /\ \A q \in Pages : kind'[q] # "none" => kind'[q] = kind[q]
        /\ \A q \in Pages : kind[q] = "none" => kind'[q] = "none"
        /\ \A q \in Pages : kind[q] = "own" => kind'[q] = "own"
    BY <1>1, <1>2, <1>5 DEF IInv, TypeOK
  <2>2. content' \in [Locs -> 0 .. MaxTs \cup {Own}]
    BY <1>5, WorkingSetAssumption DEF IInv, TypeOK, Mapped
  <2>3. to_cow' \in {NoPage, ZeroPage} \cup (Pages \X (1 .. MaxTs))
    <3> DEFINE K == {k \in 1 .. cp : store[1] \in Modified(k, k, InvalidTs)}
    <3>1. cp \in Nat /\ cp <= MaxTs
      BY <1>1, WorkingSetAssumption DEF IInv, TypeOK, Related
    <3>2. K \in SUBSET Nat /\ \A k \in K : k <= cp
      BY <3>1
    <3>3. K # {} => Max(K) \in K
      BY <3>1, <3>2, HasMax
    <3>4. K # {} => Max(K) \in 1 .. MaxTs
      BY <3>1, <3>3, WorkingSetAssumption
    <3>5. to_cow' = IF K = {} THEN ZeroPage ELSE <<store[1], Max(K)>>
      BY <1>5 DEF CheckpointPage
    <3> HIDE DEF K
    <3> QED  BY <1>2, <3>4, <3>5
  <2>4. TypeOK'
    BY <1>1, <1>5, <2>1, <2>2, <2>3 DEF IInv, TypeOK
  <2>5. Related'
    BY <1>1, <1>5, <2>1, WorkingSetAssumption DEF IInv, TypeOK, Related
  <2>6. Words'
    BY <1>1, <1>5, <2>1, WordsUnmapped
  <2> QED  BY <2>4, <2>5, <2>6 DEF IInv
<1> QED  BY <1>4, <1>5 DEF Mkwrite

\* The invariant after a store.
LEMMA StoreInv == ASSUME IInv, NEW l \in Locs, Store(l) PROVE IInv'
<1>1. /\ phase = "run" /\ ts # InvalidTs /\ kind[l[1]] = "own"
      /\ content' = [content EXCEPT ![l] = Own] /\ own' = own \cup {l}
      /\ dirty' = dirty \cup {l[1]} /\ store' \in {store, <<>>}
      /\ UNCHANGED <<log, latest, beyond, ts, cp, kind, to_cow, ptl, phase, commit>>
  BY DEF Store, InTxn, shared
<1>2. dirty' \subseteq OnPage(own')
  BY <1>1 DEF IInv, TypeOK, OnPage
<1>3. content' \in [Locs -> 0 .. MaxTs \cup {Own}] /\ content'[l] = Own /\ \A k \in Locs : k # l => content'[k] = content[k]
  BY <1>1 DEF IInv, TypeOK
<1>4. TypeOK'
  BY <1>1, <1>2, <1>3 DEF IInv, TypeOK
<1>5. Related'
  BY <1>1 DEF IInv, Related
<1>6. Words'
  <2> SUFFICES ASSUME NEW k \in Locs, kind'[k[1]] # "none"
               PROVE  Holds(k)'
    BY DEF Words
  <2>1. CASE k = l
    BY <1>1, <1>3, <2>1 DEF Holds
  <2>2. CASE k # l
    BY <1>1, <1>3, <2>2 DEF IInv, Words, Holds, IsLast, Wrote
  <2> QED  BY <2>1, <2>2
<1> QED  BY <1>4, <1>5, <1>6 DEF IInv

\* The pages of the write set are mapped, so that their locks are given back, and all
\* of its writes have an inode.
LEMMA WritesTagged == ASSUME IInv PROVE Tagged = {own} /\ ~KeepsLock(own)
<1>1. Tagged = {own}
  BY DEF IInv, Related, Tagged
<1>2. ~KeepsLock(own)
  BY DEF IInv, Related, KeepsLock, OnPage
<1> QED  BY <1>1, <1>2

\* The invariant after a commit.
LEMMA CommitInv == ASSUME IInv, Commit PROVE IInv'
<1> DEFINE conflict == \E l \in own : Writers(l, ts + 1, Len(log)) # {}
           next == Len(log) + 1
           e == [writes |-> own, aborted |-> conflict]
<1>1. /\ log' = Append(log, e) /\ commit' = next
      /\ kind' = IF conflict THEN Invalidated(own) ELSE kind
      /\ content' = Mapped([l \in Locs |-> IF content[l] = Own THEN next ELSE content[l]])
      /\ dirty' = dirty \ OnPage(own) /\ ptl' = FALSE /\ own' = {} /\ phase' = "checkout"
  BY WritesTagged DEF Commit, KeepsLock
<1>2. /\ phase = "run" /\ ts # InvalidTs /\ Len(log) < MaxTs
      /\ UNCHANGED <<latest, beyond, ts, cp, store, to_cow>>
  BY DEF Commit, AtEase
<1>3. e \in Entry
  BY DEF IInv, TypeOK, Entry
<1>4. /\ log' \in Seq(Entry) /\ Len(log') = next /\ next <= MaxTs /\ log'[next] = e
      /\ \A k \in 1 .. Len(log) : log'[k] = log[k]
  BY <1>1, <1>2, <1>3, Appended
<1>5. ts \in Nat /\ ts <= Len(log) /\ Len(log) \in Nat
  BY <1>2, WorkingSetAssumption DEF IInv, TypeOK, Related
<1>6. commit = InvalidTs
  BY <1>2 DEF IInv, Related
<1>7. /\ kind' \in [Pages -> {"none", "checkpoint", "own"}]
      /\ \A p \in Pages : kind'[p] # "none" => kind'[p] = kind[p] /\ (conflict => p \notin OnPage(own))
  BY <1>1 DEF IInv, TypeOK, Invalidated
<1>8. \A l \in Locs : kind'[l[1]] # "none" =>
        content'[l] = IF content[l] = Own THEN next ELSE content[l]
  BY <1>1 DEF Mapped
<1>9. TypeOK'
  <2>1. next \in 1 .. MaxTs /\ 0 \in 0 .. MaxTs /\ next \in 0 .. MaxTs
    BY <1>4, <1>5, WorkingSetAssumption
  <2>2. content' \in [Locs -> 0 .. MaxTs \cup {Own}]
    BY <1>1, <2>1 DEF IInv, TypeOK, Mapped
  <2>3. latest' \in 0 .. Len(log')
    BY <1>2, <1>4, <1>5 DEF IInv, TypeOK
  <2>4. dirty' = {}
    BY <1>1 DEF IInv, TypeOK
  <2> QED  BY <1>1, <1>2, <1>4, <1>7, <2>1, <2>2, <2>3, <2>4 DEF IInv, TypeOK, OnPage
<1>10. Related'
  <2>1. beyond' = {} /\ ptl' = FALSE /\ Len(log') <= MaxTs
    BY <1>1, <1>2, <1>4 DEF IInv, Related
  <2>2. ts' <= Len(log') /\ ts' # InvalidTs /\ ts' < commit' /\ commit' <= Len(log')
    BY <1>1, <1>2, <1>4, <1>5
  <2>3. cp' # InvalidTs => cp' <= Len(log')
    BY <1>2, <1>4, <1>5, WorkingSetAssumption DEF IInv, TypeOK, Related
  <2> QED  BY <1>1, <2>1, <2>2, <2>3 DEF Related
<1>11. Words'
  <2> SUFFICES ASSUME NEW l \in Locs, kind'[l[1]] # "none"
               PROVE  Holds(l)'
    BY DEF Words
  <2>1. l[1] \in Pages /\ kind'[l[1]] = kind[l[1]] /\ Holds(l)
    BY <1>7, WorkingSetAssumption DEF IInv, Words
  <2>2. commit' # InvalidTs /\ commit' = next /\ l \notin own' /\ ts' = ts
    BY <1>1, <1>2, <1>5, WorkingSetAssumption
  <2>3. CASE l \in own
    <3>1. ~conflict
      BY <1>7, <2>1, <2>3 DEF OnPage
    <3>2. Wrote(log', l, next)
      BY <1>4, <2>3, <3>1 DEF Wrote
    <3>3. content'[l] = next
      BY <1>8, <2>1, <2>3 DEF Holds
    <3>4. kind'[l[1]] = "own"
      BY <2>1, <2>3 DEF IInv, Related
    <3>5. \A k \in (ts + 1) .. (next - 1) : ~Wrote(log', l, k)
      <4> TAKE k \in (ts + 1) .. (next - 1)
      <4>1. k \in (ts + 1) .. Len(log) /\ k \in 1 .. Len(log)
        BY <1>5
      <4>2. k \notin Writers(l, ts + 1, Len(log))
        BY <2>3, <3>1
      <4> QED  BY <1>4, <4>1, <4>2 DEF Writers, Wrote
    <3> HIDE DEF next
    <3> QED  BY <2>2, <3>2, <3>3, <3>4, <3>5 DEF Holds
  <2>4. CASE l \notin own
    <3>1. ~Wrote(log', l, next)
      BY <1>4, <2>4 DEF Wrote
    <3>2. IsLast(log, l, ts, content[l])
      BY <1>6, <2>1, <2>4 DEF Holds
    <3>3. content'[l] = content[l]
      BY <1>5, <1>8, <3>2, WorkingSetAssumption DEF IsLast
    <3>4. \A k \in 1 .. ts : log'[k] = log[k]
      BY <1>4, <1>5
    <3>5. IsLast(log', l, ts, content[l])
      BY <1>5, <3>2, <3>4, LastStays
    <3> QED  BY <2>2, <3>1, <3>3, <3>5 DEF Holds
  <2> QED  BY <2>3, <2>4
<1> QED  BY <1>9, <1>10, <1>11 DEF IInv

\* The invariant after a commit that fails.
LEMMA CommitFailsInv == ASSUME IInv, CommitFails PROVE IInv'
<1>1. /\ dirty' = dirty \ OnPage(own) /\ ptl' = FALSE
      /\ UNCHANGED <<log, latest, beyond, ts, cp, kind, content, own, store, to_cow, phase, commit>>
  BY WritesTagged DEF CommitFails, KeepsLock, shared
<1>2. TypeOK' /\ Related'
  BY <1>1 DEF IInv, TypeOK, Related
<1> QED  BY <1>1, <1>2, WordsSame DEF IInv

\* The invariant after an abort.
LEMMA AbortInv == ASSUME IInv, Abort PROVE IInv'
<1>1. /\ kind' = Invalidated(own) /\ content' = Mapped(content)
      /\ dirty' = dirty \ OnPage(own) /\ ptl' = FALSE /\ own' = {} /\ phase' = "checkout"
  BY WritesTagged DEF Abort, KeepsLock
<1>2. /\ phase = "run" /\ ts # InvalidTs
      /\ UNCHANGED <<log, latest, beyond, ts, cp, store, to_cow, commit>>
  BY DEF Abort, AtEase, shared
<1>3. /\ kind' \in [Pages -> {"none", "checkpoint", "own"}]
      /\ \A p \in Pages : kind'[p] # "none" => kind'[p] = kind[p]
      /\ \A p \in OnPage(own) : p \in Pages => kind'[p] = "none"
  BY <1>1 DEF IInv, TypeOK, Invalidated
<1>4. content' \in [Locs -> 0 .. MaxTs \cup {Own}]
  BY <1>1, WorkingSetAssumption DEF IInv, TypeOK, Mapped
<1>5. dirty' = {}
  BY <1>1 DEF IInv, TypeOK
<1>6. TypeOK'
  BY <1>1, <1>2, <1>3, <1>4, <1>5 DEF IInv, TypeOK
<1>7. Related'
  BY <1>1, <1>2 DEF IInv, Related
<1>8. \A l \in own \ own' : kind'[l[1]] = "none"
  BY <1>3, WorkingSetAssumption DEF IInv, TypeOK, OnPage
<1>9. Words'
  BY <1>1, <1>2, <1>3, <1>8, WordsUnmapped
<1> QED  BY <1>6, <1>7, <1>9 DEF IInv

\* The invariant after a commit with nothing written.
LEMMA OnlyUpdateInv == ASSUME IInv, OnlyUpdate PROVE IInv'
<1>1. /\ phase = "run" /\ own = {} /\ phase' = "checkout"
      /\ UNCHANGED <<log, latest, beyond, ts, cp, kind, content, own, dirty, store, to_cow, ptl, commit>>
  BY DEF OnlyUpdate, AtEase, shared, access
<1>2. TypeOK' /\ Related'
  BY <1>1 DEF IInv, TypeOK, Related
<1> QED  BY <1>1, <1>2, WordsSame DEF IInv

\* The invariant after the checkout.
LEMMA CheckoutInv == ASSUME IInv, Checkout PROVE IInv'
<1>1. /\ phase = "checkout" /\ cp' = latest /\ phase' = "update"
      /\ UNCHANGED <<log, latest, beyond, ts, kind, content, own, dirty, store, to_cow, ptl, commit>>
  BY DEF Checkout, shared, access
<1>2. latest \in Nat /\ latest <= Len(log) /\ latest \in 0 .. MaxTs /\ latest # InvalidTs
  BY WorkingSetAssumption DEF IInv, TypeOK, Related
<1>3. TypeOK' /\ Related'
  BY <1>1, <1>2 DEF IInv, TypeOK, Related
<1> QED  BY <1>1, <1>3, WordsSame DEF IInv

\* The invariant after the update.
LEMMA UpdateInv == ASSUME IInv, Update PROVE IInv'
<1> DEFINE next == Len(log)
<1>1. /\ phase = "update" /\ ts' = next /\ phase' = "run" /\ commit' = InvalidTs
      /\ UNCHANGED <<log, latest, beyond, cp, own, dirty, store, to_cow, ptl>>
  BY DEF Update, shared, access
<1>2. /\ own = {} /\ cp # InvalidTs /\ cp <= next /\ next <= MaxTs
      /\ next \in Nat /\ next # InvalidTs /\ next \in 0 .. MaxTs
  BY <1>1, WorkingSetAssumption DEF IInv, TypeOK, Related
<1>3. CASE ts = InvalidTs
  <2>1. UNCHANGED <<kind, content>> /\ \A p \in Pages : kind[p] = "none"
    BY <1>3 DEF IInv, Related, Update
  <2>2. TypeOK'
    BY <1>1, <1>2, <2>1 DEF IInv, TypeOK
  <2>3. Related'
    BY <1>1, <1>2, <2>1 DEF IInv, Related
  <2>4. Words'
    BY <2>1, WorkingSetAssumption DEF Words
  <2> QED  BY <2>2, <2>3, <2>4 DEF IInv
<1>4. CASE ts # InvalidTs
  <2>1. /\ kind' = Evicted(next)
        /\ content' = Mapped([l \in Locs |->
             IF kind[l[1]] = "own" THEN Apply(content[l], l, ts + 1, next, commit)
             ELSE content[l]])
    BY <1>4 DEF Update
  <2>2. ts \in Nat /\ ts <= next
    BY <1>4, WorkingSetAssumption DEF IInv, TypeOK, Related
  <2>3. /\ kind' \in [Pages -> {"none", "checkpoint", "own"}]
        /\ \A p \in Pages : kind'[p] # "none" =>
             /\ kind'[p] = kind[p]
             /\ kind[p] = "checkpoint" => p \notin Modified(ts + 1, next, commit)
    BY <2>1 DEF IInv, TypeOK, Evicted
  <2>4. ASSUME NEW l \in Locs, kind'[l[1]] # "none"
        PROVE  IsLast(log, l, next, content'[l])
    <3>1. l[1] \in Pages /\ kind[l[1]] # "none" /\ kind[l[1]] \in {"none", "checkpoint", "own"}
      BY <2>3, <2>4, WorkingSetAssumption DEF IInv, TypeOK
    <3>2. Holds(l) /\ l \notin own
      BY <1>2, <3>1 DEF IInv, Words
    <3>3. content'[l] = IF kind[l[1]] = "own" THEN Apply(content[l], l, ts + 1, next, commit)
                        ELSE content[l]
      BY <2>1, <2>4 DEF Mapped
    <3>4. kind[l[1]] # "own" => content[l] = Apply(content[l], l, ts + 1, next, commit)
      <4> SUFFICES ASSUME kind[l[1]] # "own"
                   PROVE  Writers(l, ts + 1, next) \ {commit} = {}
        BY DEF Apply
      <4>1. l[1] \notin Modified(ts + 1, next, commit)
        BY <2>3, <2>4, <3>1
      <4> QED  BY <4>1 DEF Modified, OnPage
    <3>5. content'[l] = Apply(content[l], l, ts + 1, next, commit)
      BY <3>3, <3>4
    <3>6. CASE commit # InvalidTs /\ Wrote(log, l, commit)
      <4>1. /\ content[l] = commit
            /\ \A k \in (ts + 1) .. (commit - 1) : ~Wrote(log, l, k)
        BY <3>2, <3>6 DEF Holds
      <4>2. commit \in Nat /\ ts < commit /\ commit <= next
        BY <3>6, WorkingSetAssumption DEF IInv, TypeOK, Related
      <4>3. IsLast(log, l, commit, commit)
        BY <3>6, <4>2 DEF IsLast
      <4>4. commit \notin (commit + 1) .. next
        BY <4>2
      <4>5. IsLast(log, l, next, Apply(commit, l, commit + 1, next, commit))
        BY <1>2, <4>2, <4>3, <4>4, ApplyLast
      <4>6. Writers(l, ts + 1, next) \ {commit} = Writers(l, commit + 1, next) \ {commit}
        <5>1. \A k : k \in Writers(l, ts + 1, next) \ {commit}
                       => k \in Writers(l, commit + 1, next)
          <6> SUFFICES ASSUME NEW k \in Writers(l, ts + 1, next) \ {commit}
                       PROVE  k \in Writers(l, commit + 1, next)
            OBVIOUS
          <6>1. k \in (ts + 1) .. next /\ k # commit /\ Wrote(log, l, k)
            BY DEF Writers, Wrote
          <6>2. k \notin (ts + 1) .. (commit - 1)
            BY <4>1, <6>1
          <6>3. k \in (commit + 1) .. next
            BY <1>2, <2>2, <4>2, <6>1, <6>2
          <6> QED  BY <6>1, <6>3 DEF Writers, Wrote
        <5>2. Writers(l, commit + 1, next) \subseteq Writers(l, ts + 1, next)
          BY <1>2, <2>2, <4>2 DEF Writers
        <5> QED  BY <5>1, <5>2
      <4>7. Apply(commit, l, ts + 1, next, commit) = Apply(commit, l, commit + 1, next, commit)
        BY <4>6 DEF Apply
      <4> QED  BY <3>5, <4>1, <4>5, <4>7
    <3>7. CASE ~(commit # InvalidTs /\ Wrote(log, l, commit))
      <4>1. IsLast(log, l, ts, content[l])
        BY <3>2, <3>7 DEF Holds
      <4>2. commit \in (ts + 1) .. next => ~Wrote(log, l, commit)
        BY <1>2, <2>2, <3>7, WorkingSetAssumption
      <4>3. IsLast(log, l, next, Apply(content[l], l, ts + 1, next, commit))
        BY <1>2, <2>2, <4>1, <4>2, ApplyLast
      <4> QED  BY <3>5, <4>3
    <3> QED  BY <3>6, <3>7
  <2>5. content' \in [Locs -> 0 .. MaxTs \cup {Own}]
    <3>1. \A l \in Locs : content'[l] \in 0 .. MaxTs
      <4> TAKE l \in Locs
      <4>1. CASE kind'[l[1]] = "none"
        BY <2>1, <4>1, WorkingSetAssumption DEF Mapped
      <4>2. CASE kind'[l[1]] # "none"
        <5>1. content'[l] \in 0 .. next
          BY <2>4, <4>2 DEF IsLast
        <5> QED  BY <1>2, <5>1, WorkingSetAssumption
      <4> QED  BY <4>1, <4>2
    <3>2. content' = [l \in Locs |-> content'[l]]
      BY <2>1 DEF Mapped
    <3> QED  BY <3>1, <3>2
  <2>6. TypeOK'
    BY <1>1, <1>2, <2>3, <2>5 DEF IInv, TypeOK
  <2>7. Related'
    BY <1>1, <1>2 DEF IInv, Related
  <2>8. Words'
    BY <1>1, <1>2, <2>4 DEF Words, Holds
  <2> QED  BY <2>6, <2>7, <2>8 DEF IInv
<1> QED  BY <1>3, <1>4

\* The invariant after the end of a transaction.
LEMMA PauseInv == ASSUME IInv, Pause PROVE IInv'
<1>1. /\ phase = "run" /\ own = {} /\ kind' = [p \in Pages |-> "none"] /\ content' = Mapped(content)
      /\ ts' = InvalidTs /\ cp' = InvalidTs
      /\ UNCHANGED <<log, latest, beyond, own, dirty, store, to_cow, ptl, phase, commit>>
  BY DEF Pause, AtEase, shared, access
<1>2. content' \in [Locs -> 0 .. MaxTs \cup {Own}]
  BY <1>1, WorkingSetAssumption DEF IInv, TypeOK, Mapped
<1>3. kind' \in [Pages -> {"none", "checkpoint", "own"}] /\ \A p \in Pages : kind'[p] = "none"
  BY <1>1
<1>4. commit = InvalidTs
  BY <1>1 DEF IInv, Related
<1>5. TypeOK'
  BY <1>1, <1>2, <1>3 DEF IInv, TypeOK
<1>6. Related'
  BY <1>1, <1>3, <1>4 DEF IInv, Related
<1>7. Words'
  BY <1>3, WorkingSetAssumption DEF Words
<1> QED  BY <1>5, <1>6, <1>7 DEF IInv

\* The invariant after another thread's commit.
LEMMA OtherCommitsInv ==
  ASSUME IInv, Kept, NEW W \in SUBSET Locs, NEW aborted \in BOOLEAN, NEW cut \in SUBSET Pages,
         OtherCommits(W, aborted, cut)
  PROVE  IInv'
<1> DEFINE e == [writes |-> W, aborted |-> aborted]
<1>1. /\ log' = Append(log, e) /\ Len(log) < MaxTs /\ beyond' = beyond
      /\ UNCHANGED <<latest, ts, cp, kind, content, own, dirty, store, to_cow, ptl, phase, commit>>
  BY DEF OtherCommits, Kept, access
<1>2. e \in Entry
  BY DEF Entry
<1>3. /\ log' \in Seq(Entry) /\ Len(log') = Len(log) + 1 /\ Len(log') <= MaxTs
      /\ \A k \in 1 .. Len(log) : log'[k] = log[k]
  BY <1>1, <1>2, Appended
<1>4. Len(log) \in Nat
  BY DEF IInv, TypeOK
<1>5. TypeOK'
  <2>1. latest' \in 0 .. Len(log')
    BY <1>1, <1>3, <1>4 DEF IInv, TypeOK
  <2> QED  BY <1>1, <1>3, <2>1 DEF IInv, TypeOK
<1>6. Related'
  <2>1. /\ ts # InvalidTs => ts <= Len(log')
        /\ cp # InvalidTs => cp <= Len(log')
        /\ commit # InvalidTs => commit <= Len(log')
    BY <1>3, <1>4, WorkingSetAssumption DEF IInv, TypeOK, Related
  <2> QED  BY <1>1, <1>3, <2>1 DEF IInv, Related
<1>7. Words'
  <2> SUFFICES ASSUME NEW l \in Locs, kind'[l[1]] # "none"
               PROVE  Holds(l)'
    BY DEF Words
  <2>1. Holds(l)
    BY <1>1 DEF IInv, Words
  <2>2. ts \in Nat /\ ts <= Len(log)
    BY <1>1, WorkingSetAssumption DEF IInv, TypeOK, Related
  <2>3. CASE l \in own
    BY <1>1, <2>1, <2>3 DEF Holds
  <2>4. CASE l \notin own
    <3>1. IsLast(log, l, ts, content[l]) => IsLast(log', l, ts, content[l])
      <4>1. \A k \in 1 .. ts : log'[k] = log[k]
        BY <1>3, <1>4, <2>2
      <4> QED  BY <2>2, <4>1, LastStays
    <3>2. CASE commit = InvalidTs
      BY <1>1, <2>1, <2>4, <3>1, <3>2 DEF Holds
    <3>3. CASE commit # InvalidTs
      <4>1. commit \in 1 .. Len(log)
        BY <3>3, WorkingSetAssumption DEF IInv, TypeOK, Related
      <4>2. Wrote(log', l, commit) <=> Wrote(log, l, commit)
        BY <1>3, <4>1 DEF Wrote
      <4>3. \A k \in (ts + 1) .. (commit - 1) : Wrote(log', l, k) <=> Wrote(log, l, k)
        <5>1. \A k \in (ts + 1) .. (commit - 1) : k \in 1 .. Len(log)
          BY <1>4, <2>2, <4>1
        <5> QED  BY <1>3, <5>1 DEF Wrote
      <4> QED  BY <1>1, <2>1, <2>4, <3>1, <3>3, <4>2, <4>3 DEF Holds
    <3> QED  BY <3>2, <3>3
  <2> QED  BY <2>3, <2>4
<1> QED  BY <1>5, <1>6, <1>7 DEF IInv

\* The invariant after a new checkpoint.
LEMMA CheckpointPublishedInv == ASSUME IInv, CheckpointPublished PROVE IInv'
<1>1. /\ latest' \in (latest + 1) .. Len(log)
      /\ UNCHANGED <<log, beyond, ts, cp, kind, content, own, dirty, store, to_cow, ptl, phase, commit>>
  BY DEF CheckpointPublished, access
<1>2. latest' \in 0 .. Len(log)
  BY <1>1 DEF IInv, TypeOK
<1>3. TypeOK' /\ Related'
  BY <1>1, <1>2 DEF IInv, TypeOK, Related
<1> QED  BY <1>1, <1>3, WordsSame DEF IInv

\* Every step preserves the invariant.
LEMMA StepInv == ASSUME IInv, Kept, [Next]_vars PROVE IInv'
<1>1. CASE UNCHANGED vars
  <2>1. UNCHANGED <<log, latest, beyond, ts, cp, kind, content, own, dirty, store, to_cow, ptl, phase, commit>>
    BY <1>1 DEF vars, shared, access
  <2>2. TypeOK' /\ Related'
    BY <2>1 DEF IInv, TypeOK, Related
  <2> QED  BY <2>1, <2>2, WordsSame DEF IInv
<1>2. CASE \E p \in Pages : Fault(p) \/ Reclaim(p)
  BY <1>2, FaultInv, ReclaimInv
<1>3. CASE \E l \in Locs : BeginStore(l) \/ Store(l)
  BY <1>3, BeginStoreInv, StoreInv
<1>4. CASE \E W \in SUBSET Locs \ {{}}, cut \in SUBSET Pages : OtherCommits(W, FALSE, cut)
  BY <1>4, OtherCommitsInv
<1>5. CASE OtherCommits(Locs, TRUE, {})
  BY <1>5, OtherCommitsInv
<1> QED  BY <1>1, <1>2, <1>3, <1>4, <1>5, MkwriteInv, CommitInv, CommitFailsInv, AbortInv, OnlyUpdateInv,
            CheckoutInv, UpdateInv, PauseInv, CheckpointPublishedInv DEF Next

-----------------------------------------------------------------------------
(* Theorems *)

\* What a transaction reads is its snapshot, for any pages, words and number of commits,
\* with and without signal handlers: sivfs_fault, sivfs_update and the commit leave the
\* last committed writes in the pages that are mapped.
THEOREM SnapshotRead ==
  ASSUME Kept
  PROVE  Spec => []ReadsSnapshot
<1>1. Init => IInv
  BY InitInv
<1>2. IInv /\ [Next]_vars => IInv'
  BY StepInv
<1>3. IInv => ReadsSnapshot
  <2> SUFFICES ASSUME IInv, phase = "run", ts # InvalidTs
               PROVE  /\ cp # InvalidTs /\ cp <= ts
                      /\ \A l \in Locs : kind[l[1]] # "none" =>
                           content[l] = IF l \in own THEN Own ELSE InCheckpoint(l, ts)
    BY DEF ReadsSnapshot, IInv
  <2>1. cp # InvalidTs /\ cp <= ts /\ commit = InvalidTs
    BY DEF IInv, Related
  <2>2. ts \in Nat
    BY WorkingSetAssumption DEF IInv, TypeOK
  <2>3. ASSUME NEW l \in Locs, kind[l[1]] # "none"
        PROVE  content[l] = IF l \in own THEN Own ELSE InCheckpoint(l, ts)
    <3>1. Holds(l)
      BY <2>3 DEF IInv, Words
    <3>2. IsLast(log, l, ts, InCheckpoint(l, ts))
      BY <2>2, CheckpointLast, WorkingSetAssumption
    <3>3. l \notin own => IsLast(log, l, ts, content[l])
      BY <2>1, <3>1 DEF Holds
    <3>4. l \notin own => content[l] = InCheckpoint(l, ts)
      BY <2>2, <3>2, <3>3, LastUnique
    <3> QED  BY <3>1, <3>4 DEF Holds
  <2> QED  BY <2>1, <2>3
<1> QED  BY <1>1, <1>2, <1>3, PTL DEF Spec

\* sivfs_add_metadata_to_changes gives back every lock that it takes, also when a commit
\* that failed is tried again: the pages of the write set are mapped.
THEOREM LocksGivenBack ==
  ASSUME Kept
  PROVE  Spec => []LocksReleased
<1>1. Init => IInv
  BY InitInv
<1>2. IInv /\ [Next]_vars => IInv'
  BY StepInv
<1>3. IInv => LocksReleased
  BY DEF IInv, Related, LocksReleased
<1> QED  BY <1>1, <1>2, <1>3, PTL DEF Spec

\* A copy that is asked for is made before the write that asked for it is done.
CopyPending ==
  /\ phase # "bus"
  /\ to_cow # NoPage => store # <<>> /\ kind[store[1]] = "none"

\* A page that a store is about to copy stays one to copy until it is copied.
LEMMA CopyStep ==
  ASSUME IInv, CopyPending, Handlers = FALSE, [Next]_vars
  PROVE  CopyPending'
<1>1. store # <<>> => store[1] \in Pages
  BY WorkingSetAssumption DEF IInv, TypeOK
<1>2. AtEase => to_cow = NoPage
  BY DEF AtEase, CopyPending
<1>3. CASE UNCHANGED vars
  BY <1>3 DEF vars, access, CopyPending
<1>4. ASSUME NEW p \in Pages, Fault(p) PROVE CopyPending'
  BY <1>4 DEF Fault, InTxn, CopyPending
<1>5. ASSUME NEW p \in Pages, Reclaim(p) PROVE CopyPending'
  BY <1>1, <1>5 DEF Reclaim, access, CopyPending, IInv, TypeOK
<1>6. ASSUME NEW l \in Locs, BeginStore(l) PROVE CopyPending'
  BY <1>2, <1>6 DEF BeginStore, CopyPending
<1>7. ASSUME NEW l \in Locs, Store(l) PROVE CopyPending'
  BY <1>2, <1>7 DEF Store, CopyPending
<1>8. ASSUME Mkwrite PROVE CopyPending'
  BY <1>1, <1>8 DEF Mkwrite, CopyPending, IInv, TypeOK
<1>9. ASSUME Commit \/ CommitFails \/ Abort \/ OnlyUpdate \/ Pause PROVE CopyPending'
  BY <1>2, <1>9 DEF Commit, CommitFails, Abort, OnlyUpdate, Pause, access, AtEase, CopyPending
<1>10. ASSUME Checkout PROVE CopyPending'
  BY <1>10 DEF Checkout, access, CopyPending
<1>11. ASSUME Update PROVE CopyPending'
  BY <1>1, <1>11 DEF Update, access, CopyPending, Evicted
<1>12. ASSUME NEW W, NEW aborted, NEW cut, OtherCommits(W, aborted, cut) PROVE CopyPending'
  BY <1>12 DEF OtherCommits, access, CopyPending
<1>13. ASSUME CheckpointPublished PROVE CopyPending'
  BY <1>13 DEF CheckpointPublished, access, CopyPending
<1> QED
  BY <1>3, <1>4, <1>5, <1>6, <1>7, <1>8, <1>9, <1>10, <1>11, <1>12, <1>13 DEF Next

\* sivfs_mkwrite serves every write, unless a signal handler writes while the write of
\* the thread is restarted.
THEOREM EveryWriteServed ==
  ASSUME Kept, Handlers = FALSE
  PROVE  Spec => []WritesServed
<1>1. Init => IInv /\ CopyPending
  BY InitInv DEF Init, CopyPending
<1>2. IInv /\ CopyPending /\ [Next]_vars => (IInv /\ CopyPending)'
  BY StepInv, CopyStep
<1>3. CopyPending => WritesServed
  BY DEF CopyPending, WritesServed
<1> QED  BY <1>1, <1>2, <1>3, PTL DEF Spec
=============================================================================
