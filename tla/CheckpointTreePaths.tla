------------------------ MODULE CheckpointTreePaths ------------------------
(***************************************************************************)
(* What the operators of CheckpointTree do, for every shape of the tree:   *)
(* where the words of the tree are, which pages a tree consists of, and    *)
(* what sivfs_apply_change_checkpoint leaves behind, whether it succeeds   *)
(* or runs out of memory on the way (ApplyChangeIs, at the end).           *)
(*                                                                         *)
(* The recursive functions of the model have the values that their         *)
(* equations give because a solution of the equations exists, which is     *)
(* shown by induction from the root of the tree down to the leaves.        *)
(***************************************************************************)
EXTENDS CheckpointTree, TLAPS

\* Most leaves are logic, the others arithmetic.
USE ZenonT(5), SMTT(15)

-----------------------------------------------------------------------------
(* Induction *)

\* Every set of numbers that is not empty has a smallest, which is what induction rests
\* on.  CheckpointTreeProofs proves it, at its end, from the library's theorems; until then
\* it is an assumption of the lemmas that need it, because each proof step is the slower the
\* more theorems are in scope.
WellOrdered == \A T \in SUBSET Nat : T # {} => \E x \in T : \A y \in T : x <= y

\* Induction, about a set.
LEMMA Upward ==
  ASSUME WellOrdered, NEW S, 0 \in S, \A n \in Nat : n \in S => n + 1 \in S
  PROVE  Nat \subseteq S
<1> SUFFICES ASSUME Nat \ S # {} PROVE FALSE
  OBVIOUS
<1>1. PICK x \in Nat \ S : \A y \in Nat \ S : x <= y
  BY DEF WellOrdered
<1>2. x # 0 /\ x - 1 \in Nat /\ ~(x <= x - 1) /\ (x - 1) + 1 = x
  BY <1>1
<1>3. x - 1 \in S
  BY <1>1, <1>2
<1> QED BY <1>1, <1>2, <1>3

\* The tree has at least two levels below its root, and the file part is some of them.
LEMMA TopIs ==
  Top \in Nat /\ Top >= FoffsetLevels /\ Top >= 2 /\ Top \in Levels /\ 0 \in Levels
BY TreeAssumption DEF Top, Levels

\* Induction from the root down to the leaves.
LEMMA Downward ==
  ASSUME WellOrdered, NEW S, Top \in S, \A k \in 0..(Top - 1) : k + 1 \in S => k \in S
  PROVE  Levels \subseteq S
<1> DEFINE T == {n \in Nat : n <= Top => Top - n \in S}
<1>0. Top \in Nat
  BY TopIs
<1>1. 0 \in T
  <2>1. Top - 0 = Top
    BY <1>0
  <2> QED  BY <2>1
<1>2. ASSUME NEW n \in Nat, n \in T PROVE n + 1 \in T
  <2> SUFFICES ASSUME n + 1 <= Top PROVE Top - (n + 1) \in S
    BY <1>2
  <2>1. n <= Top /\ Top - (n + 1) \in 0..(Top - 1) /\ (Top - (n + 1)) + 1 = Top - n
    BY <1>0
  <2> QED  BY <1>2, <2>1
<1>3. Nat \subseteq T
  <2> HIDE DEF T
  <2> QED  BY <1>1, <1>2, Upward
<1>4. ASSUME NEW k \in Levels PROVE k \in S
  <2>1. Top - k \in Nat /\ Top - k <= Top /\ Top - (Top - k) = k
    BY <1>0 DEF Levels
  <2>2. Top - k \in T
    BY <1>3, <2>1
  <2> QED  BY <2>1, <2>2
<1> QED  BY <1>4

-----------------------------------------------------------------------------
(* Paths *)

Paths == [1..Top -> Offsets]

\* The page of level l that the slots of q lead to.
PageOn(h, root, q, l) ==
  LET at[k \in Levels] ==
        IF k = Top THEN root
        ELSE IF at[k + 1] = Null THEN Null ELSE h[at[k + 1]].slots[q[k + 1]]
  IN at[l]

\* The page below p, in slot i.
Child(h, p, i) == IF p = Null THEN Null ELSE h[p].slots[i]

\* A level that is not the root's has one above it.
LEMMA LevelBelow ==
  /\ \A k \in 0..(Top - 1) : k \in Levels /\ k # Top /\ k + 1 \in Levels /\ k + 1 \in 1..Top /\ k + 1 # k
  /\ \A k \in Levels : k # Top => k \in 0..(Top - 1)
BY TopIs DEF Levels

\* The recursion of the walk has a solution.
IsWalk(g, h, root, q) ==
  g = [k \in Levels |-> IF k = Top THEN root
                         ELSE IF g[k + 1] = Null THEN Null ELSE h[g[k + 1]].slots[q[k + 1]]]

\* So PageOn, which chooses a solution, is one.
LEMMA WalkExists ==
  ASSUME WellOrdered, NEW h, NEW root, NEW q
  PROVE  \E g : IsWalk(g, h, root, q)
<1> DEFINE Sol(g, m) == g = [k \in m..Top |->
             IF k = Top THEN root
             ELSE IF g[k + 1] = Null THEN Null ELSE h[g[k + 1]].slots[q[k + 1]]]
           S == {m \in Levels : \E g : Sol(g, m)}
<1>0. Top \in Nat
  BY TopIs
<1>1. Top \in S
  <2>1. Sol([k \in Top..Top |-> root], Top)
    <3>1. \A k \in Top..Top : k = Top
      BY <1>0
    <3> QED  BY <3>1
  <2>2. Top \in Levels
    BY TopIs
  <2> HIDE DEF Sol
  <2> QED  BY <2>1, <2>2
<1>2. ASSUME NEW m \in 0..(Top - 1), m + 1 \in S PROVE m \in S
  <2>1. PICK g : Sol(g, m + 1)
    BY <1>2
  <2> DEFINE n == [k \in m..Top |-> IF k = m THEN Child(h, g[m + 1], q[m + 1]) ELSE g[k]]
  <2>2. /\ m \in m..Top /\ m # Top /\ m + 1 \in m..Top /\ m + 1 # m
        /\ \A k \in m..Top : k # m => k \in (m + 1)..Top
        /\ \A k \in m..Top : k # Top => k + 1 \in m..Top /\ k + 1 # m
    BY <1>0
  <2>3. ASSUME NEW k \in m..Top
        PROVE  n[k] = IF k = Top THEN root
                      ELSE IF n[k + 1] = Null THEN Null ELSE h[n[k + 1]].slots[q[k + 1]]
    <3>1. k # Top => n[k + 1] = g[k + 1]
      BY <2>2
    <3>2. CASE k = m
      BY <2>2, <3>1, <3>2 DEF Child
    <3>3. CASE k # m
      <4>1. k \in (m + 1)..Top /\ n[k] = g[k]
        BY <2>2, <3>3
      <4>2. g[k] = IF k = Top THEN root
                   ELSE IF g[k + 1] = Null THEN Null ELSE h[g[k + 1]].slots[q[k + 1]]
        BY <2>1, <4>1
      <4> HIDE DEF n
      <4> QED  BY <3>1, <4>1, <4>2
    <3> QED  BY <3>2, <3>3
  <2>4. n = [k \in m..Top |-> IF k = Top THEN root
               ELSE IF n[k + 1] = Null THEN Null ELSE h[n[k + 1]].slots[q[k + 1]]]
    <3>1. n = [k \in m..Top |-> n[k]]
      OBVIOUS
    <3> HIDE DEF n
    <3> QED  BY <2>3, <3>1
  <2>5. m \in Levels
    BY LevelBelow
  <2> QED  BY <2>4, <2>5
<1>3. Levels \subseteq S
  <2> HIDE DEF S
  <2> QED  BY <1>1, <1>2, Downward
<1>4. 0 \in S
  BY <1>3, TopIs
<1> QED  BY <1>4 DEF Levels, IsWalk

\* A goes from the root to the leaves along q.
Walks(A, h, root, q) ==
  A[Top] = root /\ \A k \in 0..(Top - 1) : A[k] = Child(h, A[k + 1], q[k + 1])

\* The walk begins at the root.
LEMMA PageOnTop ==
  ASSUME WellOrdered, NEW h, NEW root, NEW q
  PROVE  PageOn(h, root, q, Top) = root
<1> DEFINE at == CHOOSE g : IsWalk(g, h, root, q)
<1>1. IsWalk(at, h, root, q)
  BY WalkExists
<1>2. \A l \in Levels : PageOn(h, root, q, l) = at[l]
  BY DEF PageOn, IsWalk
<1> HIDE DEF at
<1>3. at[Top] = root
  BY <1>1, TopIs DEF IsWalk
<1> QED  BY <1>2, <1>3, TopIs

\* It goes from each page to its child.
LEMMA PageOnIs ==
  ASSUME WellOrdered, NEW h, NEW root, NEW q, NEW k \in 0..(Top - 1)
  PROVE  PageOn(h, root, q, k) = Child(h, PageOn(h, root, q, k + 1), q[k + 1])
<1> DEFINE at == CHOOSE g : IsWalk(g, h, root, q)
<1>1. IsWalk(at, h, root, q)
  BY WalkExists
<1>2. \A l \in Levels : PageOn(h, root, q, l) = at[l]
  BY DEF PageOn, IsWalk
<1> HIDE DEF at
<1>3. \A i \in Levels : at[i] = IF i = Top THEN root
             ELSE IF at[i + 1] = Null THEN Null ELSE h[at[i + 1]].slots[q[i + 1]]
  BY <1>1 DEF IsWalk
<1> QED  BY <1>2, <1>3, LevelBelow DEF Child

\* Nothing else does.
LEMMA OnlyWalk ==
  ASSUME WellOrdered, NEW h, NEW root, NEW q, NEW A, Walks(A, h, root, q)
  PROVE  \A k \in Levels : PageOn(h, root, q, k) = A[k]
<1> DEFINE S == {k \in Levels : PageOn(h, root, q, k) = A[k]}
<1>1. Top \in S
  BY TopIs, PageOnTop DEF Walks
<1>2. ASSUME NEW k \in 0..(Top - 1), k + 1 \in S PROVE k \in S
  <2>1. PageOn(h, root, q, k) = Child(h, PageOn(h, root, q, k + 1), q[k + 1])
    BY PageOnIs
  <2>2. A[k] = Child(h, A[k + 1], q[k + 1])
    BY DEF Walks
  <2> QED  BY <1>2, <2>1, <2>2, LevelBelow
<1>3. Levels \subseteq S
  <2> HIDE DEF S
  <2> QED  BY <1>1, <1>2, Downward
<1> QED  BY <1>3

\* Two paths have the page of level l in common.
Agree(q, r, l) == \A k \in (l + 1)..Top : q[k] = r[k]

\* Agreement, one level at a time.
LEMMA AgreeIs ==
  ASSUME NEW q, NEW r
  PROVE  /\ Agree(q, r, Top)
         /\ \A k \in 0..(Top - 1) : Agree(q, r, k) <=> q[k + 1] = r[k + 1] /\ Agree(q, r, k + 1)
<1>1. \A k \in (Top + 1)..Top : FALSE
  BY TopIs
<1>2. ASSUME NEW k \in 0..(Top - 1)
      PROVE  Agree(q, r, k) <=> q[k + 1] = r[k + 1] /\ Agree(q, r, k + 1)
  <2>1. \A j : j \in (k + 1)..Top <=> j = k + 1 \/ j \in (k + 1 + 1)..Top
    BY TopIs
  <2> QED  BY <2>1 DEF Agree
<1> QED  BY <1>1, <1>2 DEF Agree

\* And then they do have it in common.
LEMMA Congruent ==
  ASSUME WellOrdered, NEW h, NEW root, NEW q, NEW r
  PROVE  \A k \in Levels : Agree(q, r, k) => PageOn(h, root, q, k) = PageOn(h, root, r, k)
<1> DEFINE S == {k \in Levels : Agree(q, r, k) => PageOn(h, root, q, k) = PageOn(h, root, r, k)}
<1>1. Top \in S
  BY TopIs, PageOnTop
<1>2. ASSUME NEW k \in 0..(Top - 1), k + 1 \in S PROVE k \in S
  <2>1. k \in Levels /\ PageOn(h, root, q, k) = Child(h, PageOn(h, root, q, k + 1), q[k + 1])
        /\ PageOn(h, root, r, k) = Child(h, PageOn(h, root, r, k + 1), r[k + 1])
    BY PageOnIs, LevelBelow
  <2> QED  BY <1>2, <2>1, AgreeIs
<1>3. Levels \subseteq S
  <2> HIDE DEF S
  <2> QED  BY <1>1, <1>2, Downward
<1> QED  BY <1>3

\* The offsets of a word.
Route(a) == [l \in 1..Top |-> Offset(a, l)]

\* The page the code reaches for a word is the one on the route of the word.
LEMMA PageAtIs ==
  ASSUME WellOrdered, NEW h, NEW root, NEW a
  PROVE  \A l \in Levels : PageAt(h, root, a, l) = PageOn(h, root, Route(a), l)
<1> DEFINE E(g) == g = [k \in Levels |->
             IF k = Top THEN root
             ELSE IF g[k + 1] = Null THEN Null ELSE h[g[k + 1]].slots[Offset(a, k + 1)]]
           at == CHOOSE g : E(g)
           q == Route(a)
<1>0. \A k \in 0..(Top - 1) : q[k + 1] = Offset(a, k + 1)
  BY LevelBelow DEF Route
<1> HIDE DEF q
<1>1. \E g : E(g)
  <2>1. PICK g : IsWalk(g, h, root, q)
    BY WalkExists
  <2>2. \A k \in Levels : k # Top => q[k + 1] = Offset(a, k + 1)
    BY <1>0, LevelBelow
  <2>3. g = [k \in Levels |-> g[k]]
    BY <2>1 DEF IsWalk
  <2>4. ASSUME NEW k \in Levels
        PROVE  g[k] = IF k = Top THEN root
             ELSE IF g[k + 1] = Null THEN Null ELSE h[g[k + 1]].slots[Offset(a, k + 1)]
    BY <2>1, <2>2 DEF IsWalk
  <2>5. E(g)
    BY <2>3, <2>4
  <2> QED  BY <2>5
<1>2. E(at)
  BY <1>1
<1>3. \A l \in Levels : PageAt(h, root, a, l) = at[l]
  BY DEF PageAt
<1> HIDE DEF at
<1>4. Walks(at, h, root, q)
  <2>1. at[Top] = root
    BY <1>2, TopIs
  <2>2. ASSUME NEW k \in 0..(Top - 1) PROVE at[k] = Child(h, at[k + 1], q[k + 1])
    <3>1. q[k + 1] = Offset(a, k + 1)
      BY <1>0
    <3> QED  BY <1>2, <3>1, LevelBelow DEF Child
  <2> QED  BY <2>1, <2>2 DEF Walks
<1>5. \A k \in Levels : PageOn(h, root, q, k) = at[k]
  BY <1>4, OnlyWalk
<1> QED  BY <1>3, <1>5 DEF q

-----------------------------------------------------------------------------
(* The digits of a word *)

IsPower(g) == g = [k \in 0..Top |-> IF k = 0 THEN 1 ELSE Fan * g[k - 1]]

\* sivfs_checkpoint_iter_init lets through only words of the tree, every word of the tree has a path
\* from the root, and different words are different places.
LEMMA Places ==
  ASSUME WellOrdered
  PROVE  /\ \A a \in Addrs : InRange(a) => a \in Words
         /\ \A a \in Words : Route(a) \in Paths /\ a.word \in Offsets
         /\ \A a, b \in Words : Agree(Route(a), Route(b), 0) /\ a.word = b.word => a = b
<1>1. ASSUME NEW x \in Nat, NEW m \in Nat \ {0}, NEW q \in Nat, NEW r \in 0..(m - 1), x = m * q + r
      PROVE  x \div m = q /\ x % m = r
  <2> USE <1>1
  <2>1. x \div m = q
    OBVIOUS
  <2>2. x % m = r
    OBVIOUS
  <2> QED  BY <2>1, <2>2
\* Division with remainder.
<1>2. ASSUME NEW x \in Nat, NEW m \in Nat \ {0}
      PROVE  \E q \in Nat, r \in 0..(m - 1) : x = m * q + r
  <2> USE <1>2
  <2> DEFINE S == {n \in Nat : \E q \in Nat, r \in 0..(m - 1) : n = m * q + r}
  <2>1. 0 \in S
    <3>1. 0 = m * 0 + 0 /\ 0 \in 0..(m - 1)
      OBVIOUS
    <3> QED  BY <3>1
  <2>2. ASSUME NEW n \in Nat, n \in S PROVE n + 1 \in S
    <3>1. PICK q \in Nat, r \in 0..(m - 1) : n = m * q + r
      BY <2>2
    <3>2. m * q \in Nat /\ m * (q + 1) = m * q + m
      OBVIOUS
    <3>3. CASE r = m - 1
      <4>1. n + 1 = m * (q + 1) + 0 /\ q + 1 \in Nat /\ 0 \in 0..(m - 1) /\ n + 1 \in Nat
        BY <3>1, <3>2, <3>3
      <4>2. \E k \in Nat, z \in 0..(m - 1) : n + 1 = m * k + z
        BY <4>1, Zenon
      <4> QED  BY <4>1, <4>2
    <3>4. CASE r # m - 1
      <4>1. n + 1 = m * q + (r + 1) /\ r + 1 \in 0..(m - 1)
        BY <3>1, <3>2, <3>4
      <4> QED  BY <4>1
    <3> QED  BY <3>3, <3>4
  <2>3. Nat \subseteq S
    <3> HIDE DEF S
    <3> QED  BY <2>1, <2>2, Upward
  <2> QED  BY <2>3
<1>3. ASSUME NEW x \in Nat, NEW m \in Nat \ {0}
      PROVE  x \div m \in Nat /\ x % m \in 0..(m - 1) /\ x = m * (x \div m) + (x % m)
  <2> USE <1>3
  <2>1. PICK q \in Nat, r \in 0..(m - 1) : x = m * q + r
    BY <1>2
  <2> DEFINE d == x \div m
             s == x % m
  <2>2. d = q /\ s = r
    BY <2>1, <1>1
  <2> HIDE DEF d, s
  <2>3. d \in Nat /\ s \in 0..(m - 1) /\ x = m * d + s
    BY <2>1, <2>2
  <2> QED  BY <2>3 DEF d, s
\* A number whose quotient is below f is below f times the divisor, and conversely.
<1>4. ASSUME NEW x \in Nat, NEW m \in Nat \ {0}, NEW f \in Nat, x \div m < f
      PROVE  x < f * m
  <2> USE <1>4
  <2> DEFINE d == x \div m
             r == x % m
  <2>1. d \in Nat /\ r \in 0..(m - 1) /\ x = m * d + r
    BY <1>3
  <2>2. d < f
    OBVIOUS
  <2> HIDE DEF d, r
  <2>3. m * (d + 1) <= m * f
    <3>1. d + 1 <= f /\ d + 1 \in Nat
      BY <2>1, <2>2
    <3>2. \A a, b, p \in Nat : a <= b => p * a <= p * b
      OBVIOUS
    <3> QED  BY <3>1, <3>2
  <2>4. m * (d + 1) = m * d + m /\ m * f = f * m /\ m * d \in Nat /\ m * f \in Nat
    BY <2>1
  <2> QED  BY <2>1, <2>3, <2>4
<1>5. ASSUME NEW m \in Nat \ {0}, NEW x \in 0..(m - 1)
      PROVE  x \div m = 0
  <2> USE <1>5
  <2>1. x = m * 0 + x
    OBVIOUS
  <2> QED  BY <2>1, <1>1
\* Two divisions are one.
<1>6. ASSUME NEW x \in Nat, NEW p \in Nat \ {0}, NEW f \in Nat \ {0}
      PROVE  x \div (f * p) = (x \div p) \div f
  <2> USE <1>6
  <2> DEFINE d == x \div p
             r == x % p
             e == d \div f
             s == d % f
  <2>1. d \in Nat /\ r \in 0..(p - 1) /\ x = p * d + r
    BY <1>3
  <2>2. e \in Nat /\ s \in 0..(f - 1) /\ d = f * e + s
    <3> HIDE DEF d
    <3> QED  BY <2>1, <1>3
  <2> HIDE DEF d, r, e, s
  <2>3. p * d = (f * p) * e + p * s
    <3>1. p * (f * e + s) = p * (f * e) + p * s
      BY <2>2
    <3>2. p * (f * e) = (f * p) * e
      BY <2>2
    <3> QED  BY <2>2, <3>1, <3>2
  <2>4. p * s + p <= f * p
    <3>1. s + 1 <= f /\ s + 1 \in Nat
      BY <2>2
    <3>2. \A a, b, c \in Nat : a <= b => c * a <= c * b
      OBVIOUS
    <3>3. p * (s + 1) <= p * f
      BY <3>1, <3>2
    <3>4. p * (s + 1) = p * s + p /\ p * f = f * p
      BY <2>2
    <3> QED  BY <3>3, <3>4
  <2>5. f * p \in Nat \ {0} /\ p * s \in Nat /\ (f * p) * e \in Nat
    <3>1. f * p \in Nat /\ p * s \in Nat
      BY <2>2
    <3>2. f * p # 0
      BY <2>2, <2>4, <3>1
    <3> QED  BY <2>2, <3>1, <3>2
  <2> DEFINE m == f * p
             t == p * s + r
  <2>6. m \in Nat \ {0} /\ t \in 0..(m - 1) /\ x = m * e + t
    <3> DEFINE u == p * s
               v == m * e
    <3>1. u \in Nat /\ u + p <= m /\ m \in Nat \ {0} /\ v \in Nat /\ x = v + u + r /\ t = u + r
      BY <2>1, <2>3, <2>4, <2>5
    <3> HIDE DEF m, t, u, v
    <3>2. t \in 0..(m - 1) /\ x = v + t
      BY <2>1, <3>1
    <3> QED  BY <3>1, <3>2 DEF v
  <2> HIDE DEF m, t
  <2>7. x \div m = e
    BY <2>2, <2>6, <1>1
  <2> QED  BY <2>7 DEF m, e, d
<1>7. \E g : IsPower(g)
  <2> DEFINE Sol(g, m) == g = [k \in 0..m |-> IF k = 0 THEN 1 ELSE Fan * g[k - 1]]
             S == {m \in Nat : \E g : Sol(g, m)}
  <2>1. 0 \in S
    <3>1. \A k \in 0..0 : k = 0
      OBVIOUS
    <3>2. Sol([k \in 0..0 |-> 1], 0)
      BY <3>1
    <3> HIDE DEF Sol
    <3> QED  BY <3>2
  <2>2. ASSUME NEW m \in Nat, m \in S PROVE m + 1 \in S
    <3>1. PICK g : Sol(g, m)
      BY <2>2
    <3> DEFINE n == [k \in 0..(m + 1) |-> IF k = m + 1 THEN Fan * g[m] ELSE g[k]]
    <3>2. /\ m + 1 \in Nat /\ m + 1 \in 0..(m + 1) /\ m + 1 # 0 /\ (m + 1) - 1 = m /\ m # m + 1 /\ m \in 0..(m + 1)
          /\ \A k \in 0..(m + 1) : k # m + 1 => k \in 0..m
          /\ \A k \in 0..m : k # 0 => k - 1 \in 0..(m + 1) /\ k - 1 # m + 1
      OBVIOUS
    <3>3. ASSUME NEW k \in 0..(m + 1) PROVE n[k] = IF k = 0 THEN 1 ELSE Fan * n[k - 1]
      <4>1. CASE k = m + 1
        <5>1. n[k] = Fan * g[m] /\ n[m] = g[m]
          BY <3>2, <4>1
        <5> HIDE DEF n
        <5> QED  BY <3>2, <4>1, <5>1
      <4>2. CASE k # m + 1
        <5>1. k \in 0..m /\ n[k] = g[k]
          BY <3>2, <4>2
        <5>2. k # 0 => n[k - 1] = g[k - 1]
          BY <3>2, <5>1
        <5>3. g[k] = IF k = 0 THEN 1 ELSE Fan * g[k - 1]
          BY <3>1, <5>1
        <5> HIDE DEF n
        <5> QED  BY <5>1, <5>2, <5>3
      <4> QED  BY <4>1, <4>2
    <3>4. n = [k \in 0..(m + 1) |-> IF k = 0 THEN 1 ELSE Fan * n[k - 1]]
      <4>1. n = [k \in 0..(m + 1) |-> n[k]]
        OBVIOUS
      <4> HIDE DEF n
      <4> QED  BY <3>3, <4>1
    <3> HIDE DEF n
    <3> QED  BY <3>2, <3>4
  <2>3. Nat \subseteq S
    <3> HIDE DEF S
    <3> QED  BY <2>1, <2>2, Upward
  <2>4. PICK g : Sol(g, Top)
    BY <2>3, TopIs
  <2>5. IsPower(g)
    BY <2>4 DEF IsPower
  <2> QED  BY <2>5
<1>8. /\ Power[0] = 1
      /\ \A k \in 0..(Top - 1) : Power[k + 1] = Fan * Power[k]
  <2>1. Power = CHOOSE g : IsPower(g)
    BY DEF Power, IsPower
  <2>2. IsPower(Power)
    BY <2>1, <1>7
  <2>3. \A k \in 0..Top : Power[k] = IF k = 0 THEN 1 ELSE Fan * Power[k - 1]
    BY <2>2 DEF IsPower
  <2>4. 0 \in 0..Top
    BY TopIs
  <2>5. ASSUME NEW k \in 0..(Top - 1) PROVE Power[k + 1] = Fan * Power[k]
    <3>1. k + 1 \in 0..Top /\ k + 1 # 0 /\ (k + 1) - 1 = k
      BY TopIs
    <3> QED  BY <2>3, <3>1
  <2> QED  BY <2>3, <2>4, <2>5
<1>9. \A k \in 0..Top : Power[k] \in Nat \ {0}
  <2> DEFINE S == {m \in Nat : m \in 0..Top => Power[m] \in Nat \ {0}}
  <2>1. 0 \in S
    BY <1>8
  <2>2. ASSUME NEW m \in Nat, m \in S PROVE m + 1 \in S
    <3> SUFFICES ASSUME m + 1 \in 0..Top PROVE Power[m + 1] \in Nat \ {0}
      BY <2>2
    <3>1. m \in 0..Top /\ m \in 0..(Top - 1)
      BY TopIs
    <3>2. Power[m] \in Nat \ {0} /\ Power[m + 1] = Fan * Power[m]
      BY <2>2, <3>1, <1>8
    <3>3. Fan \in Nat \ {0}
      BY TreeAssumption
    <3> DEFINE p == Power[m]
    <3> HIDE DEF p
    <3>4. p \in Nat \ {0} => Fan * p \in Nat \ {0}
      BY <3>3
    <3> QED  BY <3>2, <3>4 DEF p
  <2>3. Nat \subseteq S
    <3> HIDE DEF S
    <3> QED  BY <2>1, <2>2, Upward
  <2> QED  BY <2>3
\* Numbers with the same digits are the same.
<1>10. ASSUME NEW n \in 0..Top, NEW x \in 0..(Power[n] - 1), NEW y \in 0..(Power[n] - 1),
              \A j \in 0..(n - 1) : (x \div Power[j]) % Fan = (y \div Power[j]) % Fan
       PROVE  x = y
  <2> USE <1>10
  <2> DEFINE Same(j) == x \div Power[j] = y \div Power[j]
             S == {m \in Nat : m <= n => Same(n - m)}
  <2>0. x \in Nat /\ y \in Nat /\ Fan \in Nat \ {0} /\ Power[n] \in Nat \ {0}
    BY <1>9, TreeAssumption
  <2>1. 0 \in S
    <3>1. x \div Power[n] = 0 /\ y \div Power[n] = 0
      BY <2>0, <1>5
    <3>2. n - 0 = n
      OBVIOUS
    <3> QED  BY <3>1, <3>2
  <2>2. ASSUME NEW m \in Nat, m \in S PROVE m + 1 \in S
    <3> SUFFICES ASSUME m + 1 <= n PROVE Same(n - (m + 1))
      BY <2>2
    <3> DEFINE j == n - (m + 1)
               p == Power[j]
    <3>1. /\ m <= n /\ n - m = j + 1 /\ j \in 0..(n - 1) /\ j \in 0..(Top - 1) /\ j \in 0..Top
      BY TopIs
    <3>2. Power[j + 1] = Fan * p /\ p \in Nat \ {0}
      BY <3>1, <1>8, <1>9
    <3>3. x \div (Fan * p) = y \div (Fan * p)
      BY <2>2, <3>1, <3>2
    <3>4. (x \div p) % Fan = (y \div p) % Fan
      BY <3>1
    <3> HIDE DEF p
    <3>5. x \div (Fan * p) = (x \div p) \div Fan /\ y \div (Fan * p) = (y \div p) \div Fan
      BY <2>0, <3>2, <1>6
    <3> DEFINE d == x \div p
               e == y \div p
    <3>6. d \in Nat /\ e \in Nat
      BY <2>0, <3>2, <1>3
    <3>7. d \div Fan = e \div Fan /\ d % Fan = e % Fan
      BY <3>3, <3>4, <3>5
    <3> HIDE DEF d, e
    <3>8. d = Fan * (d \div Fan) + (d % Fan) /\ e = Fan * (e \div Fan) + (e % Fan)
      BY <2>0, <3>6, <1>3
    <3>9. d = e
      BY <3>7, <3>8, Zenon
    <3> QED  BY <3>9 DEF d, e, p
  <2>3. Nat \subseteq S
    <3> HIDE DEF S
    <3> QED  BY <2>1, <2>2, Upward
  <2>4. Same(0)
    <3>1. n \in Nat /\ n <= n /\ n - n = 0
      OBVIOUS
    <3>2. n \in S
      BY <2>3, <3>1
    <3> QED  BY <3>1, <3>2
  <2>5. x \div 1 = y \div 1
    BY <2>4, <1>8
  <2>6. x = 1 * x + 0 /\ y = 1 * y + 0 /\ 0 \in 0..(1 - 1) /\ 1 \in Nat \ {0}
    OBVIOUS
  <2>7. x \div 1 = x /\ y \div 1 = y
    BY <2>0, <2>6, <1>1
  <2> QED  BY <2>5, <2>7
<1>11. /\ InoLevels \in 1..Top /\ InoLevels - 1 \in 0..(Top - 1) /\ (InoLevels - 1) + 1 = InoLevels
       /\ FoffsetLevels - 1 \in 0..Top /\ FoffsetLevels - 2 \in 0..(Top - 1)
       /\ (FoffsetLevels - 2) + 1 = FoffsetLevels - 1
       /\ Fan \in Nat \ {0} /\ Top \in Nat /\ FoffsetLevels \in Nat
  BY TreeAssumption DEF Top
\* The walk to any word is a path of the tree.
<1>12. ASSUME NEW a, a.ino \in Nat, a.pg \in Nat
       PROVE  Route(a) \in Paths
  <2> USE <1>12
  <2>1. ASSUME NEW l \in 1..Top PROVE Offset(a, l) \in Offsets
    <3>1. CASE l >= FoffsetLevels
      <4>1. l - FoffsetLevels \in 0..Top
        BY <3>1, <1>11
      <4> DEFINE p == Power[l - FoffsetLevels]
      <4>2. p \in Nat \ {0}
        BY <4>1, <1>9
      <4>3. Offset(a, l) = (a.ino \div p) % Fan
        BY <3>1 DEF Offset
      <4> HIDE DEF p
      <4>4. a.ino \div p \in Nat
        BY <4>2, <1>3
      <4>5. (a.ino \div p) % Fan \in 0..(Fan - 1)
        BY <4>4, <1>11, <1>3
      <4> QED  BY <4>3, <4>5 DEF Offsets
    <3>2. CASE ~(l >= FoffsetLevels)
      <4>1. l - 1 \in 0..Top
        BY <1>11
      <4> DEFINE p == Power[l - 1]
      <4>2. p \in Nat \ {0}
        BY <4>1, <1>9
      <4>3. Offset(a, l) = (a.pg \div p) % Fan
        BY <3>2 DEF Offset
      <4> HIDE DEF p
      <4>4. a.pg \div p \in Nat
        BY <4>2, <1>3
      <4>5. (a.pg \div p) % Fan \in 0..(Fan - 1)
        BY <4>4, <1>11, <1>3
      <4> QED  BY <4>3, <4>5 DEF Offsets
    <3> QED  BY <3>1, <3>2
  <2> QED  BY <2>1 DEF Route, Paths
<1>13. ASSUME NEW a \in Words
       PROVE  /\ a.ino \in 0..(Power[InoLevels] - 1) /\ a.pg \in 0..(Power[FoffsetLevels - 1] - 1) /\ a.word \in Offsets
              /\ a.ino \in Nat /\ a.pg \in Nat /\ Route(a) \in Paths
              /\ a = [ino |-> a.ino, pg |-> a.pg, word |-> a.word]
  <2> USE <1>13
  <2>1. /\ a.ino \in 0..(Power[InoLevels] - 1) /\ a.pg \in 0..(Power[FoffsetLevels - 1] - 1) /\ a.word \in Offsets
        /\ a = [ino |-> a.ino, pg |-> a.pg, word |-> a.word]
    BY DEF Words
  <2>2. a.ino \in Nat /\ a.pg \in Nat
    BY <2>1
  <2> QED  BY <2>1, <2>2, <1>12
\* sivfs_checkpoint_iter_init lets through the words of the tree.
<1>14. ASSUME NEW a \in Addrs, InRange(a)
       PROVE  a \in Words
  <2> USE <1>14
  <2>1. a.ino \in Nat /\ a.pg \in Nat /\ a.word \in Offsets /\ a = [ino |-> a.ino, pg |-> a.pg, word |-> a.word]
    BY TreeAssumption DEF Offsets
  <2> DEFINE p == Power[InoLevels - 1]
             q == Power[FoffsetLevels - 2]
  <2>2. p \in Nat \ {0} /\ q \in Nat \ {0} /\ Power[InoLevels] = Fan * p /\ Power[FoffsetLevels - 1] = Fan * q
    <3>1. InoLevels - 1 \in 0..Top /\ FoffsetLevels - 2 \in 0..Top
      BY <1>11
    <3>2. p \in Nat \ {0} /\ q \in Nat \ {0}
      BY <3>1, <1>9
    <3>3. Power[(InoLevels - 1) + 1] = Fan * p /\ Power[(FoffsetLevels - 2) + 1] = Fan * q
      BY <1>11, <1>8
    <3> QED  BY <3>2, <3>3, <1>11
  <2>3. a.ino \div p < Fan /\ a.pg \div q < Fan
    BY DEF InRange
  <2> HIDE DEF p, q
  <2>4. a.ino < Fan * p /\ a.pg < Fan * q
    BY <2>1, <2>2, <2>3, <1>11, <1>4
  <2>5. a.ino \in 0..(Power[InoLevels] - 1) /\ a.pg \in 0..(Power[FoffsetLevels - 1] - 1)
    <3>1. Fan * p \in Nat /\ Fan * q \in Nat
      BY <2>2, <1>11
    <3> QED  BY <2>1, <2>2, <2>4, <3>1
  <2> QED  BY <2>1, <2>5 DEF Words
\* Different words are different places of the tree.
<1>15. ASSUME NEW a \in Words, NEW b \in Words, Agree(Route(a), Route(b), 0), a.word = b.word
       PROVE  a = b
  <2> USE <1>15
  <2>0. /\ a.ino \in 0..(Power[InoLevels] - 1) /\ a.pg \in 0..(Power[FoffsetLevels - 1] - 1)
        /\ b.ino \in 0..(Power[InoLevels] - 1) /\ b.pg \in 0..(Power[FoffsetLevels - 1] - 1)
        /\ a = [ino |-> a.ino, pg |-> a.pg, word |-> a.word] /\ b = [ino |-> b.ino, pg |-> b.pg, word |-> b.word]
    BY <1>13
  <2>1. ASSUME NEW l \in 1..Top PROVE Offset(a, l) = Offset(b, l)
    <3>1. l \in (0 + 1)..Top
      OBVIOUS
    <3>2. Route(a)[l] = Route(b)[l]
      BY <3>1 DEF Agree
    <3> QED  BY <3>2 DEF Route
  <2>2. a.ino = b.ino
    <3>1. ASSUME NEW j \in 0..(InoLevels - 1)
          PROVE  (a.ino \div Power[j]) % Fan = (b.ino \div Power[j]) % Fan
      <4> DEFINE l == FoffsetLevels + j
      <4>1. l \in 1..Top /\ l >= FoffsetLevels /\ l - FoffsetLevels = j
        BY TreeAssumption DEF Top
      <4> HIDE DEF l
      <4>2. Offset(a, l) = (a.ino \div Power[j]) % Fan /\ Offset(b, l) = (b.ino \div Power[j]) % Fan
        BY <4>1 DEF Offset
      <4> QED  BY <2>1, <4>1, <4>2
    <3>2. InoLevels \in 0..Top
      BY <1>11
    <3> QED  BY <2>0, <3>1, <3>2, <1>10
  <2>3. a.pg = b.pg
    <3> DEFINE n == FoffsetLevels - 1
    <3>1. ASSUME NEW j \in 0..(n - 1)
          PROVE  (a.pg \div Power[j]) % Fan = (b.pg \div Power[j]) % Fan
      <4> DEFINE l == j + 1
      <4>1. l \in 1..Top /\ ~(l >= FoffsetLevels) /\ l - 1 = j
        BY TreeAssumption DEF Top
      <4> HIDE DEF l
      <4>2. Offset(a, l) = (a.pg \div Power[j]) % Fan /\ Offset(b, l) = (b.pg \div Power[j]) % Fan
        BY <4>1 DEF Offset
      <4> QED  BY <2>1, <4>1, <4>2
    <3>2. n \in 0..Top
      BY <1>11
    <3>3. a.pg \in 0..(Power[n] - 1) /\ b.pg \in 0..(Power[n] - 1)
      BY <2>0
    <3> HIDE DEF n
    <3> QED  BY <3>1, <3>2, <3>3, <1>10
  <2> QED  BY <2>0, <2>2, <2>3
<1> QED  BY <1>13, <1>14, <1>15

-----------------------------------------------------------------------------
(* The last write *)

LastIn(L, a, c) == Max({0} \cup {i \in 1..c : a \in L[i]})

\* LastIn is the newest of the versions up to c that wrote a, and 0 if none did.
LEMMA LastIs ==
  ASSUME WellOrdered
  PROVE  \A L, a :
         \A c \in Nat :
           LET m == LastIn(L, a, c) IN
           /\ m \in 0..c
           /\ m = 0 \/ a \in L[m]
           /\ \A i \in 1..c : a \in L[i] => i <= m
\* Every set of numbers up to c that is not empty has a largest.
<1>1. ASSUME NEW c \in Nat, NEW T \in SUBSET (0..c), T # {}
      PROVE  Max(T) \in T /\ \A y \in T : y <= Max(T)
  <2> USE <1>1
  <2> DEFINE U == {n \in Nat : c - n \in T}
  <2>1. U \in SUBSET Nat /\ U # {}
    <3>1. PICK t \in T : TRUE
      OBVIOUS
    <3>2. c - t \in Nat /\ c - (c - t) = t
      OBVIOUS
    <3>3. c - t \in U
      BY <3>2
    <3> QED  BY <3>3
  <2>2. PICK u \in U : \A y \in U : u <= y
    <3> HIDE DEF U
    <3> QED  BY <2>1 DEF WellOrdered
  <2>3. c - u \in T
    OBVIOUS
  <2>4. ASSUME NEW y \in T PROVE y <= c - u
    <3>1. y \in 0..c /\ c - y \in Nat /\ c - (c - y) = y /\ u \in Nat
      OBVIOUS
    <3>2. c - y \in U
      BY <3>1
    <3>3. u <= c - y
      BY <2>2, <3>2
    <3> QED  BY <3>1, <3>3
  <2>5. \E x \in T : \A y \in T : x >= y
    <3>1. \A y \in T : y <= c - u => c - u >= y
      <4>1. u \in Nat
        OBVIOUS
      <4> QED  BY <4>1
    <3> QED  BY <2>3, <2>4, <3>1
  <2>6. Max(T) = CHOOSE x \in T : \A y \in T : x >= y
    BY DEF Max
  <2>7. Max(T) \in T /\ \A y \in T : Max(T) >= y
    BY <2>5, <2>6
  <2> QED  BY <2>7
<1> SUFFICES ASSUME NEW L, NEW c \in Nat, NEW a
             PROVE  LET m == LastIn(L, a, c) IN
                    /\ m \in 0..c
                    /\ m = 0 \/ a \in L[m]
                    /\ \A i \in 1..c : a \in L[i] => i <= m
  OBVIOUS
<1> DEFINE T == {0} \cup {i \in 1..c : a \in L[i]}
<1>2. T \in SUBSET (0..c) /\ T # {}
  OBVIOUS
<1>3. LastIn(L, a, c) = Max(T)
  BY DEF LastIn
<1>4. Max(T) \in T /\ \A y \in T : y <= Max(T)
  <2> HIDE DEF T
  <2> QED  BY <1>2, <1>1
<1> QED  BY <1>2, <1>3, <1>4

\* One more entry.
LEMMA LastNext ==
  ASSUME WellOrdered, NEW L, NEW c \in Nat, NEW a
  PROVE  LastIn(L, a, c + 1) = IF a \in L[c + 1] THEN c + 1 ELSE LastIn(L, a, c)
<1> DEFINE m == LastIn(L, a, c)
           n == LastIn(L, a, c + 1)
<1>1. m \in 0..c /\ (m = 0 \/ a \in L[m]) /\ \A i \in 1..c : a \in L[i] => i <= m
  BY LastIs
<1>2. n \in 0..(c + 1) /\ (n = 0 \/ a \in L[n]) /\ \A i \in 1..(c + 1) : a \in L[i] => i <= n
  <2>1. c + 1 \in Nat
    OBVIOUS
  <2> QED  BY <2>1, LastIs
<1> HIDE DEF m, n
<1>3. CASE a \in L[c + 1]
  <2>1. c + 1 <= n
    BY <1>2, <1>3
  <2>2. n = c + 1
    BY <1>2, <2>1
  <2> QED  BY <1>3, <2>2 DEF n
<1>4. CASE a \notin L[c + 1]
  <2>1. n # c + 1
    BY <1>2, <1>4
  <2>2. n \in 0..c /\ (n # 0 => n \in 1..c) /\ (m # 0 => m \in 1..(c + 1))
    BY <1>1, <1>2, <2>1
  <2>3. n <= m
    BY <1>1, <1>2, <2>2
  <2>4. m <= n
    BY <1>1, <1>2, <2>2
  <2>5. n = m
    BY <1>1, <2>2, <2>3, <2>4
  <2> QED  BY <1>4, <2>5 DEF n, m
<1> QED  BY <1>3, <1>4

-----------------------------------------------------------------------------
(* Trees *)

\* The pages of the tree that are its own or shared with other trees.
Nodes(h, root) == {PageOn(h, root, q, k) : q \in Paths, k \in Levels} \ NotFreed

\* What stands for pages of level l that were never written.
Blank(l) == IF l < FoffsetLevels THEN {Null, Zero(l)} ELSE {Null}

\* A page of a tree is blank, and then the one of its level, or allocated.
Typed(h, root) ==
  \A q \in Paths, k \in Levels : PageOn(h, root, q, k) \in Blank(k) \cup (Live(h) \ ZeroPages)

\* A page that is not blank is at one place of the tree.
Single(h, root) ==
  \A q, r \in Paths, k, j \in Levels :
    PageOn(h, root, q, k) = PageOn(h, root, r, j) /\ PageOn(h, root, q, k) \notin NotFreed
      => k = j /\ Agree(q, r, k)

\* The zero pages are as sivfs_mk_zero_checkpoint_page left them.
ZerosKept(h) ==
  \A l \in 0..(FoffsetLevels - 1) :
    h[Zero(l)].live /\ h[Zero(l)].ts = 0 /\ h[Zero(l)].slots = ZeroSlots(l)

\* The zero pages are pages, one for each level of a file, and no two are the same.
LEMMA ZeroIs ==
  /\ Null \notin PageIds /\ ZeroPages \subseteq PageIds /\ Null \notin ZeroPages
  /\ \A l \in 0..(FoffsetLevels - 1) : Zero(l) \in ZeroPages /\ Zero(l) # Null
  /\ \A p \in ZeroPages : \E l \in 0..(FoffsetLevels - 1) : p = Zero(l)
  /\ \A l, k \in Nat : Zero(l) = Zero(k) => l = k
<1>1. FoffsetLevels \in Nat /\ MaxPages \in Nat /\ FoffsetLevels <= MaxPages /\ FoffsetLevels > 1
  BY TreeAssumption
<1>2. Null \notin PageIds /\ \A l, k \in Nat : Zero(l) = Zero(k) => l = k
  BY <1>1 DEF Null, PageIds, Zero
<1>3. \A l \in 0..(FoffsetLevels - 1) : Zero(l) \in ZeroPages /\ Zero(l) # Null /\ Zero(l) \in PageIds
  BY <1>1 DEF Null, PageIds, Zero, ZeroPages
<1>4. \A p \in ZeroPages : \E l \in 0..(FoffsetLevels - 1) : p = Zero(l)
  BY DEF ZeroPages
<1> QED  BY <1>2, <1>3, <1>4

\* A blank page of a level is no page at all or the zero page of that level.
LEMMA BlankIs ==
  ASSUME NEW l \in Levels
  PROVE  /\ Blank(l) \subseteq NotFreed
         /\ \A p \in Blank(l) : p # Null => l \in 0..(FoffsetLevels - 1) /\ p = Zero(l) /\ p \in ZeroPages
<1>1. l < FoffsetLevels => l \in 0..(FoffsetLevels - 1)
  BY TreeAssumption, TopIs DEF Levels
<1> QED  BY <1>1, ZeroIs DEF Blank, NotFreed

\* Below a blank page of a tree all is blank.
LEMMA BlankBelow ==
  ASSUME WellOrdered
  PROVE  \A h, root :
         \A q \in Paths, k \in 0..(Top - 1) :
           /\ ZerosKept(h) /\ Typed(h, root) /\ PageOn(h, root, q, k + 1) \in NotFreed
           => PageOn(h, root, q, k) \in NotFreed
\* The child of a blank page is blank.
<1>1. ASSUME NEW h, ZerosKept(h), NEW k \in 0..(Top - 1), NEW p \in Blank(k + 1), NEW i \in Offsets
      PROVE  Child(h, p, i) \in Blank(k)
  <2> USE <1>1
  <2>0. k \in Levels /\ k + 1 \in Levels
    BY LevelBelow
  <2>1. CASE p = Null
    BY <2>1 DEF Child, Blank
  <2>2. CASE p # Null
    <3>1. k + 1 \in 0..(FoffsetLevels - 1) /\ p = Zero(k + 1)
      BY <2>0, <2>2, BlankIs
    <3>2. h[p].slots = ZeroSlots(k + 1)
      BY <3>1 DEF ZerosKept
    <3>3. k + 1 \in 1..FoffsetLevels /\ (k + 1) - 1 = k /\ k < FoffsetLevels
      BY <3>1, TreeAssumption, TopIs
    <3>4. ZeroSlots(k + 1)[i] = Zero(k)
      BY <3>3 DEF ZeroSlots
    <3> QED  BY <2>2, <3>2, <3>3, <3>4 DEF Child, Blank
  <2> QED  BY <2>1, <2>2
<1> SUFFICES ASSUME NEW h, NEW root, ZerosKept(h), Typed(h, root), NEW q \in Paths, NEW k \in 0..(Top - 1),
                    PageOn(h, root, q, k + 1) \in NotFreed
             PROVE  PageOn(h, root, q, k) \in NotFreed
  OBVIOUS
<1>2. k \in Levels /\ k + 1 \in Levels /\ q[k + 1] \in Offsets
  BY LevelBelow DEF Paths
<1>3. PageOn(h, root, q, k + 1) \in Blank(k + 1)
  <2>1. PageOn(h, root, q, k + 1) \in Blank(k + 1) \cup (Live(h) \ ZeroPages)
    BY <1>2 DEF Typed
  <2> QED  BY <2>1, ZeroIs DEF NotFreed, Live
<1>4. PageOn(h, root, q, k) = Child(h, PageOn(h, root, q, k + 1), q[k + 1])
  BY PageOnIs
<1>5. PageOn(h, root, q, k) \in Blank(k)
  BY <1>2, <1>3, <1>4, <1>1
<1> QED  BY <1>2, <1>5, BlankIs

IsBelow(g, h, root) ==
  g = [k \in Levels |-> (IF k = Top THEN {root}
                         ELSE {h[p].slots[i] : p \in g[k + 1], i \in Offsets}) \ NotFreed]

\* The pages of level k.
Row(h, root, k) == {PageOn(h, root, q, k) : q \in Paths} \ NotFreed

\* The pages that __sivfs_checkpoint_root_free visits are those of the paths.
LEMMA TreePagesIs ==
  ASSUME WellOrdered
  PROVE  \A h, root :
           /\ ZerosKept(h) /\ Typed(h, root)
           => TreePages(h, root) = Nodes(h, root)
<1>1. \E q : q \in Paths
  <2>1. 0 \in Offsets
    BY TreeAssumption DEF Offsets
  <2>2. [i \in 1..Top |-> 0] \in Paths
    BY <2>1 DEF Paths
  <2> QED  BY <2>2
<1>2. ASSUME NEW h, NEW root, ZerosKept(h), Typed(h, root), NEW k \in 0..(Top - 1)
      PROVE  Row(h, root, k) = {h[p].slots[i] : p \in Row(h, root, k + 1), i \in Offsets} \ NotFreed
  <2> USE <1>2
  <2>0. k \in Levels /\ k + 1 \in Levels /\ k + 1 \in 1..Top
    BY LevelBelow
  <2>1. ASSUME NEW q \in Paths, PageOn(h, root, q, k) \notin NotFreed
        PROVE  \E p \in Row(h, root, k + 1), i \in Offsets : PageOn(h, root, q, k) = h[p].slots[i]
    <3> DEFINE p == PageOn(h, root, q, k + 1)
    <3>1. p \notin NotFreed
      BY <2>1, BlankBelow
    <3>2. p \in Row(h, root, k + 1)
      BY <3>1 DEF Row
    <3>3. PageOn(h, root, q, k) = Child(h, p, q[k + 1])
      BY PageOnIs
    <3>4. PageOn(h, root, q, k) = h[p].slots[q[k + 1]]
      BY <3>1, <3>3 DEF Child, NotFreed
    <3>5. q[k + 1] \in Offsets
      BY <2>0 DEF Paths
    <3> QED  BY <3>2, <3>4, <3>5
  <2>2. ASSUME NEW p \in Row(h, root, k + 1), NEW i \in Offsets
        PROVE  \E q \in Paths : h[p].slots[i] = PageOn(h, root, q, k)
    <3>1. PICK r \in Paths : p = PageOn(h, root, r, k + 1)
      BY DEF Row
    <3>2. p # Null
      BY DEF Row, NotFreed
    <3> DEFINE q == [r EXCEPT ![k + 1] = i]
    <3>3. q \in Paths /\ q[k + 1] = i
      BY <2>0 DEF Paths
    <3>4. Agree(q, r, k + 1)
      <4>1. \A j \in (k + 1 + 1)..Top : j # k + 1 /\ j \in 1..Top
        BY TopIs
      <4> QED  BY <4>1 DEF Agree, Paths
    <3> HIDE DEF q
    <3>5. PageOn(h, root, q, k + 1) = p
      BY <2>0, <3>1, <3>4, Congruent
    <3>6. PageOn(h, root, q, k) = Child(h, PageOn(h, root, q, k + 1), q[k + 1])
      BY PageOnIs
    <3>7. PageOn(h, root, q, k) = h[p].slots[i]
      BY <3>2, <3>3, <3>5, <3>6 DEF Child
    <3> QED  BY <3>3, <3>7
  <2> QED  BY <2>1, <2>2 DEF Row
<1> SUFFICES ASSUME NEW h, NEW root, ZerosKept(h), Typed(h, root)
             PROVE  TreePages(h, root) = Nodes(h, root)
  OBVIOUS
<1> DEFINE g0 == [k \in Levels |-> Row(h, root, k)]
           below == CHOOSE g : IsBelow(g, h, root)
<1>3. Row(h, root, Top) = {root} \ NotFreed
  BY PageOnTop, <1>1 DEF Row
<1>4. IsBelow(g0, h, root)
  <2>1. ASSUME NEW k \in Levels
        PROVE  g0[k] = (IF k = Top THEN {root}
                        ELSE {h[p].slots[i] : p \in g0[k + 1], i \in Offsets}) \ NotFreed
    <3>1. CASE k = Top
      BY <1>3, <3>1
    <3>2. CASE k # Top
      <4>1. k \in 0..(Top - 1) /\ k + 1 \in Levels
        BY <3>2, LevelBelow
      <4>2. g0[k] = Row(h, root, k) /\ g0[k + 1] = Row(h, root, k + 1)
        BY <4>1
      <4> HIDE DEF g0
      <4> QED  BY <3>2, <4>1, <4>2, <1>2
    <3> QED  BY <3>1, <3>2
  <2>2. g0 = [k \in Levels |-> g0[k]]
    OBVIOUS
  <2> HIDE DEF g0
  <2> QED  BY <2>1, <2>2 DEF IsBelow
<1>5. IsBelow(below, h, root)
  BY <1>4
<1>6. TreePages(h, root) = UNION {below[k] : k \in Levels}
  BY DEF TreePages, IsBelow
<1> HIDE DEF g0, below
<1> DEFINE F(k) == (IF k = Top THEN {root}
                    ELSE {h[p].slots[i] : p \in below[k + 1], i \in Offsets}) \ NotFreed
<1>11. \A k \in Levels : below[k] = F(k)
  <2>1. IsBelow(below, h, root) <=> below = [k \in Levels |-> F(k)]
    BY DEF IsBelow
  <2> HIDE DEF F
  <2> QED  BY <1>5, <2>1
<1>12. F(Top) = Row(h, root, Top)
  BY <1>3
<1>13. ASSUME NEW k \in 0..(Top - 1), below[k + 1] = Row(h, root, k + 1) PROVE F(k) = Row(h, root, k)
  <2>1. k # Top
    BY LevelBelow
  <2>2. F(k) = {h[p].slots[i] : p \in Row(h, root, k + 1), i \in Offsets} \ NotFreed
    BY <1>13, <2>1
  <2> QED  BY <2>2, <1>2
<1> HIDE DEF F
<1> DEFINE S == {k \in Levels : below[k] = Row(h, root, k)}
<1>7. Top \in S
  BY <1>11, <1>12, TopIs
<1>8. ASSUME NEW k \in 0..(Top - 1), k + 1 \in S PROVE k \in S
  BY <1>8, <1>11, <1>13, LevelBelow
<1>9. Levels \subseteq S
  <2> HIDE DEF S
  <2> QED  BY <1>7, <1>8, Downward
<1>10. \A k \in Levels : below[k] = Row(h, root, k)
  BY <1>9
<1> QED  BY <1>6, <1>10 DEF Nodes, Row

\* A page that a path of the tree leads to.
LEMMA PageIs ==
  ASSUME NEW h, NEW root, Typed(h, root), NEW q \in Paths, NEW k \in Levels
  PROVE  LET p == PageOn(h, root, q, k)
         IN /\ p # Null => p \in PageIds
            /\ p \in NotFreed => p \in Blank(k)
            /\ p \notin NotFreed => p \in Nodes(h, root) /\ h[p].live
<1> DEFINE p == PageOn(h, root, q, k)
<1>1. p \in Blank(k) \cup (Live(h) \ ZeroPages)
  BY DEF Typed
<1>2. p \in Blank(k) => p \in NotFreed /\ (p # Null => p \in PageIds)
  BY BlankIs, ZeroIs
<1>3. p \in Live(h) \ ZeroPages => p \in PageIds /\ p \notin NotFreed /\ h[p].live
  BY ZeroIs DEF Live, NotFreed
<1>4. p \notin NotFreed => p \in Nodes(h, root)
  BY DEF Nodes
<1> HIDE DEF p
<1>5. /\ p # Null => p \in PageIds
      /\ p \in NotFreed => p \in Blank(k)
      /\ p \notin NotFreed => p \in Nodes(h, root) /\ h[p].live
  BY <1>1, <1>2, <1>3, <1>4
<1> QED  BY <1>5 DEF p

-----------------------------------------------------------------------------
(* A tree whose pages do not change *)

\* Two trees hold the same words.
SameWords(g, groot, h, root) ==
  \A q \in Paths, x \in Offsets :
    Child(g, PageOn(g, groot, q, 0), x) = Child(h, PageOn(h, root, q, 0), x)

\* The tree is what it was, and every word reads as before.
LEMMA Frame ==
  ASSUME WellOrdered
  PROVE  \A h, g, root :
           /\ ZerosKept(h) /\ ZerosKept(g) /\ Typed(h, root) /\ Single(h, root)
           /\ (\A p \in Nodes(h, root) : g[p].slots = h[p].slots /\ g[p].live)
           => /\ Typed(g, root) /\ Single(g, root) /\ Nodes(g, root) = Nodes(h, root)
              /\ SameWords(g, root, h, root)
\* The zero pages hold the same in all heaps.
<1>1. ASSUME NEW h, NEW g, ZerosKept(h), ZerosKept(g), NEW p \in ZeroPages
      PROVE  g[p].slots = h[p].slots
  BY <1>1, ZeroIs DEF ZerosKept
<1>2. ASSUME NEW h, NEW g, NEW root, ZerosKept(h), ZerosKept(g), Typed(h, root),
             \A p \in Nodes(h, root) : g[p].slots = h[p].slots, NEW q \in Paths
      PROVE  \A k \in Levels : PageOn(g, root, q, k) = PageOn(h, root, q, k)
  <2> USE <1>2
  <2> DEFINE A == [k \in Levels |-> PageOn(h, root, q, k)]
  <2>1. A[Top] = root
    BY PageOnTop, TopIs
  <2>2. ASSUME NEW k \in 0..(Top - 1) PROVE A[k] = Child(g, A[k + 1], q[k + 1])
    <3> DEFINE p == PageOn(h, root, q, k + 1)
    <3>1. k \in Levels /\ k + 1 \in Levels
      BY LevelBelow
    <3>2. A[k] = PageOn(h, root, q, k) /\ A[k + 1] = p
      BY <3>1
    <3>3. PageOn(h, root, q, k) = Child(h, p, q[k + 1])
      BY PageOnIs
    <3>4. p # Null => g[p].slots = h[p].slots
      <4>1. p \in NotFreed \/ p \in Nodes(h, root)
        BY <3>1, PageIs
      <4>2. p \in NotFreed /\ p # Null => p \in ZeroPages
        BY DEF NotFreed
      <4> HIDE DEF p
      <4> QED  BY <4>1, <4>2, <1>1
    <3> HIDE DEF p, A
    <3> QED  BY <3>2, <3>3, <3>4 DEF Child
  <2>3. Walks(A, g, root, q)
    <3> HIDE DEF A
    <3> QED  BY <2>1, <2>2 DEF Walks
  <2>4. \A k \in Levels : PageOn(g, root, q, k) = A[k]
    <3> HIDE DEF A
    <3> QED  BY <2>3, OnlyWalk
  <2> QED  BY <2>4
<1> SUFFICES ASSUME NEW h, NEW g, NEW root, ZerosKept(h), ZerosKept(g), Typed(h, root), Single(h, root),
                    \A p \in Nodes(h, root) : g[p].slots = h[p].slots /\ g[p].live
             PROVE  /\ Typed(g, root) /\ Single(g, root) /\ Nodes(g, root) = Nodes(h, root)
                    /\ SameWords(g, root, h, root)
  OBVIOUS
<1>3. \A q \in Paths, k \in Levels : PageOn(g, root, q, k) = PageOn(h, root, q, k)
  BY <1>2
<1>4. Nodes(g, root) = Nodes(h, root)
  BY <1>3 DEF Nodes
<1>5. Single(g, root)
  BY <1>3 DEF Single
<1>6. Typed(g, root)
  <2> SUFFICES ASSUME NEW q \in Paths, NEW k \in Levels
               PROVE  PageOn(g, root, q, k) \in Blank(k) \cup (Live(g) \ ZeroPages)
    BY DEF Typed
  <2> DEFINE p == PageOn(h, root, q, k)
  <2>1. PageOn(g, root, q, k) = p
    BY <1>3
  <2>2. p \in NotFreed => p \in Blank(k)
    BY PageIs
  <2>3. p \notin NotFreed => p \in Nodes(h, root) /\ p \in PageIds
    BY PageIs DEF NotFreed
  <2> HIDE DEF p
  <2> QED  BY <2>1, <2>2, <2>3 DEF Live, NotFreed
<1>7. SameWords(g, root, h, root)
  <2> SUFFICES ASSUME NEW q \in Paths, NEW x \in Offsets
               PROVE  Child(g, PageOn(g, root, q, 0), x) = Child(h, PageOn(h, root, q, 0), x)
    BY DEF SameWords
  <2> DEFINE p == PageOn(h, root, q, 0)
  <2>1. PageOn(g, root, q, 0) = p
    BY <1>3, TopIs
  <2>2. p \in NotFreed \/ p \in Nodes(h, root)
    BY PageIs, TopIs
  <2>3. p \in NotFreed /\ p # Null => p \in ZeroPages
    BY DEF NotFreed
  <2> HIDE DEF p
  <2>4. p # Null => g[p].slots = h[p].slots
    BY <2>2, <2>3, <1>1
  <2>5. Child(g, p, x) = Child(h, p, x)
    BY <2>4 DEF Child
  <2> QED  BY <2>1, <2>5 DEF p
<1> QED  BY <1>4, <1>5, <1>6, <1>7

-----------------------------------------------------------------------------
(* A page of a tree is replaced by a copy *)

\* g with groot is h with root where new, a copy of the page of level l on the path q0,
\* takes the place of that page.
Grafted(h, root, q0, l, new, g, groot) ==
  LET old == PageOn(h, root, q0, l)
      parent == PageOn(h, root, q0, l + 1)
  IN /\ new \in PageIds /\ ~h[new].live
     /\ g[new].slots = (IF old = Null THEN ZeroSlots(l) ELSE h[old].slots)
     /\ l = Top => /\ groot = new
                   /\ \A p \in PageIds : p # new => g[p].slots = h[p].slots
     /\ l # Top => /\ groot = root /\ parent \notin NotFreed
                   /\ g[parent].slots = [h[parent].slots EXCEPT ![q0[l + 1]] = new]
                   /\ \A p \in PageIds : p # new /\ p # parent => g[p].slots = h[p].slots

\* The page of level k that q leads to afterwards.
After(h, root, q0, l, new, q, k) ==
  IF Agree(q, q0, l) /\ k = l THEN new
  ELSE IF Agree(q, q0, l) /\ k < l /\ PageOn(h, root, q0, l) = Null
    THEN IF l \in 1..FoffsetLevels THEN Zero(k) ELSE Null
  ELSE PageOn(h, root, q, k)

\* The tree after the page is replaced, seen from the tree before: the same words, and
\* new in the place of the old page.
Regrown(h, root, q0, l, new, g, groot) ==
  /\ Typed(g, groot) /\ Single(g, groot) /\ SameWords(g, groot, h, root)
  /\ Nodes(g, groot) = (Nodes(h, root) \ {PageOn(h, root, q0, l)}) \cup {new}
  /\ PageOn(g, groot, q0, l) = new

\* A page just allocated is none of the zero pages.
LEMMA NewIs ==
  ASSUME NEW h, ZerosKept(h), NEW new \in PageIds, ~h[new].live
  PROVE  new \notin NotFreed /\ new # Null
BY ZeroIs DEF ZerosKept, NotFreed

\* The new tree, in one.
LEMMA Graft ==
  ASSUME WellOrdered
  PROVE  \A root, new, g, groot :
         \A h \in [PageIds -> Pages], q0 \in Paths, l \in Levels :
           /\ ZerosKept(h) /\ ZerosKept(g) /\ Typed(h, root) /\ Single(h, root)
           /\ Grafted(h, root, q0, l, new, g, groot) /\ (\A p \in PageIds : p # new => g[p].live = h[p].live)
           /\ g[new].live
           => Regrown(h, root, q0, l, new, g, groot)
\* A page of the tree, other than the parent, holds what it held.
<1>1. ASSUME NEW h, NEW root, NEW q0, NEW l, NEW new, NEW g, NEW groot, ZerosKept(h), Typed(h, root),
             Grafted(h, root, q0, l, new, g, groot), NEW q \in Paths, NEW k \in Levels,
             PageOn(h, root, q, k) # Null, l = Top \/ PageOn(h, root, q, k) # PageOn(h, root, q0, l + 1)
      PROVE  g[PageOn(h, root, q, k)].slots = h[PageOn(h, root, q, k)].slots
  <2> USE <1>1
  <2> DEFINE p == PageOn(h, root, q, k)
  <2>1. p \in PageIds /\ (p \notin NotFreed => h[p].live)
    BY PageIs
  <2>2. new \in PageIds /\ ~h[new].live
    BY DEF Grafted
  <2>3. new \notin NotFreed
    BY <2>2, NewIs
  <2>4. p # new
    BY <2>1, <2>2, <2>3
  <2> HIDE DEF p
  <2>5. g[p].slots = h[p].slots
    BY <2>1, <2>4 DEF Grafted, p
  <2> QED  BY <2>5 DEF p
<1>2. ASSUME NEW h, NEW root, NEW q0 \in Paths, NEW l \in Levels, NEW new, NEW g, NEW groot, ZerosKept(h),
             Typed(h, root), Single(h, root), Grafted(h, root, q0, l, new, g, groot), NEW q \in Paths,
             NEW k \in 0..(Top - 1), k > l
      PROVE  After(h, root, q0, l, new, q, k) =
               Child(g, After(h, root, q0, l, new, q, k + 1), q[k + 1])
  <2> USE <1>2
  <2> DEFINE p == PageOn(h, root, q, k + 1)
  <2>1. k \in Levels /\ k + 1 \in Levels /\ ~(k < l) /\ k # l /\ ~(k + 1 < l) /\ k + 1 # l /\ k + 1 # l + 1 /\ l # Top
    BY LevelBelow, TopIs DEF Levels
  <2>2. After(h, root, q0, l, new, q, k) = PageOn(h, root, q, k) /\ After(h, root, q0, l, new, q, k + 1) = p
    BY <2>1 DEF After
  <2>3. PageOn(h, root, q, k) = Child(h, p, q[k + 1])
    BY PageOnIs
  <2>4. l \in 0..(Top - 1) /\ l + 1 \in Levels
    BY <2>1, LevelBelow
  <2>5. p # PageOn(h, root, q0, l + 1)
    <3>1. PageOn(h, root, q0, l + 1) \notin NotFreed
      BY <2>1 DEF Grafted
    <3> QED  BY <2>1, <2>4, <3>1 DEF Single
  <2>6. p # Null => g[p].slots = h[p].slots
    BY <2>1, <2>5, <1>1
  <2> HIDE DEF p
  <2> QED  BY <2>2, <2>3, <2>6 DEF Child
<1>3. ASSUME NEW h \in [PageIds -> Pages], NEW root, NEW q0 \in Paths, NEW k \in 0..(Top - 1), NEW new, NEW g,
             NEW groot, ZerosKept(h), Typed(h, root), Single(h, root), Grafted(h, root, q0, k, new, g, groot),
             NEW q \in Paths
      PROVE  After(h, root, q0, k, new, q, k) =
               Child(g, After(h, root, q0, k, new, q, k + 1), q[k + 1])
  <2> USE <1>3
  <2> DEFINE p == PageOn(h, root, q, k + 1)
             parent == PageOn(h, root, q0, k + 1)
  <2>1. k \in Levels /\ k + 1 \in Levels /\ ~(k + 1 < k) /\ k + 1 # k /\ k # Top /\ k + 1 \in 1..Top /\ ~(k < k)
    BY LevelBelow, TopIs DEF Levels
  <2>2. /\ After(h, root, q0, k, new, q, k) = (IF Agree(q, q0, k) THEN new ELSE PageOn(h, root, q, k))
        /\ After(h, root, q0, k, new, q, k + 1) = p
    BY <2>1 DEF After
  <2>3. PageOn(h, root, q, k) = Child(h, p, q[k + 1])
    BY PageOnIs
  <2>4. parent \notin NotFreed /\ g[parent].slots = [h[parent].slots EXCEPT ![q0[k + 1]] = new]
    BY <2>1 DEF Grafted
  <2>5. parent # Null /\ parent \in PageIds
    BY <2>1, <2>4, PageIs DEF NotFreed
  <2>6. h[parent].slots \in [Offsets -> Nat] /\ q0[k + 1] \in Offsets /\ q[k + 1] \in Offsets
    BY <2>1, <2>5 DEF Pages, Paths
  <2>7. p = parent <=> Agree(q, q0, k + 1)
    <3>1. Agree(q, q0, k + 1) => p = parent
      BY <2>1, Congruent
    <3>2. p = parent => Agree(q, q0, k + 1)
      BY <2>1, <2>4 DEF Single
    <3> QED  BY <3>1, <3>2
  <2>8. Agree(q, q0, k) <=> p = parent /\ q[k + 1] = q0[k + 1]
    BY <2>7, AgreeIs
  <2>9. p # Null /\ p # parent => g[p].slots = h[p].slots
    BY <2>1, <1>1
  <2> HIDE DEF p, parent
  <2>10. CASE p = parent
    <3>1. Child(g, p, q[k + 1]) = [h[parent].slots EXCEPT ![q0[k + 1]] = new][q[k + 1]]
      BY <2>4, <2>5, <2>10 DEF Child
    <3>2. Child(h, p, q[k + 1]) = h[parent].slots[q[k + 1]]
      BY <2>5, <2>10 DEF Child
    <3>3. CASE q[k + 1] = q0[k + 1]
      BY <2>2, <2>6, <2>8, <2>10, <3>1, <3>3
    <3>4. CASE q[k + 1] # q0[k + 1]
      BY <2>2, <2>3, <2>6, <2>8, <2>10, <3>1, <3>2, <3>4
    <3> QED  BY <3>3, <3>4
  <2>11. CASE p # parent
    BY <2>2, <2>3, <2>8, <2>9, <2>11 DEF Child
  <2> QED  BY <2>10, <2>11
<1>4. ASSUME NEW h, NEW root, NEW q0 \in Paths, NEW l \in Levels, NEW new, NEW g, NEW groot, ZerosKept(h),
             ZerosKept(g), Typed(h, root), Single(h, root), Grafted(h, root, q0, l, new, g, groot),
             NEW q \in Paths, NEW k \in 0..(Top - 1), k < l
      PROVE  After(h, root, q0, l, new, q, k) =
               Child(g, After(h, root, q0, l, new, q, k + 1), q[k + 1])
  <2> USE <1>4
  <2> DEFINE p == PageOn(h, root, q, k + 1)
             old == PageOn(h, root, q0, l)
             blank == IF l \in 1..FoffsetLevels THEN Zero(k) ELSE Null
  <2>1. k \in Levels /\ k + 1 \in Levels /\ k # l /\ k + 1 \in 1..Top /\ l \in Nat
    BY LevelBelow, TopIs DEF Levels
  <2>2. PageOn(h, root, q, k) = Child(h, p, q[k + 1]) /\ q[k + 1] \in Offsets
    BY <2>1, PageOnIs DEF Paths
  <2>3. new \in PageIds /\ ~h[new].live
    BY DEF Grafted
  <2>4. new # Null
    BY <2>3, NewIs
  <2>5. g[new].slots = (IF old = Null THEN ZeroSlots(l) ELSE h[old].slots)
    BY DEF Grafted
  <2>6. CASE Agree(q, q0, l) /\ k + 1 = l
    <3>1. After(h, root, q0, l, new, q, k + 1) = new
      BY <2>6 DEF After
    <3>2. p = old
      BY <2>1, <2>6, Congruent
    <3>3. Child(g, new, q[k + 1]) = g[new].slots[q[k + 1]]
      BY <2>4 DEF Child
    <3>4. CASE old = Null
      <4>1. After(h, root, q0, l, new, q, k) = blank
        BY <2>1, <2>6, <3>4 DEF After
      <4>2. g[new].slots[q[k + 1]] = (IF l \in 1..FoffsetLevels THEN Zero(l - 1) ELSE Null)
        BY <2>2, <2>5, <3>4 DEF ZeroSlots
      <4>3. l - 1 = k
        BY <2>1, <2>6
      <4> QED  BY <3>1, <3>3, <4>1, <4>2, <4>3
    <3>5. CASE old # Null
      <4>1. After(h, root, q0, l, new, q, k) = PageOn(h, root, q, k)
        BY <2>1, <3>5 DEF After
      <4>2. PageOn(h, root, q, k) = h[old].slots[q[k + 1]]
        BY <2>2, <3>2, <3>5 DEF Child
      <4> QED  BY <2>5, <3>1, <3>3, <3>5, <4>1, <4>2
    <3> QED  BY <3>4, <3>5
  <2>7. CASE Agree(q, q0, l) /\ k + 1 # l /\ old = Null
    <3>1. k + 1 < l /\ k + 1 # l
      BY <2>1, <2>7
    <3>2. /\ After(h, root, q0, l, new, q, k) = blank
          /\ After(h, root, q0, l, new, q, k + 1) = (IF l \in 1..FoffsetLevels THEN Zero(k + 1) ELSE Null)
      BY <2>1, <2>7, <3>1 DEF After
    <3>3. CASE l \in 1..FoffsetLevels
      <4>1. k + 1 \in 0..(FoffsetLevels - 1) /\ k + 1 \in 1..FoffsetLevels /\ (k + 1) - 1 = k
        BY <2>1, <3>1, <3>3, TreeAssumption
      <4>2. g[Zero(k + 1)].slots = ZeroSlots(k + 1) /\ Zero(k + 1) # Null
        BY <4>1, ZeroIs DEF ZerosKept
      <4>3. ZeroSlots(k + 1)[q[k + 1]] = Zero(k)
        BY <2>2, <4>1 DEF ZeroSlots
      <4> QED  BY <3>2, <3>3, <4>2, <4>3 DEF Child
    <3>4. CASE ~(l \in 1..FoffsetLevels)
      BY <3>2, <3>4 DEF Child
    <3> QED  BY <3>3, <3>4
  <2>8. CASE ~Agree(q, q0, l) \/ (k + 1 # l /\ old # Null)
    <3>1. After(h, root, q0, l, new, q, k) = PageOn(h, root, q, k) /\ After(h, root, q0, l, new, q, k + 1) = p
      BY <2>1, <2>8 DEF After
    <3>2. l = Top \/ p # PageOn(h, root, q0, l + 1)
      <4>1. CASE l # Top
        <5>1. PageOn(h, root, q0, l + 1) \notin NotFreed
          BY <4>1 DEF Grafted
        <5>2. l + 1 \in Levels /\ k + 1 # l + 1
          BY <2>1, <4>1, LevelBelow
        <5> QED  BY <2>1, <5>1, <5>2 DEF Single
      <4> QED  BY <4>1
    <3>3. p # Null => g[p].slots = h[p].slots
      BY <2>1, <3>2, <1>1
    <3> HIDE DEF p
    <3> QED  BY <2>2, <3>1, <3>3 DEF Child
  <2> QED  BY <2>6, <2>7, <2>8
\* The walk on the new tree.
<1>5. ASSUME NEW h \in [PageIds -> Pages], NEW root, NEW q0 \in Paths, NEW l \in Levels, NEW new, NEW g,
             NEW groot, ZerosKept(h), ZerosKept(g), Typed(h, root), Single(h, root),
             Grafted(h, root, q0, l, new, g, groot), NEW q \in Paths
      PROVE  \A k \in Levels : PageOn(g, groot, q, k) = After(h, root, q0, l, new, q, k)
  <2> USE <1>5
  <2> DEFINE A == [k \in Levels |-> After(h, root, q0, l, new, q, k)]
  <2>1. A[Top] = groot
    <3>1. A[Top] = After(h, root, q0, l, new, q, Top)
      BY TopIs
    <3>2. CASE l = Top
      <4>1. groot = new
        BY <3>2 DEF Grafted
      <4> QED  BY <3>1, <3>2, <4>1, AgreeIs DEF After
    <3>3. CASE l # Top
      <4>1. groot = root /\ ~(Top < l)
        BY <3>3, TopIs DEF Grafted, Levels
      <4> QED  BY <3>1, <3>3, <4>1, PageOnTop DEF After
    <3> QED  BY <3>2, <3>3
  <2>2. ASSUME NEW k \in 0..(Top - 1) PROVE A[k] = Child(g, A[k + 1], q[k + 1])
    <3>1. k \in Levels /\ k + 1 \in Levels
      BY LevelBelow
    <3>2. A[k] = After(h, root, q0, l, new, q, k) /\ A[k + 1] = After(h, root, q0, l, new, q, k + 1)
      BY <3>1
    <3> HIDE DEF A
    <3>3. k > l \/ k = l \/ k < l
      BY <3>1, TopIs DEF Levels
    <3>4. CASE k > l
      BY <3>2, <3>4, <1>2
    <3>5. CASE k = l
      BY <3>2, <3>5, <1>3
    <3>6. CASE k < l
      BY <3>2, <3>6, <1>4
    <3> QED  BY <3>3, <3>4, <3>5, <3>6
  <2>3. Walks(A, g, groot, q)
    <3> HIDE DEF A
    <3> QED  BY <2>1, <2>2 DEF Walks
  <2>4. \A k \in Levels : PageOn(g, groot, q, k) = A[k]
    <3> HIDE DEF A
    <3> QED  BY <2>3, OnlyWalk
  <2> QED  BY <2>4
\* All is blank further down, too.
<1>6. ASSUME NEW h, NEW root, ZerosKept(h), Typed(h, root), NEW q \in Paths, NEW l \in Levels,
             PageOn(h, root, q, l) \in NotFreed
      PROVE  \A k \in Levels : k <= l => PageOn(h, root, q, k) \in NotFreed
  <2> USE <1>6
  <2> DEFINE S == {k \in Levels : k <= l => PageOn(h, root, q, k) \in NotFreed}
  <2>1. Top \in S
    <3>1. Top <= l => Top = l
      BY TopIs DEF Levels
    <3> QED  BY <3>1, TopIs
  <2>2. ASSUME NEW k \in 0..(Top - 1), k + 1 \in S PROVE k \in S
    <3>1. k \in Levels /\ k + 1 \in Levels
      BY LevelBelow
    <3>2. k <= l => k = l \/ k + 1 <= l
      BY <3>1, TopIs DEF Levels
    <3> QED  BY <2>2, <3>1, <3>2, BlankBelow
  <2>3. Levels \subseteq S
    <3> HIDE DEF S
    <3> QED  BY <2>1, <2>2, Downward
  <2> QED  BY <2>3
\* The words of a blank page are 0.
<1>7. ASSUME NEW h, ZerosKept(h), NEW p \in Blank(0), NEW x \in Offsets
      PROVE  Child(h, p, x) = Null
  <2> USE <1>7
  <2>1. 0 \in 0..(FoffsetLevels - 1) /\ ~(0 \in 1..FoffsetLevels)
    BY TreeAssumption
  <2>2. h[Zero(0)].slots = ZeroSlots(0) /\ ZeroSlots(0)[x] = Null
    BY <2>1 DEF ZerosKept, ZeroSlots
  <2>3. p = Null \/ p = Zero(0)
    BY BlankIs, TopIs
  <2> QED  BY <2>2, <2>3 DEF Child
<1>8. ASSUME NEW q, NEW r, NEW s, NEW l, Agree(q, s, l), Agree(r, s, l)
      PROVE  Agree(q, r, l)
  BY <1>8 DEF Agree
<1>9. ASSUME NEW q, NEW l
      PROVE  Agree(q, q, l)
  BY <1>9 DEF Agree
<1>10. ASSUME NEW h, NEW root, NEW q0 \in Paths, NEW l \in Levels, NEW new \in PageIds, NEW g, NEW groot,
              ~h[new].live, ZerosKept(h), Typed(h, root), Single(h, root),
              \A q \in Paths, k \in Levels : PageOn(g, groot, q, k) = After(h, root, q0, l, new, q, k)
       PROVE  Nodes(g, groot) = (Nodes(h, root) \ {PageOn(h, root, q0, l)}) \cup {new}
  <2> USE <1>10
  <2> DEFINE old == PageOn(h, root, q0, l)
  <2>1. new \notin NotFreed
    BY NewIs
  <2>2. ASSUME NEW q \in Paths, NEW k \in Levels, PageOn(g, groot, q, k) \notin NotFreed
        PROVE  PageOn(g, groot, q, k) \in (Nodes(h, root) \ {old}) \cup {new}
    <3> DEFINE p == PageOn(h, root, q, k)
    <3>1. PageOn(g, groot, q, k) = After(h, root, q0, l, new, q, k)
      OBVIOUS
    <3>2. CASE Agree(q, q0, l) /\ k = l
      BY <3>1, <3>2 DEF After
    <3>3. CASE Agree(q, q0, l) /\ k < l /\ old = Null
      <4>1. k # l
        BY <3>3, TopIs DEF Levels
      <4>2. PageOn(g, groot, q, k) = (IF l \in 1..FoffsetLevels THEN Zero(k) ELSE Null)
        BY <3>1, <3>3, <4>1 DEF After
      <4>3. l \in 1..FoffsetLevels => k \in 0..(FoffsetLevels - 1)
        BY <3>3, TopIs, TreeAssumption DEF Levels
      <4>4. PageOn(g, groot, q, k) \in NotFreed
        BY <4>2, <4>3, ZeroIs DEF NotFreed
      <4> QED  BY <2>2, <4>4
    <3>4. CASE ~(Agree(q, q0, l) /\ k = l) /\ ~(Agree(q, q0, l) /\ k < l /\ old = Null)
      <4>1. PageOn(g, groot, q, k) = p
        BY <3>1, <3>4 DEF After
      <4>2. p # old
        BY <2>2, <3>4, <4>1 DEF Single
      <4>3. p \in Nodes(h, root)
        BY <2>2, <4>1 DEF Nodes
      <4> QED  BY <4>1, <4>2, <4>3
    <3> QED  BY <3>2, <3>3, <3>4
  <2>3. new \in Nodes(g, groot)
    <3>1. PageOn(g, groot, q0, l) = new
      BY <1>9 DEF After
    <3> QED  BY <2>1, <3>1 DEF Nodes
  <2>4. ASSUME NEW p \in Nodes(h, root), p # old
        PROVE  p \in Nodes(g, groot)
    <3>1. PICK q \in Paths, k \in Levels : p = PageOn(h, root, q, k) /\ p \notin NotFreed
      BY DEF Nodes
    <3>2. PageOn(g, groot, q, k) = After(h, root, q0, l, new, q, k)
      OBVIOUS
    <3>3. ~(Agree(q, q0, l) /\ k = l)
      BY <2>4, <3>1, Congruent
    <3>4. ~(Agree(q, q0, l) /\ k < l /\ old = Null)
      <4> SUFFICES ASSUME Agree(q, q0, l), k < l, old = Null PROVE FALSE
        OBVIOUS
      <4>1. PageOn(h, root, q, l) \in NotFreed
        BY Congruent DEF NotFreed
      <4>2. k <= l
        BY TopIs DEF Levels
      <4> QED  BY <3>1, <4>1, <4>2, <1>6
    <3>5. PageOn(g, groot, q, k) = p
      BY <3>1, <3>2, <3>3, <3>4 DEF After
    <3> QED  BY <3>1, <3>5 DEF Nodes
  <2>5. \A p \in Nodes(g, groot) : \E q \in Paths, k \in Levels : p = PageOn(g, groot, q, k) /\ p \notin NotFreed
    BY DEF Nodes
  <2> HIDE DEF old
  <2>6. Nodes(g, groot) = (Nodes(h, root) \ {old}) \cup {new}
    BY <2>2, <2>3, <2>4, <2>5
  <2> QED  BY <2>6 DEF old
<1>11. ASSUME NEW h, NEW root, NEW q0 \in Paths, NEW l \in Levels, NEW new \in PageIds, NEW g, NEW groot,
              ~h[new].live, ZerosKept(h), Typed(h, root), \A p \in PageIds : p # new => g[p].live = h[p].live,
              g[new].live,
              \A q \in Paths, k \in Levels : PageOn(g, groot, q, k) = After(h, root, q0, l, new, q, k)
       PROVE  Typed(g, groot)
  <2> USE <1>11
  <2> SUFFICES ASSUME NEW q \in Paths, NEW k \in Levels
               PROVE  PageOn(g, groot, q, k) \in Blank(k) \cup (Live(g) \ ZeroPages)
    BY DEF Typed
  <2> DEFINE p == PageOn(h, root, q, k)
  <2>1. PageOn(g, groot, q, k) = After(h, root, q0, l, new, q, k)
    OBVIOUS
  <2>2. new \in Live(g) \ ZeroPages
    BY NewIs DEF Live, NotFreed
  <2>3. k < l /\ l \in 1..FoffsetLevels => k < FoffsetLevels
    BY TopIs, TreeAssumption DEF Levels
  <2>4. Null \in Blank(k) /\ (k < FoffsetLevels => Zero(k) \in Blank(k))
    BY DEF Blank
  <2>5. p \in Blank(k) \cup (Live(g) \ ZeroPages)
    <3>1. p \in NotFreed => p \in Blank(k)
      BY PageIs
    <3>2. p \notin NotFreed => p \in PageIds /\ h[p].live
      BY PageIs DEF NotFreed
    <3> HIDE DEF p
    <3>3. p \notin NotFreed => p \in Live(g) /\ p \notin ZeroPages
      BY <3>2 DEF Live, NotFreed
    <3> QED  BY <3>1, <3>3
  <2> QED  BY <2>1, <2>2, <2>3, <2>4, <2>5 DEF After
<1>12. ASSUME NEW h, NEW root, NEW q0 \in Paths, NEW l \in Levels, NEW new \in PageIds, NEW g, NEW groot,
              ~h[new].live, ZerosKept(h), Typed(h, root), Single(h, root),
              \A q \in Paths, k \in Levels : PageOn(g, groot, q, k) = After(h, root, q0, l, new, q, k)
       PROVE  Single(g, groot)
  <2> USE <1>12
  <2>1. ASSUME NEW q \in Paths, NEW k \in Levels, PageOn(g, groot, q, k) \notin NotFreed
        PROVE  \/ PageOn(g, groot, q, k) = new /\ k = l /\ Agree(q, q0, l)
               \/ PageOn(g, groot, q, k) # new /\ PageOn(g, groot, q, k) = PageOn(h, root, q, k)
    <3>1. PageOn(g, groot, q, k) = After(h, root, q0, l, new, q, k)
      OBVIOUS
    <3>2. PageOn(h, root, q, k) # new
      <4>1. PageOn(h, root, q, k) \notin NotFreed => h[PageOn(h, root, q, k)].live
        BY PageIs
      <4> QED  BY <4>1, NewIs
    <3>3. CASE Agree(q, q0, l) /\ k = l
      BY <3>1, <3>3 DEF After
    <3>4. CASE Agree(q, q0, l) /\ k < l /\ PageOn(h, root, q0, l) = Null
      <4>1. k # l
        BY <3>4, TopIs DEF Levels
      <4>2. PageOn(g, groot, q, k) = (IF l \in 1..FoffsetLevels THEN Zero(k) ELSE Null)
        BY <3>1, <3>4, <4>1 DEF After
      <4>3. l \in 1..FoffsetLevels => k \in 0..(FoffsetLevels - 1)
        BY <3>4, TopIs, TreeAssumption DEF Levels
      <4> QED  BY <2>1, <4>2, <4>3, ZeroIs DEF NotFreed
    <3>5. CASE ~(Agree(q, q0, l) /\ k = l) /\ ~(Agree(q, q0, l) /\ k < l /\ PageOn(h, root, q0, l) = Null)
      BY <3>1, <3>2, <3>5 DEF After
    <3> QED  BY <3>3, <3>4, <3>5
  <2> SUFFICES ASSUME NEW q \in Paths, NEW r \in Paths, NEW k \in Levels, NEW j \in Levels,
                      PageOn(g, groot, q, k) = PageOn(g, groot, r, j), PageOn(g, groot, q, k) \notin NotFreed
               PROVE  k = j /\ Agree(q, r, k)
    BY DEF Single
  <2>2. CASE PageOn(g, groot, q, k) = new
    <3>1. k = l /\ Agree(q, q0, l) /\ j = l /\ Agree(r, q0, l)
      BY <2>1, <2>2
    <3> QED  BY <3>1, <1>8
  <2>3. CASE PageOn(g, groot, q, k) # new
    <3>1. PageOn(g, groot, q, k) = PageOn(h, root, q, k) /\ PageOn(g, groot, r, j) = PageOn(h, root, r, j)
      BY <2>1, <2>3
    <3> QED  BY <3>1 DEF Single
  <2> QED  BY <2>2, <2>3
<1>13. ASSUME NEW h, NEW root, NEW q0 \in Paths, NEW l \in Levels, NEW new, NEW g, NEW groot, ZerosKept(h),
              ZerosKept(g), Typed(h, root), Single(h, root), Grafted(h, root, q0, l, new, g, groot),
              \A q \in Paths, k \in Levels : PageOn(g, groot, q, k) = After(h, root, q0, l, new, q, k)
       PROVE  SameWords(g, groot, h, root)
  <2> USE <1>13
  <2> SUFFICES ASSUME NEW q \in Paths, NEW x \in Offsets
               PROVE  Child(g, PageOn(g, groot, q, 0), x) = Child(h, PageOn(h, root, q, 0), x)
    BY DEF SameWords
  <2> DEFINE p == PageOn(h, root, q, 0)
             old == PageOn(h, root, q0, l)
  <2>1. PageOn(g, groot, q, 0) = After(h, root, q0, l, new, q, 0) /\ 0 \in Levels
    BY TopIs
  <2>2. new \in PageIds /\ ~h[new].live /\ g[new].slots = (IF old = Null THEN ZeroSlots(l) ELSE h[old].slots)
    BY DEF Grafted
  <2>3. new # Null
    BY <2>2, NewIs
  <2>4. CASE Agree(q, q0, l) /\ 0 = l
    <3>1. PageOn(g, groot, q, 0) = new
      BY <2>1, <2>4 DEF After
    <3>2. p = old
      BY <2>1, <2>4, Congruent
    <3>3. ZeroSlots(l)[x] = Null
      BY <2>4, TreeAssumption DEF ZeroSlots
    <3> HIDE DEF p, old
    <3>4. Child(g, new, x) = Child(h, p, x)
      BY <2>2, <2>3, <3>2, <3>3 DEF Child
    <3> QED  BY <3>1, <3>4 DEF p
  <2>5. CASE Agree(q, q0, l) /\ 0 < l /\ old = Null
    <3>1. PageOn(g, groot, q, 0) = (IF l \in 1..FoffsetLevels THEN Zero(0) ELSE Null)
      BY <2>1, <2>5 DEF After
    <3>2. PageOn(g, groot, q, 0) \in Blank(0)
      BY <3>1, TreeAssumption DEF Blank
    <3>3. PageOn(h, root, q, l) \in NotFreed /\ 0 <= l
      <4>1. PageOn(h, root, q, l) = Null
        BY <2>5, Congruent
      <4>2. 0 <= l
        BY TopIs DEF Levels
      <4> QED  BY <4>1, <4>2 DEF NotFreed
    <3>4. p \in NotFreed
      BY <2>1, <3>3, <1>6
    <3>5. p \in Blank(0)
      BY <2>1, <3>4, PageIs
    <3> QED  BY <3>2, <3>5, <1>7
  <2>6. CASE ~(Agree(q, q0, l) /\ 0 = l) /\ ~(Agree(q, q0, l) /\ 0 < l /\ old = Null)
    <3>1. PageOn(g, groot, q, 0) = p
      BY <2>1, <2>6 DEF After
    <3>2. l = Top \/ p # PageOn(h, root, q0, l + 1)
      <4>1. CASE l # Top
        <5>1. PageOn(h, root, q0, l + 1) \notin NotFreed
          BY <4>1 DEF Grafted
        <5>2. l + 1 \in Levels /\ 0 # l + 1
          BY <4>1, LevelBelow
        <5> QED  BY <2>1, <5>1, <5>2 DEF Single
      <4> QED  BY <4>1
    <3>3. p # Null => g[p].slots = h[p].slots
      BY <2>1, <3>2, <1>1
    <3>4. Child(g, p, x) = Child(h, p, x)
      <4> HIDE DEF p
      <4> QED  BY <3>3 DEF Child
    <3> QED  BY <3>1, <3>4
  <2> QED  BY <2>4, <2>5, <2>6
<1> SUFFICES ASSUME NEW h \in [PageIds -> Pages], NEW root, NEW q0 \in Paths, NEW l \in Levels, NEW new, NEW g,
                    NEW groot, ZerosKept(h), ZerosKept(g), Typed(h, root), Single(h, root),
                    Grafted(h, root, q0, l, new, g, groot), \A p \in PageIds : p # new => g[p].live = h[p].live,
                    g[new].live
             PROVE  Regrown(h, root, q0, l, new, g, groot)
  OBVIOUS
<1>14. \A q \in Paths, k \in Levels : PageOn(g, groot, q, k) = After(h, root, q0, l, new, q, k)
  BY <1>5
<1>15. new \in PageIds /\ ~h[new].live
  BY DEF Grafted
<1>16. Typed(g, groot)
  BY <1>14, <1>15, <1>11
<1>17. Single(g, groot)
  BY <1>14, <1>15, <1>12
<1>18. SameWords(g, groot, h, root)
  BY <1>14, <1>13
<1>19. Nodes(g, groot) = (Nodes(h, root) \ {PageOn(h, root, q0, l)}) \cup {new}
  BY <1>14, <1>15, <1>10
<1>20. PageOn(g, groot, q0, l) = new
  BY <1>14, <1>9 DEF After
<1> QED  BY <1>16, <1>17, <1>18, <1>19, <1>20 DEF Regrown

-----------------------------------------------------------------------------
(* A word of a page is written *)

\* The tree after the word is written, seen from the tree before.
WordSet(g, groot, h, root, q0, x0, v) ==
  \A q \in Paths, x \in Offsets :
    Child(g, PageOn(g, groot, q, 0), x) =
      IF Agree(q, q0, 0) /\ x = x0 THEN v ELSE Child(h, PageOn(h, root, q, 0), x)

\* g is h but for word x0 of page p0.
Written(h, p0, x0, v, g) ==
  /\ g[p0].slots = [h[p0].slots EXCEPT ![x0] = v]
  /\ \A p \in PageIds : p # p0 => g[p] = h[p]
  /\ \A p \in PageIds : g[p].live = h[p].live /\ g[p].ts = h[p].ts /\ g[p].obs = h[p].obs
  /\ g \in [PageIds -> Pages]

\* Setting one slot does no more than Written says.
LEMMA WriteHeap ==
  ASSUME NEW h \in [PageIds -> Pages], NEW p0 \in PageIds, NEW x0 \in Offsets, NEW v \in Nat
  PROVE  Written(h, p0, x0, v, [h EXCEPT ![p0].slots[x0] = v])
<1> DEFINE s == [h[p0].slots EXCEPT ![x0] = v]
           n == [h[p0] EXCEPT !.slots = s]
           g == [h EXCEPT ![p0] = n]
<1>1. h[p0] \in Pages
  OBVIOUS
<1>2. s \in [Offsets -> Nat]
  BY <1>1 DEF Pages
<1> HIDE DEF s
<1>3. n \in Pages /\ n.slots = s /\ n.live = h[p0].live /\ n.ts = h[p0].ts /\ n.obs = h[p0].obs
  BY <1>1, <1>2 DEF Pages
<1> HIDE DEF n
<1>4. g[p0] = n /\ (\A p \in PageIds : p # p0 => g[p] = h[p]) /\ g \in [PageIds -> Pages]
  BY <1>3
<1>5. g = [h EXCEPT ![p0].slots[x0] = v]
  BY DEF n, s
<1> HIDE DEF g
<1>6. Written(h, p0, x0, v, g)
  BY <1>3, <1>4 DEF Written, s
<1> QED  BY <1>5, <1>6

\* After a word is written on its own page, that word and no other reads anew.
LEMMA Write ==
  ASSUME WellOrdered
  PROVE  \A root, v, g :
         \A h \in [PageIds -> Pages], q0 \in Paths, x0 \in Offsets :
           /\ ZerosKept(h) /\ Typed(h, root) /\ Single(h, root) /\ PageOn(h, root, q0, 0) \notin NotFreed
           /\ Written(h, PageOn(h, root, q0, 0), x0, v, g)
           => /\ ZerosKept(g) /\ Typed(g, root) /\ Single(g, root)
              /\ Nodes(g, root) = Nodes(h, root)
              /\ WordSet(g, root, h, root, q0, x0, v)
<1>1. ASSUME NEW h, NEW root, NEW q0 \in Paths, NEW g, Typed(h, root), Single(h, root),
             PageOn(h, root, q0, 0) \notin NotFreed,
             \A p \in PageIds : p # PageOn(h, root, q0, 0) => g[p].slots = h[p].slots, NEW q \in Paths
      PROVE  \A k \in Levels : PageOn(g, root, q, k) = PageOn(h, root, q, k)
  <2> USE <1>1
  <2> DEFINE A == [k \in Levels |-> PageOn(h, root, q, k)]
  <2>1. A[Top] = root
    BY PageOnTop, TopIs
  <2>2. ASSUME NEW k \in 0..(Top - 1) PROVE A[k] = Child(g, A[k + 1], q[k + 1])
    <3> DEFINE p == PageOn(h, root, q, k + 1)
    <3>1. k \in Levels /\ k + 1 \in Levels /\ 0 \in Levels /\ 0 # k + 1
      BY LevelBelow, TopIs
    <3>2. A[k] = PageOn(h, root, q, k) /\ A[k + 1] = p
      BY <3>1
    <3>3. PageOn(h, root, q, k) = Child(h, p, q[k + 1])
      BY PageOnIs
    <3>4. p # Null => p \in PageIds
      BY <3>1, PageIs
    <3>5. p # PageOn(h, root, q0, 0)
      BY <3>1 DEF Single
    <3> HIDE DEF p, A
    <3> QED  BY <3>2, <3>3, <3>4, <3>5 DEF Child
  <2>3. Walks(A, g, root, q)
    <3> HIDE DEF A
    <3> QED  BY <2>1, <2>2 DEF Walks
  <2>4. \A k \in Levels : PageOn(g, root, q, k) = A[k]
    <3> HIDE DEF A
    <3> QED  BY <2>3, OnlyWalk
  <2> QED  BY <2>4
<1> SUFFICES ASSUME NEW h \in [PageIds -> Pages], NEW root, NEW q0 \in Paths, NEW x0 \in Offsets, NEW v, NEW g,
                    ZerosKept(h), Typed(h, root), Single(h, root), PageOn(h, root, q0, 0) \notin NotFreed,
                    Written(h, PageOn(h, root, q0, 0), x0, v, g)
             PROVE  /\ ZerosKept(g) /\ Typed(g, root) /\ Single(g, root)
                    /\ Nodes(g, root) = Nodes(h, root)
                    /\ WordSet(g, root, h, root, q0, x0, v)
  OBVIOUS
<1> DEFINE p0 == PageOn(h, root, q0, 0)
<1>2. 0 \in Levels /\ p0 \in PageIds
  BY PageIs, TopIs DEF NotFreed
<1>3. h[p0] \in Pages
  BY <1>2
<1>4. /\ g[p0].slots = [h[p0].slots EXCEPT ![x0] = v] /\ h[p0].slots \in [Offsets -> Nat]
      /\ \A p \in PageIds : p # p0 => g[p] = h[p]
      /\ \A p \in PageIds : g[p].live = h[p].live
  <2>1. h[p0].slots \in [Offsets -> Nat]
    BY <1>3 DEF Pages
  <2> QED  BY <2>1 DEF Written
<1>5. \A p \in PageIds : p # p0 => g[p].slots = h[p].slots
  BY <1>4
<1>6. \A q \in Paths, k \in Levels : PageOn(g, root, q, k) = PageOn(h, root, q, k)
  BY <1>5, <1>1
<1>7. ZerosKept(g)
  <2>1. \A p \in ZeroPages : p \in PageIds /\ p # p0
    BY ZeroIs DEF NotFreed
  <2> QED  BY <1>4, <2>1, ZeroIs DEF ZerosKept
<1>8. Live(g) = Live(h)
  BY <1>4 DEF Live
<1>9. Typed(g, root)
  BY <1>6, <1>8 DEF Typed
<1>10. Single(g, root)
  BY <1>6, ZenonT(20) DEF Single
<1>11. Nodes(g, root) = Nodes(h, root)
  BY <1>6 DEF Nodes
<1>12. ASSUME NEW q \in Paths, NEW x \in Offsets
       PROVE  Child(g, PageOn(g, root, q, 0), x) =
                IF Agree(q, q0, 0) /\ x = x0 THEN v ELSE Child(h, PageOn(h, root, q, 0), x)
  <2> DEFINE p == PageOn(h, root, q, 0)
  <2>1. PageOn(g, root, q, 0) = p
    BY <1>2, <1>6
  <2>2. Agree(q, q0, 0) <=> p = p0
    <3>1. Agree(q, q0, 0) => p = p0
      BY <1>2, Congruent
    <3>2. p = p0 => Agree(q, q0, 0)
      BY <1>2 DEF Single
    <3> QED  BY <3>1, <3>2
  <2>3. p # Null => p \in PageIds
    BY <1>2, PageIs
  <2>4. p0 # Null
    BY DEF NotFreed
  <2> HIDE DEF p, p0
  <2>5. CASE p = p0
    <3>1. Child(g, p, x) = [h[p0].slots EXCEPT ![x0] = v][x]
      BY <1>4, <2>4, <2>5 DEF Child
    <3>2. Child(h, p, x) = h[p0].slots[x]
      BY <2>4, <2>5 DEF Child
    <3>3. Child(g, p, x) = IF x = x0 THEN v ELSE Child(h, p, x)
      BY <1>4, <3>1, <3>2
    <3> QED  BY <2>1, <2>2, <2>5, <3>3 DEF p
  <2>6. CASE p # p0
    <3>1. Child(g, p, x) = Child(h, p, x)
      BY <1>4, <2>3, <2>6 DEF Child
    <3> QED  BY <2>1, <2>2, <2>6, <3>1 DEF p
  <2> QED  BY <2>5, <2>6
<1>13. WordSet(g, root, h, root, q0, x0, v)
  BY <1>12 DEF WordSet
<1> QED  BY <1>7, <1>9, <1>10, <1>11, <1>13

-----------------------------------------------------------------------------
(* One turn of the loop: the heap *)

\* The allocator hands out a page that is free.
LEMMA MinIs ==
  ASSUME WellOrdered, NEW T \in SUBSET PageIds, T # {}
  PROVE  Min(T) \in T
<1>1. T \in SUBSET Nat
  BY TreeAssumption DEF PageIds
<1>2. \E x \in T : \A y \in T : x <= y
  BY <1>1 DEF WellOrdered
<1> QED  BY <1>2 DEF Min

\* What a zero page holds is what a page may hold.
LEMMA ZeroSlotsType ==
  \A l \in Levels : ZeroSlots(l) \in [Offsets -> Nat]
<1> SUFFICES ASSUME NEW l \in Levels PROVE ZeroSlots(l) \in [Offsets -> Nat]
  OBVIOUS
<1>1. Null \in Nat /\ (l \in 1..FoffsetLevels => Zero(l - 1) \in Nat)
  BY TopIs DEF Null, Zero, Levels
<1> QED  BY <1>1 DEF ZeroSlots

\* What a turn finds and does, as in CopyLevel.
Reuse(w, cts) == w.here # Null /\ Owned(w.h, w.here, cts)
Ends(w, cts) == w.here \notin NotFreed /\ ~Reuse(w, cts)
New(w, cts) == IF Reuse(w, cts) THEN w.here ELSE Min(PageIds \ Live(w.h))
Marked(w, cts) == IF Ends(w, cts) THEN EndLifetime(w.h, w.here, cts) ELSE w.h
Contents(w, l) == IF w.here = Null THEN ZeroSlots(l) ELSE w.h[w.here].slots
Copied(w, l, cts) ==
  IF Reuse(w, cts) THEN w.h ELSE [Marked(w, cts) EXCEPT ![New(w, cts)] = NewPage(cts, Contents(w, l))]
Filled(w, l, a, value, cts) ==
  IF l = 0 /\ value # Null THEN [Copied(w, l, cts) EXCEPT ![New(w, cts)].slots[a.word] = value]
  ELSE Copied(w, l, cts)
Revealed(w, l, a, value, cts) ==
  IF w.parent = Null THEN Filled(w, l, a, value, cts)
  ELSE [Filled(w, l, a, value, cts) EXCEPT ![w.parent].slots[Offset(a, l + 1)] = New(w, cts)]
NoPage(w, l, cts, f) ==
  ~Reuse(w, cts) /\ (PageIds \ Live(w.h) = {} \/ f = [kind |-> "page", level |-> l])
NoRecord(w, l, cts, f) == Ends(w, cts) /\ f = [kind |-> "obsolete", level |-> l]
Turned(w, l, a, value, cts) ==
  [w EXCEPT !.h = Revealed(w, l, a, value, cts),
            !.root = IF l = Top THEN New(w, cts) ELSE @,
            !.here = IF l = 0 THEN Null ELSE Revealed(w, l, a, value, cts)[New(w, cts)].slots[Offset(a, l)],
            !.parent = New(w, cts),
            !.olds = IF Ends(w, cts) THEN Append(@, w.here) ELSE @]

\* CopyLevel, by its four outcomes.
LEMMA TurnIs ==
  ASSUME NEW w, NEW l, NEW a, NEW value, NEW cts, NEW f
  PROVE  CopyLevel(w, l, a, value, cts, f) =
           IF ~w.ok THEN w
           ELSE IF NoPage(w, l, cts, f) THEN [w EXCEPT !.ok = FALSE]
           ELSE IF NoRecord(w, l, cts, f) THEN [w EXCEPT !.ok = FALSE, !.h = Marked(w, cts)]
           ELSE Turned(w, l, a, value, cts)
BY DEF CopyLevel, Reuse, Ends, New, Marked, Contents, Copied, Filled, Revealed, NoPage, NoRecord, Turned

\* Pages change in obs only, and only the one that is replaced.
MarkedOnly(h, old, cts, g) ==
  /\ g \in [PageIds -> Pages]
  /\ \A p \in PageIds : g[p].live = h[p].live /\ g[p].ts = h[p].ts /\ g[p].slots = h[p].slots
  /\ \A p \in PageIds : p # old => g[p].obs = h[p].obs
  /\ old \in PageIds => g[old].obs = cts

\* Ending a lifetime does no more than MarkedOnly says.
LEMMA EndLifetimeIs ==
  ASSUME NEW h \in [PageIds -> Pages], NEW old \in PageIds, NEW cts \in Versions
  PROVE  MarkedOnly(h, old, cts, EndLifetime(h, old, cts))
<1> DEFINE n == [h[old] EXCEPT !.obs = cts]
           g == [h EXCEPT ![old] = n]
<1>1. h[old] \in Pages
  OBVIOUS
<1>2. n \in Pages /\ n.slots = h[old].slots /\ n.live = h[old].live /\ n.ts = h[old].ts /\ n.obs = cts
  BY <1>1 DEF Pages
<1>3. EndLifetime(h, old, cts) = g
  BY DEF EndLifetime
<1> HIDE DEF n
<1>4. g[old] = n /\ (\A p \in PageIds : p # old => g[p] = h[p]) /\ g \in [PageIds -> Pages]
  BY <1>2
<1> HIDE DEF g
<1>5. MarkedOnly(h, old, cts, g)
  BY <1>2, <1>4 DEF MarkedOnly
<1> QED  BY <1>3, <1>5

\* The heap with new in the place of old, below parent.
Replaced(h, old, parent, i, new, s, cts, ends, g) ==
  /\ g \in [PageIds -> Pages]
  /\ g[new].live /\ g[new].ts = cts /\ g[new].slots = s
  /\ \A p \in PageIds : p # new => g[p].live = h[p].live /\ g[p].ts = h[p].ts
  /\ \A p \in PageIds : p # new /\ ~(ends /\ p = old) => g[p].obs = h[p].obs
  /\ \A p \in PageIds : p # new /\ p # parent => g[p].slots = h[p].slots
  /\ ends => g[old].obs = cts
  /\ parent # Null => g[parent].slots = [h[parent].slots EXCEPT ![i] = new]

-----------------------------------------------------------------------------
(* One turn of the loop: the tree *)

\* A heap with a tree in it.
Tree(h, root) == h \in [PageIds -> Pages] /\ ZerosKept(h) /\ Typed(h, root) /\ Single(h, root)

\* The pages that were allocated: they stay allocated, those of other checkpoints hold
\* what they held, and those of other trees keep their lifetime.
OthersKept(h0, r0, cts, h) ==
  /\ \A p \in PageIds : h0[p].live =>
       h[p].live /\ h[p].ts = h0[p].ts /\ (h0[p].ts # cts => h[p].slots = h0[p].slots)
  /\ \A p \in PageIds : h0[p].live /\ p \notin Nodes(h0, r0) => h[p].obs = h0[p].obs

\* The pages of the tree are old ones and new ones, and no new page is anywhere else.
NodesKnown(h0, r0, cts, h, root) ==
  /\ \A p \in PageIds : ~h0[p].live /\ h[p].live => h[p].ts = cts /\ p \in Nodes(h, root)
  /\ \A p \in Nodes(h, root) : p \in Nodes(h0, r0) \/ ~h0[p].live

\* The pages that left the tree, each once.
OldsKnown(h0, r0, cts, h, root, olds) ==
  /\ olds \in Seq(PageIds)
  /\ \A i, j \in DOMAIN olds : olds[i] = olds[j] => i = j
  /\ {olds[i] : i \in DOMAIN olds} = Nodes(h0, r0) \ Nodes(h, root)
  /\ \A i \in DOMAIN olds : h[olds[i]].obs = cts /\ h0[olds[i]].ts # cts

WFields(w) ==
  w = [h |-> w.h, root |-> w.root, here |-> w.here, parent |-> w.parent, olds |-> w.olds, ok |-> w.ok]

Grown(h0, r0, cts, w) ==
  /\ WFields(w) /\ Tree(w.h, w.root) /\ OthersKept(h0, r0, cts, w.h)
  /\ NodesKnown(h0, r0, cts, w.h, w.root) /\ OldsKnown(h0, r0, cts, w.h, w.root, w.olds)

\* The walk has come to level l.
Position(w, l, q, cts) ==
  /\ w.here = PageOn(w.h, w.root, q, l)
  /\ l = Top => w.parent = Null
  /\ l # Top => /\ w.parent = PageOn(w.h, w.root, q, l + 1) /\ w.parent # Null
                /\ w.parent \notin NotFreed => w.h[w.parent].ts = cts
                /\ w.parent \in NotFreed => cts = 0

\* The page at hand.
LEMMA HereIs ==
  ASSUME NEW w, NEW l \in Levels, NEW q \in Paths, NEW cts, Tree(w.h, w.root), Position(w, l, q, cts)
  PROVE  /\ w.here \in PageIds \cup {Null} /\ (w.here # Null => w.h[w.here].live)
         /\ w.here \notin NotFreed => w.here \in Nodes(w.h, w.root)
         /\ w.parent = Null \/ (w.parent \in PageIds /\ w.h[w.parent].live)
<1>1. w.here = PageOn(w.h, w.root, q, l) /\ Typed(w.h, w.root) /\ ZerosKept(w.h)
  BY DEF Position, Tree
<1>2. \A p \in ZeroPages : w.h[p].live
  BY <1>1, ZeroIs DEF ZerosKept
<1>3. /\ w.here # Null => w.here \in PageIds
      /\ w.here \notin NotFreed => w.here \in Nodes(w.h, w.root) /\ w.h[w.here].live
  BY <1>1, PageIs
<1>4. w.here # Null => w.h[w.here].live
  BY <1>2, <1>3 DEF NotFreed
<1>5. w.parent = Null \/ (w.parent \in PageIds /\ w.h[w.parent].live)
  <2>1. CASE l = Top
    BY <2>1 DEF Position
  <2>2. CASE l # Top
    <3>1. l + 1 \in Levels
      BY <2>2, LevelBelow
    <3>2. w.parent = PageOn(w.h, w.root, q, l + 1)
      BY <2>2 DEF Position
    <3>3. /\ w.parent # Null => w.parent \in PageIds
          /\ w.parent \notin NotFreed => w.h[w.parent].live
      BY <1>1, <3>1, <3>2, PageIs
    <3> QED  BY <1>2, <3>3 DEF NotFreed
  <2> QED  BY <2>1, <2>2
<1> QED  BY <1>3, <1>4, <1>5

\* The fields of the walk after a turn that goes well.
IsTurned(n, w, l, a, value, cts) ==
  /\ WFields(n) /\ n.ok = w.ok
  /\ n.h = Revealed(w, l, a, value, cts)
  /\ n.root = (IF l = Top THEN New(w, cts) ELSE w.root)
  /\ n.here = (IF l = 0 THEN Null ELSE Revealed(w, l, a, value, cts)[New(w, cts)].slots[Offset(a, l)])
  /\ n.parent = New(w, cts)
  /\ n.olds = (IF Ends(w, cts) THEN Append(w.olds, w.here) ELSE w.olds)

\* What a turn that goes well does to the fields of the walk.
LEMMA TurnedIs ==
  ASSUME NEW w, WFields(w), NEW l, NEW a, NEW value, NEW cts
  PROVE  IsTurned(Turned(w, l, a, value, cts), w, l, a, value, cts)
<1> DEFINE n == Turned(w, l, a, value, cts)
           g == Revealed(w, l, a, value, cts)
           new == New(w, cts)
           root == IF l = Top THEN New(w, cts) ELSE w.root
           here == IF l = 0 THEN Null ELSE Revealed(w, l, a, value, cts)[New(w, cts)].slots[Offset(a, l)]
           olds == IF Ends(w, cts) THEN Append(w.olds, w.here) ELSE w.olds
<1>1. n = [w EXCEPT !.h = g, !.root = root, !.here = here, !.parent = new, !.olds = olds]
  BY DEF Turned
<1> HIDE DEF n, g, new, root, here, olds
<1>2. /\ n.ok = w.ok /\ n.h = g /\ n.root = root /\ n.here = here /\ n.parent = new /\ n.olds = olds
      /\ WFields(n)
  BY <1>1 DEF WFields
<1> QED  BY <1>2 DEF n, g, new, root, here, olds, IsTurned

RootAfter(w, l, cts) == IF l = Top THEN New(w, cts) ELSE w.root

\* The page of level l, which the turn leaves as parent, is the checkpoint's own.
OwnNow(w, l, q, cts) ==
  /\ w.parent = PageOn(w.h, w.root, q, l) /\ w.parent # Null
  /\ w.parent \in NotFreed => cts = 0
  /\ w.parent \notin NotFreed => w.h[w.parent].ts = cts

\* A turn that goes well, from w to n: the words stay, and the page of level l is the checkpoint's own.
Turns(h0, r0, cts, w, l, a, n) ==
  /\ Grown(h0, r0, cts, n) /\ SameWords(n.h, n.root, w.h, w.root)
  /\ OwnNow(n, l, Route(a), cts)
  /\ l # 0 => n.here = n.h[n.parent].slots[Offset(a, l)]

\* A tree holds the words it holds.
LEMMA SameWordsSelf ==
  \A h, root : SameWords(h, root, h, root)
BY DEF SameWords

\* One turn that writes no word.
LEMMA Turn ==
  ASSUME WellOrdered
  PROVE  \A h0, r0, w, a, value, f :
         \A cts \in Versions, l \in Levels :
           /\ Route(a) \in Paths /\ Typed(h0, r0) /\ Grown(h0, r0, cts, w)
           /\ (w.ok => Position(w, l, Route(a), cts)) /\ ~(l = 0 /\ value # Null)
           => LET n == CopyLevel(w, l, a, value, cts, f)
              IN /\ Grown(h0, r0, cts, n) /\ SameWords(n.h, n.root, w.h, w.root)
                 /\ n.ok => OwnNow(n, l, Route(a), cts)
                 /\ n.ok /\ l # 0 => Position(n, l - 1, Route(a), cts)
<1>1. ASSUME NEW w, NEW l \in Levels, NEW a, NEW value, NEW cts \in Versions, ~(l = 0 /\ value # Null),
             w.h \in [PageIds -> Pages], w.here \in PageIds \cup {Null},
             w.parent = Null \/ (w.parent \in PageIds /\ w.h[w.parent].live), ~Reuse(w, cts),
             PageIds \ Live(w.h) # {}, w.here # Null => w.h[w.here].live,
             w.parent # Null => Offset(a, l + 1) \in Offsets
      PROVE  /\ New(w, cts) \in PageIds /\ ~w.h[New(w, cts)].live
             /\ Replaced(w.h, w.here, w.parent, Offset(a, l + 1), New(w, cts), Contents(w, l), cts,
                         Ends(w, cts), Revealed(w, l, a, value, cts))
  <2> USE <1>1
  <2> DEFINE h == w.h
             old == w.here
             parent == w.parent
             new == New(w, cts)
             s == Contents(w, l)
             m == Marked(w, cts)
             c == [m EXCEPT ![new] = NewPage(cts, s)]
             i == Offset(a, l + 1)
  <2>1. new \in PageIds /\ ~h[new].live
    <3>1. new \in PageIds \ Live(h)
      BY MinIs DEF New
    <3> QED  BY <3>1 DEF Live
  <2>2. s \in [Offsets -> Nat]
    <3>1. old # Null => h[old].slots \in [Offsets -> Nat]
      BY DEF Pages
    <3> QED  BY <3>1, ZeroSlotsType DEF Contents
  <2>3. /\ m \in [PageIds -> Pages]
        /\ \A p \in PageIds : m[p].live = h[p].live /\ m[p].ts = h[p].ts /\ m[p].slots = h[p].slots
        /\ \A p \in PageIds : ~(Ends(w, cts) /\ p = old) => m[p].obs = h[p].obs
        /\ Ends(w, cts) => m[old].obs = cts /\ old \in PageIds
    <3>1. CASE Ends(w, cts)
      <4>1. old \in PageIds
        BY <3>1 DEF Ends, NotFreed
      <4>2. MarkedOnly(h, old, cts, m)
        BY <3>1, <4>1, EndLifetimeIs DEF Marked
      <4> HIDE DEF m, old, h
      <4> QED  BY <3>1, <4>1, <4>2 DEF MarkedOnly
    <3>2. CASE ~Ends(w, cts)
      BY <3>2 DEF Marked
    <3> QED  BY <3>1, <3>2
  <2>4. Revealed(w, l, a, value, cts) = IF parent = Null THEN c ELSE [c EXCEPT ![parent].slots[i] = new]
    BY DEF Revealed, Filled, Copied
  <2>5. parent # Null => parent # new /\ parent \in PageIds
    BY <2>1
  <2>6. Ends(w, cts) => old # new
    <3>1. Ends(w, cts) => old # Null
      BY DEF Ends, NotFreed
    <3> QED  BY <2>1, <3>1
  <2>7. NewPage(cts, s) \in Pages
    BY <2>2 DEF NewPage, Pages
  <2>8. NewPage(cts, s).live /\ NewPage(cts, s).ts = cts /\ NewPage(cts, s).slots = s
    BY DEF NewPage
  <2>9. new \in Nat /\ (parent # Null => i \in Offsets)
    BY <2>1, TreeAssumption DEF PageIds
  <2> HIDE DEF h, old, parent, new, s, m, i
  <2>10. c \in [PageIds -> Pages] /\ c[new] = NewPage(cts, s) /\ \A p \in PageIds : p # new => c[p] = m[p]
    BY <2>1, <2>3, <2>7
  <2> HIDE DEF c
  <2>11. Replaced(h, old, Null, i, new, s, cts, Ends(w, cts), c)
    BY <2>1, <2>3, <2>6, <2>8, <2>10, ZenonT(20) DEF Replaced
  <2>12. CASE parent = Null
    BY <2>1, <2>4, <2>11, <2>12 DEF h, old, parent, new, s, i
  <2>13. CASE parent # Null
    <3> DEFINE g == [c EXCEPT ![parent].slots[i] = new]
    <3>1. Written(c, parent, i, new, g)
      BY <2>5, <2>9, <2>10, <2>13, WriteHeap
    <3> HIDE DEF g
    <3>2. c[parent].slots = h[parent].slots
      BY <2>3, <2>5, <2>10, <2>13
    <3>3. Replaced(h, old, parent, i, new, s, cts, Ends(w, cts), g)
      <4>1. g \in [PageIds -> Pages] /\ g[parent].slots = [h[parent].slots EXCEPT ![i] = new]
        BY <3>1, <3>2 DEF Written
      <4>2. /\ \A p \in PageIds : p # parent => g[p] = c[p]
            /\ \A p \in PageIds : g[p].live = c[p].live /\ g[p].ts = c[p].ts /\ g[p].obs = c[p].obs
        BY <3>1 DEF Written
      <4>3. g[new].live /\ g[new].ts = cts /\ g[new].slots = s
        BY <2>1, <2>5, <2>11, <2>13, <4>2 DEF Replaced
      <4>4. \A p \in PageIds : p # new => g[p].live = h[p].live /\ g[p].ts = h[p].ts
        BY <2>11, <4>2 DEF Replaced
      <4>5. /\ \A p \in PageIds : p # new /\ ~(Ends(w, cts) /\ p = old) => g[p].obs = h[p].obs
            /\ Ends(w, cts) => g[old].obs = cts
        BY <2>3, <2>11, <4>2 DEF Replaced
      <4>6. \A p \in PageIds : p # new /\ p # parent => g[p].slots = h[p].slots
        <5>1. \A p \in PageIds : p # new => c[p].slots = h[p].slots
          BY <2>3, <2>10
        <5> QED  BY <4>2, <5>1
      <4> QED  BY <4>1, <4>3, <4>4, <4>5, <4>6 DEF Replaced
    <3> QED  BY <2>1, <2>4, <2>13, <3>3 DEF g, h, old, parent, new, s, i
  <2> QED  BY <2>12, <2>13
\* A page that is replaced and freed one day was in the tree at the start.
<1>2. ASSUME NEW h0, NEW r0, NEW cts, NEW w, NEW l \in Levels, NEW q \in Paths, Grown(h0, r0, cts, w),
             Position(w, l, q, cts), Ends(w, cts)
      PROVE  /\ w.here \in PageIds /\ w.here \in Nodes(w.h, w.root) /\ w.here \in Nodes(h0, r0)
             /\ h0[w.here].live /\ h0[w.here].ts # cts /\ \A i \in DOMAIN w.olds : w.olds[i] # w.here
  <2> USE <1>2
  <2>1. w.here \notin NotFreed /\ ~Reuse(w, cts) /\ Tree(w.h, w.root)
    BY DEF Ends, Grown
  <2>2. w.here \in PageIds /\ w.here \in Nodes(w.h, w.root) /\ w.h[w.here].live
    BY <2>1, HereIs DEF NotFreed
  <2>3. w.h[w.here].ts # cts
    BY <2>1 DEF Reuse, Owned, NotFreed
  <2>4. h0[w.here].live
    BY <2>2, <2>3 DEF Grown, NodesKnown
  <2>5. w.here \in Nodes(h0, r0)
    BY <2>2, <2>4 DEF Grown, NodesKnown
  <2>6. h0[w.here].ts # cts
    BY <2>2, <2>3, <2>4 DEF Grown, OthersKept
  <2>7. \A i \in DOMAIN w.olds : w.olds[i] # w.here
    BY <2>2 DEF Grown, OldsKnown
  <2> QED  BY <2>2, <2>4, <2>5, <2>6, <2>7
\* There is no memory for the page.
<1>3. ASSUME NEW h0, NEW r0, NEW cts, NEW w, Grown(h0, r0, cts, w)
      PROVE  LET n == [w EXCEPT !.ok = FALSE]
             IN Grown(h0, r0, cts, n) /\ n.h = w.h /\ n.root = w.root /\ ~n.ok
  <2> USE <1>3
  <2> DEFINE n == [w EXCEPT !.ok = FALSE]
  <2>1. /\ n.h = w.h /\ n.root = w.root /\ n.olds = w.olds /\ ~n.ok /\ WFields(n)
    <3>1. WFields(w)
      BY DEF Grown
    <3>2. n = [w EXCEPT !.ok = FALSE]
      OBVIOUS
    <3> HIDE DEF n
    <3> QED  BY <3>1, <3>2 DEF WFields
  <2> HIDE DEF n
  <2>2. Grown(h0, r0, cts, n)
    BY <2>1 DEF Grown
  <2> QED  BY <2>1, <2>2 DEF n
\* There is none to record that the old page ends: the mark stays on it.
<1>4. ASSUME NEW h0, NEW r0, NEW cts \in Versions, NEW w, NEW l \in Levels, NEW q \in Paths,
             Grown(h0, r0, cts, w), Position(w, l, q, cts), Ends(w, cts)
      PROVE  LET n == [w EXCEPT !.ok = FALSE, !.h = Marked(w, cts)]
             IN Grown(h0, r0, cts, n) /\ SameWords(n.h, n.root, w.h, w.root) /\ ~n.ok
  <2> USE <1>4
  <2> DEFINE n == [w EXCEPT !.ok = FALSE, !.h = Marked(w, cts)]
             m == Marked(w, cts)
  <2>1. /\ n.h = m /\ n.root = w.root /\ n.olds = w.olds /\ ~n.ok /\ WFields(n)
    <3>1. WFields(w)
      BY DEF Grown
    <3> HIDE DEF m
    <3>2. n = [w EXCEPT !.ok = FALSE, !.h = m]
      BY DEF m
    <3> HIDE DEF n
    <3> QED  BY <3>1, <3>2 DEF WFields
  <2> HIDE DEF n
  <2>2. /\ w.here \in PageIds /\ w.here \in Nodes(h0, r0) /\ \A i \in DOMAIN w.olds : w.olds[i] # w.here
    BY <1>2
  <2>3. Tree(w.h, w.root)
    BY DEF Grown
  <2>4. MarkedOnly(w.h, w.here, cts, m)
    BY <2>2, <2>3, EndLifetimeIs DEF Marked, Tree
  <2> HIDE DEF m
  <2>5. /\ m \in [PageIds -> Pages]
        /\ \A p \in PageIds : m[p].live = w.h[p].live /\ m[p].ts = w.h[p].ts /\ m[p].slots = w.h[p].slots
        /\ \A p \in PageIds : p # w.here => m[p].obs = w.h[p].obs
    BY <2>4 DEF MarkedOnly
  <2>6. ZerosKept(m)
    <3>1. \A k \in 0..(FoffsetLevels - 1) : Zero(k) \in PageIds
      BY ZeroIs
    <3> QED  BY <2>3, <2>5, <3>1 DEF Tree, ZerosKept
  <2>7. \A p \in Nodes(w.h, w.root) : p \in PageIds /\ w.h[p].live
    BY <2>3, PageIs DEF Tree, Nodes, NotFreed
  <2>8. /\ Typed(m, w.root) /\ Single(m, w.root) /\ Nodes(m, w.root) = Nodes(w.h, w.root)
        /\ SameWords(m, w.root, w.h, w.root)
    BY <2>3, <2>5, <2>6, <2>7, Frame DEF Tree
  <2>9. Tree(m, w.root)
    BY <2>5, <2>6, <2>8 DEF Tree
  <2>10. OthersKept(h0, r0, cts, m)
    <3>1. OthersKept(h0, r0, cts, w.h)
      BY DEF Grown
    <3>2. \A p \in PageIds : h0[p].live =>
         m[p].live /\ m[p].ts = h0[p].ts /\ (h0[p].ts # cts => m[p].slots = h0[p].slots)
      BY <2>5, <3>1 DEF OthersKept
    <3>3. \A p \in PageIds : h0[p].live /\ p \notin Nodes(h0, r0) => m[p].obs = h0[p].obs
      BY <2>2, <2>5, <3>1 DEF OthersKept
    <3> QED  BY <3>2, <3>3 DEF OthersKept
  <2>11. NodesKnown(h0, r0, cts, m, w.root)
    <3>1. NodesKnown(h0, r0, cts, w.h, w.root)
      BY DEF Grown
    <3> QED  BY <2>5, <2>8, <3>1 DEF NodesKnown
  <2>12. OldsKnown(h0, r0, cts, m, w.root, w.olds)
    <3>1. OldsKnown(h0, r0, cts, w.h, w.root, w.olds)
      BY DEF Grown
    <3>2. \A i \in DOMAIN w.olds : w.olds[i] \in PageIds
      BY <3>1 DEF OldsKnown
    <3>3. \A i \in DOMAIN w.olds : m[w.olds[i]].obs = cts
      BY <2>2, <2>5, <3>1, <3>2 DEF OldsKnown
    <3> QED  BY <2>8, <3>1, <3>3 DEF OldsKnown
  <2>13. Grown(h0, r0, cts, n)
    BY <2>1, <2>9, <2>10, <2>11, <2>12 DEF Grown
  <2> QED  BY <2>1, <2>8, <2>13 DEF n
\* Writing what is there already.
<1>5. ASSUME NEW h \in [PageIds -> Pages], NEW p \in PageIds, NEW i \in Offsets, NEW v, h[p].slots[i] = v
      PROVE  [h EXCEPT ![p].slots[i] = v] = h
  <2> USE <1>5
  <2>1. h[p] \in Pages
    OBVIOUS
  <2>2. h[p].slots \in [Offsets -> Nat]
    BY <2>1 DEF Pages
  <2> DEFINE s == [h[p].slots EXCEPT ![i] = v]
             n == [h[p] EXCEPT !.slots = s]
  <2>3. s = h[p].slots
    BY <2>2
  <2> HIDE DEF s
  <2>4. n = h[p]
    BY <2>1, <2>3 DEF Pages
  <2> HIDE DEF n
  <2>5. [h EXCEPT ![p] = n] = h
    BY <2>4
  <2> QED  BY <2>5 DEF n, s
\* The page is the checkpoint's own: nothing changes.
<1>6. ASSUME NEW cts, NEW w, NEW a, NEW value, NEW l \in Levels, Route(a) \in Paths, Tree(w.h, w.root),
             Position(w, l, Route(a), cts), Reuse(w, cts), ~(l = 0 /\ value # Null)
      PROVE  Revealed(w, l, a, value, cts) = w.h /\ (l = Top => w.here = w.root)
  <2> USE <1>6
  <2> DEFINE q == Route(a)
  <2>1. l = Top => w.here = w.root
    BY PageOnTop DEF Position
  <2>2. New(w, cts) = w.here /\ Filled(w, l, a, value, cts) = w.h
    BY DEF New, Filled, Copied
  <2>3. CASE w.parent = Null
    BY <2>1, <2>2, <2>3 DEF Revealed
  <2>4. CASE w.parent # Null
    <3>1. l # Top /\ w.parent = PageOn(w.h, w.root, q, l + 1) /\ w.here = PageOn(w.h, w.root, q, l)
      BY <2>4 DEF Position
    <3>2. l \in 0..(Top - 1) /\ l + 1 \in 1..Top
      BY <3>1, LevelBelow
    <3>3. w.here = Child(w.h, w.parent, q[l + 1])
      BY <3>1, <3>2, PageOnIs
    <3>4. q[l + 1] = Offset(a, l + 1) /\ q[l + 1] \in Offsets
      BY <3>2 DEF Route, Paths
    <3>5. w.h[w.parent].slots[Offset(a, l + 1)] = w.here
      BY <2>4, <3>3, <3>4 DEF Child
    <3>6. w.parent \in PageIds /\ w.h \in [PageIds -> Pages]
      BY <2>4, HereIs DEF Tree
    <3>7. [w.h EXCEPT ![w.parent].slots[Offset(a, l + 1)] = w.here] = w.h
      BY <3>4, <3>5, <3>6, <1>5
    <3> QED  BY <2>1, <2>2, <2>4, <3>7 DEF Revealed
  <2> QED  BY <2>3, <2>4
<1>7. ASSUME NEW h0, NEW r0, NEW cts, NEW w, NEW a, NEW value, NEW l \in Levels, Route(a) \in Paths,
             Grown(h0, r0, cts, w), Position(w, l, Route(a), cts), Reuse(w, cts), ~(l = 0 /\ value # Null)
      PROVE  Turns(h0, r0, cts, w, l, a, Turned(w, l, a, value, cts))
  <2> USE <1>7
  <2> DEFINE n == Turned(w, l, a, value, cts)
             q == Route(a)
  <2>1. WFields(w) /\ Tree(w.h, w.root)
    BY DEF Grown
  <2>2. Revealed(w, l, a, value, cts) = w.h /\ (l = Top => w.here = w.root) /\ New(w, cts) = w.here /\ ~Ends(w, cts)
    BY <2>1, <1>6 DEF New, Ends
  <2>3. IsTurned(n, w, l, a, value, cts)
    BY <2>1, TurnedIs
  <2> HIDE DEF n
  <2>4. /\ WFields(n) /\ n.h = w.h /\ n.root = w.root /\ n.parent = w.here /\ n.olds = w.olds
        /\ l # 0 => n.here = w.h[w.here].slots[Offset(a, l)]
    BY <2>2, <2>3 DEF IsTurned
  <2>5. Grown(h0, r0, cts, n)
    BY <2>4 DEF Grown
  <2>6. w.here = PageOn(w.h, w.root, q, l) /\ w.here # Null
    BY DEF Position, Reuse
  <2>7. /\ w.here \in NotFreed => cts = 0
        /\ w.here \notin NotFreed => w.h[w.here].ts = cts
    BY <2>6 DEF Reuse, Owned, NotFreed
  <2>8. OwnNow(n, l, q, cts)
    BY <2>4, <2>6, <2>7 DEF OwnNow
  <2>9. SameWords(n.h, n.root, w.h, w.root)
    BY <2>4, SameWordsSelf
  <2>10. Turns(h0, r0, cts, w, l, a, n)
    BY <2>4, <2>5, <2>8, <2>9 DEF Turns
  <2> QED  BY <2>10 DEF n
\* The parent of a page that is replaced is the checkpoint's own and no zero page.
<1>8. ASSUME NEW cts, NEW w, NEW l \in Levels, NEW q \in Paths, Tree(w.h, w.root), Position(w, l, q, cts),
             ~Reuse(w, cts), l # Top
      PROVE  /\ w.parent = PageOn(w.h, w.root, q, l + 1) /\ w.parent \notin NotFreed
             /\ w.parent \in PageIds /\ w.h[w.parent].ts = cts
  <2> USE <1>8
  <2>1. /\ w.parent = PageOn(w.h, w.root, q, l + 1) /\ w.parent # Null /\ w.here = PageOn(w.h, w.root, q, l)
        /\ w.parent \notin NotFreed => w.h[w.parent].ts = cts
        /\ w.parent \in NotFreed => cts = 0
    BY DEF Position
  <2>2. l \in 0..(Top - 1) /\ l + 1 \in Levels /\ l + 1 \in 1..Top
    BY LevelBelow
  <2>3. Typed(w.h, w.root) /\ ZerosKept(w.h)
    BY DEF Tree
  <2>4. w.parent \in PageIds
    BY <2>1, HereIs
  <2>5. w.parent \notin NotFreed
    <3> SUFFICES ASSUME w.parent \in NotFreed PROVE FALSE
      OBVIOUS
    <3>1. w.parent \in Blank(l + 1) /\ cts = 0
      BY <2>1, <2>2, <2>3, PageIs
    <3>2. l + 1 \in 0..(FoffsetLevels - 1) /\ w.parent = Zero(l + 1)
      BY <2>1, <2>2, <3>1, BlankIs
    <3>3. w.h[w.parent].slots = ZeroSlots(l + 1)
      BY <2>3, <3>2 DEF ZerosKept
    <3>4. l + 1 \in 1..FoffsetLevels /\ (l + 1) - 1 = l /\ l \in 0..(FoffsetLevels - 1)
      BY <2>2, <3>2, TreeAssumption
    <3>5. q[l + 1] \in Offsets
      BY <2>2 DEF Paths
    <3>6. w.here = Child(w.h, w.parent, q[l + 1])
      BY <2>1, <2>2, PageOnIs
    <3>7. w.here = ZeroSlots(l + 1)[q[l + 1]]
      BY <2>1, <3>3, <3>6 DEF Child
    <3>8. w.here = Zero(l)
      BY <3>4, <3>5, <3>7 DEF ZeroSlots
    <3>9. w.here \in ZeroPages /\ w.here # Null
      BY <3>4, <3>8, ZeroIs
    <3> QED  BY <3>1, <3>9 DEF Reuse, Owned
  <2> QED  BY <2>1, <2>4, <2>5
\* The page is copied: the tree.
<1>9. ASSUME NEW cts \in Versions, NEW w, NEW a, NEW value, NEW l \in Levels, Route(a) \in Paths,
             Tree(w.h, w.root), Position(w, l, Route(a), cts), ~Reuse(w, cts), PageIds \ Live(w.h) # {},
             ~(l = 0 /\ value # Null)
      PROVE  LET g == Revealed(w, l, a, value, cts)
                 new == New(w, cts)
                 groot == RootAfter(w, l, cts)
             IN /\ new \in PageIds /\ ~w.h[new].live
                /\ Replaced(w.h, w.here, w.parent, Offset(a, l + 1), new, Contents(w, l), cts, Ends(w, cts), g)
                /\ Tree(g, groot) /\ SameWords(g, groot, w.h, w.root)
                /\ Nodes(g, groot) = (Nodes(w.h, w.root) \ {w.here}) \cup {new}
                /\ PageOn(g, groot, Route(a), l) = new
  <2> USE <1>9
  <2> DEFINE g == Revealed(w, l, a, value, cts)
             new == New(w, cts)
             groot == RootAfter(w, l, cts)
             q == Route(a)
  <2>1. /\ w.h \in [PageIds -> Pages] /\ ZerosKept(w.h) /\ Typed(w.h, w.root) /\ Single(w.h, w.root)
        /\ w.here = PageOn(w.h, w.root, q, l)
    BY DEF Tree, Position
  <2>2. /\ w.here \in PageIds \cup {Null} /\ (w.here # Null => w.h[w.here].live)
        /\ w.parent = Null \/ (w.parent \in PageIds /\ w.h[w.parent].live)
    BY HereIs
  <2>3. l = Top => w.parent = Null
    BY DEF Position
  <2>4. l # Top => /\ w.parent = PageOn(w.h, w.root, q, l + 1) /\ w.parent \notin NotFreed
                   /\ w.parent \in PageIds
    BY <1>8
  <2>5. l # Top => q[l + 1] = Offset(a, l + 1) /\ q[l + 1] \in Offsets
    BY LevelBelow DEF Route, Paths
  <2>6. /\ new \in PageIds /\ ~w.h[new].live
        /\ Replaced(w.h, w.here, w.parent, Offset(a, l + 1), new, Contents(w, l), cts, Ends(w, cts), g)
    BY <2>1, <2>2, <2>3, <2>5, <1>1
  <2> HIDE DEF g, new, q
  <2>7. /\ g \in [PageIds -> Pages] /\ g[new].live /\ g[new].slots = Contents(w, l)
        /\ \A p \in PageIds : p # new => g[p].live = w.h[p].live /\ g[p].ts = w.h[p].ts
        /\ \A p \in PageIds : p # new /\ p # w.parent => g[p].slots = w.h[p].slots
        /\ w.parent # Null => g[w.parent].slots = [w.h[w.parent].slots EXCEPT ![Offset(a, l + 1)] = new]
    BY <2>6 DEF Replaced
  <2>8. new \notin NotFreed
    BY <2>1, <2>6, NewIs
  <2>9. ZerosKept(g)
    <3>1. \A k \in 0..(FoffsetLevels - 1) : Zero(k) \in PageIds /\ Zero(k) # new /\ Zero(k) # w.parent
      BY <2>3, <2>4, <2>8, ZeroIs DEF NotFreed
    <3> QED  BY <2>1, <2>7, <3>1 DEF ZerosKept
  <2>10. Grafted(w.h, w.root, q, l, new, g, groot)
    <3>1. l = Top => groot = new /\ \A p \in PageIds : p # new => g[p].slots = w.h[p].slots
      BY <2>3, <2>7, ZeroIs DEF RootAfter, new
    <3>2. l # Top => /\ groot = w.root
                     /\ g[w.parent].slots = [w.h[w.parent].slots EXCEPT ![q[l + 1]] = new]
      BY <2>4, <2>5, <2>7, ZeroIs DEF RootAfter
    <3>3. g[new].slots = (IF w.here = Null THEN ZeroSlots(l) ELSE w.h[w.here].slots)
      BY <2>7 DEF Contents
    <3> HIDE DEF groot
    <3> QED  BY <2>1, <2>4, <2>6, <2>7, <3>1, <3>2, <3>3 DEF Grafted
  <2> HIDE DEF groot
  <2>11. q \in Paths
    BY DEF q
  <2>12. /\ Typed(g, groot) /\ Single(g, groot) /\ SameWords(g, groot, w.h, w.root)
         /\ Nodes(g, groot) = (Nodes(w.h, w.root) \ {PageOn(w.h, w.root, q, l)}) \cup {new}
         /\ PageOn(g, groot, q, l) = new
    <3> DEFINE h == w.h
               r == w.root
    <3>1. /\ h \in [PageIds -> Pages] /\ ZerosKept(h) /\ Typed(h, r) /\ Single(h, r)
          /\ \A p \in PageIds : p # new => g[p].live = h[p].live
          /\ Grafted(h, r, q, l, new, g, groot)
      BY <2>1, <2>7, <2>10
    <3>2. ZerosKept(g) /\ g[new].live
      BY <2>7, <2>9
    <3> HIDE DEF h, r
    <3>3. Regrown(h, r, q, l, new, g, groot)
      BY <2>11, <3>1, <3>2, Graft
    <3> QED  BY <3>3 DEF Regrown, h, r
  <2>13. Tree(g, groot)
    BY <2>7, <2>9, <2>12 DEF Tree
  <2> QED  BY <2>1, <2>6, <2>12, <2>13 DEF g, new, groot, q
<1>10. ASSUME NEW h, NEW root, Typed(h, root), NEW p \in Nodes(h, root)
       PROVE  p \in PageIds /\ h[p].live /\ p \notin NotFreed /\ p # Null /\ p \notin ZeroPages
  <2> USE <1>10
  <2>1. PICK q \in Paths, k \in Levels : p = PageOn(h, root, q, k) /\ p \notin NotFreed
    BY DEF Nodes
  <2> QED  BY <2>1, PageIs DEF NotFreed
\* A page is added to those that left the tree.
<1>11. ASSUME NEW s \in Seq(PageIds), NEW p \in PageIds, \A i \in DOMAIN s : s[i] # p,
              \A i, j \in DOMAIN s : s[i] = s[j] => i = j
       PROVE  LET t == Append(s, p)
              IN /\ t \in Seq(PageIds)
                 /\ \A i, j \in DOMAIN t : t[i] = t[j] => i = j
                 /\ {t[i] : i \in DOMAIN t} = {s[i] : i \in DOMAIN s} \cup {p}
                 /\ \A i \in DOMAIN t : t[i] = p \/ \E j \in DOMAIN s : t[i] = s[j]
  <2> USE <1>11
  <2> DEFINE t == Append(s, p)
  <2>1. t \in Seq(PageIds) /\ DOMAIN t = 1..(Len(s) + 1) /\ DOMAIN s = 1..Len(s) /\ Len(s) \in Nat
    OBVIOUS
  <2>2. t[Len(s) + 1] = p /\ \A i \in 1..Len(s) : t[i] = s[i]
    OBVIOUS
  <2>3. \A i : i \in 1..(Len(s) + 1) <=> i \in 1..Len(s) \/ i = Len(s) + 1
    BY <2>1
  <2> HIDE DEF t
  <2>4. \A i, j \in DOMAIN t : t[i] = t[j] => i = j
    BY <2>1, <2>2, <2>3
  <2>5. \A i \in DOMAIN t : t[i] = p \/ \E j \in DOMAIN s : t[i] = s[j]
    BY <2>1, <2>2, <2>3
  <2>6. {t[i] : i \in DOMAIN t} = {s[i] : i \in DOMAIN s} \cup {p}
    <3>1. \A j \in DOMAIN s : j \in DOMAIN t /\ t[j] = s[j]
      BY <2>1, <2>2, <2>3
    <3>2. Len(s) + 1 \in DOMAIN t
      BY <2>1, <2>3
    <3> QED  BY <2>2, <2>5, <3>1, <3>2
  <2> QED  BY <2>1, <2>4, <2>5, <2>6 DEF t
\* The page is copied: what becomes of the pages.
<1>12. ASSUME NEW h0, NEW r0, NEW cts, NEW w, NEW l \in Levels, NEW q \in Paths, NEW g, NEW groot,
              NEW new \in PageIds, NEW i, NEW s, Typed(h0, r0), Grown(h0, r0, cts, w), Position(w, l, q, cts),
              ~Reuse(w, cts), ~w.h[new].live, Replaced(w.h, w.here, w.parent, i, new, s, cts, Ends(w, cts), g),
              Nodes(g, groot) = (Nodes(w.h, w.root) \ {w.here}) \cup {new}
       PROVE  /\ OthersKept(h0, r0, cts, g) /\ NodesKnown(h0, r0, cts, g, groot)
              /\ OldsKnown(h0, r0, cts, g, groot, IF Ends(w, cts) THEN Append(w.olds, w.here) ELSE w.olds)
  <2> USE <1>12
  <2>1. /\ Tree(w.h, w.root) /\ OthersKept(h0, r0, cts, w.h) /\ NodesKnown(h0, r0, cts, w.h, w.root)
        /\ OldsKnown(h0, r0, cts, w.h, w.root, w.olds)
    BY DEF Grown
  <2>2. /\ g[new].live /\ g[new].ts = cts
        /\ \A p \in PageIds : p # new => g[p].live = w.h[p].live /\ g[p].ts = w.h[p].ts
        /\ \A p \in PageIds : p # new /\ ~(Ends(w, cts) /\ p = w.here) => g[p].obs = w.h[p].obs
        /\ \A p \in PageIds : p # new /\ p # w.parent => g[p].slots = w.h[p].slots
        /\ Ends(w, cts) => g[w.here].obs = cts
    BY DEF Replaced
  <2>3. \A p \in PageIds : h0[p].live => w.h[p].live /\ p # new /\ w.h[p].ts = h0[p].ts
    BY <2>1 DEF OthersKept
  <2>4. ~h0[new].live
    BY <2>3
  <2>5. Ends(w, cts) => /\ w.here \in PageIds /\ w.here \in Nodes(w.h, w.root) /\ w.here \in Nodes(h0, r0)
                        /\ h0[w.here].ts # cts /\ \A j \in DOMAIN w.olds : w.olds[j] # w.here
    BY <1>2
  <2>6. w.parent \in PageIds => w.h[w.parent].ts = cts
    <3>1. l # Top => w.h[w.parent].ts = cts
      BY <2>1, <1>8
    <3>2. l = Top => w.parent = Null
      BY DEF Position
    <3> QED  BY <3>1, <3>2, ZeroIs
  <2>7. OthersKept(h0, r0, cts, g)
    <3>1. ASSUME NEW p \in PageIds, h0[p].live
          PROVE  g[p].live /\ g[p].ts = h0[p].ts /\ (h0[p].ts # cts => g[p].slots = h0[p].slots)
      <4>1. p # new /\ w.h[p].live /\ w.h[p].ts = h0[p].ts /\ (h0[p].ts # cts => w.h[p].slots = h0[p].slots)
        BY <2>1, <2>3, <3>1 DEF OthersKept
      <4>2. h0[p].ts # cts => p # w.parent
        BY <2>6, <4>1
      <4> QED  BY <2>2, <4>1, <4>2
    <3>2. ASSUME NEW p \in PageIds, h0[p].live, p \notin Nodes(h0, r0)
          PROVE  g[p].obs = h0[p].obs
      <4>1. p # new /\ ~(Ends(w, cts) /\ p = w.here) /\ w.h[p].obs = h0[p].obs
        BY <2>1, <2>3, <2>5, <3>2 DEF OthersKept
      <4> QED  BY <2>2, <4>1
    <3> QED  BY <3>1, <3>2 DEF OthersKept
  <2>8. NodesKnown(h0, r0, cts, g, groot)
    <3>1. ASSUME NEW p \in PageIds, ~h0[p].live, g[p].live
          PROVE  g[p].ts = cts /\ p \in Nodes(g, groot)
      <4>1. CASE p = new
        BY <2>2, <4>1
      <4>2. CASE p # new
        <5>1. w.h[p].live
          BY <2>2, <3>1, <4>2
        <5>2. w.h[p].ts = cts /\ p \in Nodes(w.h, w.root)
          BY <2>1, <3>1, <5>1 DEF NodesKnown
        <5>3. p # w.here
          <6>1. p \notin ZeroPages /\ p # Null
            BY <2>1, <5>2, <1>10 DEF Tree
          <6> QED  BY <5>2, <6>1 DEF Reuse, Owned
        <5> QED  BY <2>2, <4>2, <5>2, <5>3
      <4> QED  BY <4>1, <4>2
    <3>2. ASSUME NEW p \in Nodes(g, groot) PROVE p \in Nodes(h0, r0) \/ ~h0[p].live
      BY <2>1, <2>4 DEF NodesKnown
    <3> QED  BY <3>1, <3>2 DEF NodesKnown
  <2>9. new \notin Nodes(h0, r0)
    BY <2>4, <1>10
  <2>10. \A j \in DOMAIN w.olds : w.olds[j] \in PageIds /\ w.olds[j] # new
    <3>1. \A j \in DOMAIN w.olds : w.olds[j] \in Nodes(h0, r0)
      BY <2>1 DEF OldsKnown
    <3> QED  BY <2>9, <3>1, <1>10
  <2>11. CASE Ends(w, cts)
    <3> DEFINE t == Append(w.olds, w.here)
    <3>1. w.olds \in Seq(PageIds) /\ \A j, k \in DOMAIN w.olds : w.olds[j] = w.olds[k] => j = k
      BY <2>1 DEF OldsKnown
    <3>2. /\ t \in Seq(PageIds)
          /\ \A j, k \in DOMAIN t : t[j] = t[k] => j = k
          /\ {t[j] : j \in DOMAIN t} = {w.olds[j] : j \in DOMAIN w.olds} \cup {w.here}
          /\ \A j \in DOMAIN t : t[j] = w.here \/ \E k \in DOMAIN w.olds : t[j] = w.olds[k]
      BY <2>5, <2>11, <3>1, <1>11
    <3> HIDE DEF t
    <3>3. {w.olds[j] : j \in DOMAIN w.olds} = Nodes(h0, r0) \ Nodes(w.h, w.root)
      BY <2>1 DEF OldsKnown
    <3>4. {t[j] : j \in DOMAIN t} = Nodes(h0, r0) \ Nodes(g, groot)
      BY <2>5, <2>9, <2>11, <3>2, <3>3
    <3>5. ASSUME NEW j \in DOMAIN t PROVE g[t[j]].obs = cts /\ h0[t[j]].ts # cts
      <4>1. CASE t[j] = w.here
        BY <2>2, <2>5, <2>11, <4>1
      <4>2. CASE t[j] # w.here
        <5>1. PICK k \in DOMAIN w.olds : t[j] = w.olds[k]
          BY <3>2, <4>2
        <5>2. w.h[w.olds[k]].obs = cts /\ h0[w.olds[k]].ts # cts
          BY <2>1 DEF OldsKnown
        <5> QED  BY <2>2, <2>10, <4>2, <5>1, <5>2
      <4> QED  BY <4>1, <4>2
    <3>6. OldsKnown(h0, r0, cts, g, groot, t)
      BY <3>2, <3>4, <3>5 DEF OldsKnown
    <3> QED  BY <2>7, <2>8, <2>11, <3>6 DEF t
  <2>12. CASE ~Ends(w, cts)
    <3>1. w.here \in NotFreed
      BY <2>12 DEF Ends
    <3>2. w.here \notin Nodes(h0, r0)
      BY <3>1, <1>10
    <3>3. Nodes(h0, r0) \ Nodes(g, groot) = Nodes(h0, r0) \ Nodes(w.h, w.root)
      BY <2>9, <3>2
    <3>4. \A j \in DOMAIN w.olds : g[w.olds[j]].obs = w.h[w.olds[j]].obs
      BY <2>2, <2>10, <2>12
    <3>5. OldsKnown(h0, r0, cts, g, groot, w.olds)
      BY <2>1, <3>3, <3>4 DEF OldsKnown
    <3> QED  BY <2>7, <2>8, <2>12, <3>5
  <2> QED  BY <2>11, <2>12
\* The walk goes on with its child.
<1>13. ASSUME NEW n, NEW l \in Levels, NEW a, NEW cts, l # 0, OwnNow(n, l, Route(a), cts),
              n.here = n.h[n.parent].slots[Offset(a, l)]
       PROVE  Position(n, l - 1, Route(a), cts)
  <2> USE <1>13
  <2> DEFINE q == Route(a)
  <2>1. l - 1 \in 0..(Top - 1) /\ (l - 1) + 1 = l /\ l \in 1..Top /\ l - 1 # Top
    BY TopIs DEF Levels
  <2>2. q[l] = Offset(a, l)
    BY <2>1 DEF Route
  <2> HIDE DEF q
  <2>3. PageOn(n.h, n.root, q, l - 1) = Child(n.h, PageOn(n.h, n.root, q, (l - 1) + 1), q[(l - 1) + 1])
    BY <2>1, PageOnIs
  <2>4. OwnNow(n, l, q, cts)
    BY DEF q
  <2>5. PageOn(n.h, n.root, q, l - 1) = n.here
    BY <2>1, <2>2, <2>3, <2>4 DEF Child, OwnNow
  <2>6. Position(n, l - 1, q, cts)
    BY <2>1, <2>4, <2>5 DEF Position, OwnNow
  <2> QED  BY <2>6 DEF q
<1>14. ASSUME NEW h0, NEW r0, NEW cts \in Versions, NEW w, NEW a, NEW value, NEW l \in Levels,
              Route(a) \in Paths, Typed(h0, r0), Grown(h0, r0, cts, w), Position(w, l, Route(a), cts),
              ~Reuse(w, cts), PageIds \ Live(w.h) # {}, ~(l = 0 /\ value # Null)
       PROVE  Turns(h0, r0, cts, w, l, a, Turned(w, l, a, value, cts))
  <2> USE <1>14
  <2> DEFINE n == Turned(w, l, a, value, cts)
             g == Revealed(w, l, a, value, cts)
             new == New(w, cts)
             groot == RootAfter(w, l, cts)
             q == Route(a)
  <2>1. WFields(w) /\ Tree(w.h, w.root)
    BY DEF Grown
  <2>2. /\ new \in PageIds /\ ~w.h[new].live
        /\ Replaced(w.h, w.here, w.parent, Offset(a, l + 1), new, Contents(w, l), cts, Ends(w, cts), g)
        /\ Tree(g, groot) /\ SameWords(g, groot, w.h, w.root)
        /\ Nodes(g, groot) = (Nodes(w.h, w.root) \ {w.here}) \cup {new}
        /\ PageOn(g, groot, q, l) = new
    BY <2>1, <1>9
  <2>3. /\ WFields(n) /\ n.h = g /\ n.root = groot /\ n.parent = new
        /\ n.olds = (IF Ends(w, cts) THEN Append(w.olds, w.here) ELSE w.olds)
        /\ l # 0 => n.here = g[new].slots[Offset(a, l)]
    <3>1. IsTurned(n, w, l, a, value, cts)
      BY <2>1, TurnedIs
    <3> HIDE DEF n
    <3> QED  BY <3>1 DEF IsTurned, RootAfter
  <2> HIDE DEF n, g, new, groot
  <2>4. /\ OthersKept(h0, r0, cts, g) /\ NodesKnown(h0, r0, cts, g, groot)
        /\ OldsKnown(h0, r0, cts, g, groot, IF Ends(w, cts) THEN Append(w.olds, w.here) ELSE w.olds)
    BY <2>2, <1>12
  <2>5. Grown(h0, r0, cts, n)
    BY <2>2, <2>3, <2>4 DEF Grown
  <2>6. new \notin NotFreed /\ new # Null /\ g[new].ts = cts
    BY <2>1, <2>2, NewIs DEF Replaced, Tree
  <2>7. OwnNow(n, l, q, cts)
    BY <2>2, <2>3, <2>6 DEF OwnNow
  <2>8. Turns(h0, r0, cts, w, l, a, n)
    BY <2>2, <2>3, <2>5, <2>7 DEF Turns
  <2> QED  BY <2>8 DEF n
<1> SUFFICES ASSUME NEW h0, NEW r0, NEW cts \in Versions, NEW w, NEW a, NEW value, NEW f, NEW l \in Levels,
                    Route(a) \in Paths, Typed(h0, r0), Grown(h0, r0, cts, w),
                    w.ok => Position(w, l, Route(a), cts), ~(l = 0 /\ value # Null)
             PROVE  LET n == CopyLevel(w, l, a, value, cts, f)
                    IN /\ Grown(h0, r0, cts, n) /\ SameWords(n.h, n.root, w.h, w.root)
                       /\ n.ok => OwnNow(n, l, Route(a), cts)
                       /\ n.ok /\ l # 0 => Position(n, l - 1, Route(a), cts)
  OBVIOUS
<1> DEFINE n == CopyLevel(w, l, a, value, cts, f)
<1>15. n = IF ~w.ok THEN w
          ELSE IF NoPage(w, l, cts, f) THEN [w EXCEPT !.ok = FALSE]
          ELSE IF NoRecord(w, l, cts, f) THEN [w EXCEPT !.ok = FALSE, !.h = Marked(w, cts)]
          ELSE Turned(w, l, a, value, cts)
  BY TurnIs
<1> HIDE DEF n
<1>16. CASE ~w.ok
  BY <1>15, <1>16, SameWordsSelf DEF n
<1>17. CASE w.ok /\ NoPage(w, l, cts, f)
  <2>1. n = [w EXCEPT !.ok = FALSE]
    BY <1>15, <1>17
  <2>2. Grown(h0, r0, cts, n) /\ n.h = w.h /\ n.root = w.root /\ ~n.ok
    BY <2>1, <1>3
  <2> QED  BY <2>2, SameWordsSelf DEF n
<1>18. CASE w.ok /\ ~NoPage(w, l, cts, f) /\ NoRecord(w, l, cts, f)
  <2>1. n = [w EXCEPT !.ok = FALSE, !.h = Marked(w, cts)]
    BY <1>15, <1>18
  <2>2. Ends(w, cts)
    BY <1>18 DEF NoRecord
  <2>3. Grown(h0, r0, cts, n) /\ SameWords(n.h, n.root, w.h, w.root) /\ ~n.ok
    BY <1>18, <2>1, <2>2, <1>4
  <2> QED  BY <2>3 DEF n
<1>19. CASE w.ok /\ ~NoPage(w, l, cts, f) /\ ~NoRecord(w, l, cts, f)
  <2>1. n = Turned(w, l, a, value, cts) /\ Position(w, l, Route(a), cts)
    BY <1>15, <1>19
  <2>2. Turns(h0, r0, cts, w, l, a, Turned(w, l, a, value, cts))
    <3>1. CASE Reuse(w, cts)
      BY <2>1, <3>1, <1>7
    <3>2. CASE ~Reuse(w, cts)
      <4>1. PageIds \ Live(w.h) # {}
        BY <1>19, <3>2 DEF NoPage
      <4> QED  BY <2>1, <3>2, <4>1, <1>14
    <3> QED  BY <3>1, <3>2
  <2>3. Turns(h0, r0, cts, w, l, a, n)
    BY <2>1, <2>2
  <2>4. l # 0 => Position(n, l - 1, Route(a), cts)
    BY <2>3, <1>13 DEF Turns
  <2> QED  BY <2>3, <2>4 DEF Turns, n
<1> QED  BY <1>16, <1>17, <1>18, <1>19

-----------------------------------------------------------------------------
(* The last turn, which writes the word *)

SlotSet(h, p, x, v) == [h EXCEPT ![p].slots[x] = v]

\* The last turn, from w to n: all of the word is written or none of it.
LeafTurns(h0, r0, cts, w, a, value, n) ==
  /\ Grown(h0, r0, cts, n)
  /\ ~n.ok => SameWords(n.h, n.root, w.h, w.root)
  /\ n.ok => WordSet(n.h, n.root, w.h, w.root, Route(a), a.word, value)

\* The last turn.
LEMMA LeafTurn ==
  ASSUME WellOrdered
  PROVE  \A h0, r0, w, a, f :
         \A cts \in Versions, value \in Nat :
           /\ Route(a) \in Paths /\ a.word \in Offsets /\ Typed(h0, r0) /\ Grown(h0, r0, cts, w)
           /\ (w.ok => Position(w, 0, Route(a), cts)) /\ value # Null /\ cts # 0
           => LeafTurns(h0, r0, cts, w, a, value, CopyLevel(w, 0, a, value, cts, f))
\* Slots of two pages can be set in either order.
<1>1. ASSUME NEW h \in [PageIds -> Pages], NEW p \in PageIds, NEW r \in PageIds, p # r, NEW i, NEW x, NEW u,
             NEW v
      PROVE  SlotSet(SlotSet(h, p, x, v), r, i, u) = SlotSet(SlotSet(h, r, i, u), p, x, v)
  <2> USE <1>1
  <2> DEFINE P == [h[p] EXCEPT !.slots = [h[p].slots EXCEPT ![x] = v]]
             R == [h[r] EXCEPT !.slots = [h[r].slots EXCEPT ![i] = u]]
             A == [h EXCEPT ![p] = P]
             B == [h EXCEPT ![r] = R]
  <2>1. A[r] = h[r] /\ B[p] = h[p]
    OBVIOUS
  <2>2. [A EXCEPT ![r].slots[i] = u] = [A EXCEPT ![r] = R]
    BY <2>1
  <2>3. [B EXCEPT ![p].slots[x] = v] = [B EXCEPT ![p] = P]
    BY <2>1
  <2>4. [A EXCEPT ![r] = R] = [B EXCEPT ![p] = P]
    <3> HIDE DEF P, R
    <3> QED  OBVIOUS
  <2> QED  BY <2>2, <2>3, <2>4 DEF SlotSet
\* Writing a word as its page is copied, and writing it afterwards.
<1>2. ASSUME NEW cts \in Versions, NEW w, NEW a, NEW value, Route(a) \in Paths, Tree(w.h, w.root),
             Position(w, 0, Route(a), cts), value # Null, cts # 0, Reuse(w, cts) \/ PageIds \ Live(w.h) # {}
      PROVE  Revealed(w, 0, a, value, cts) = SlotSet(Revealed(w, 0, a, Null, cts), New(w, cts), a.word, value)
  <2> USE <1>2
  <2> DEFINE c == Copied(w, 0, cts)
             new == New(w, cts)
             q == Route(a)
             i == Offset(a, 0 + 1)
  <2>1. 0 # Top /\ 0 \in Levels /\ 0 \in 0..(Top - 1) /\ 0 + 1 \in Levels /\ 0 # 0 + 1
    BY TopIs, LevelBelow
  <2>2. /\ w.here = PageOn(w.h, w.root, q, 0) /\ w.parent = PageOn(w.h, w.root, q, 0 + 1)
        /\ w.parent # Null /\ w.parent \notin NotFreed
    BY <2>1 DEF Position
  <2>3. /\ w.here \in PageIds \cup {Null} /\ (w.here # Null => w.h[w.here].live)
        /\ w.parent \in PageIds /\ w.h[w.parent].live
    BY <2>1, <2>2, HereIs
  <2>4. w.h \in [PageIds -> Pages] /\ Single(w.h, w.root)
    BY DEF Tree
  <2>5. new \in PageIds /\ w.parent # new /\ c \in [PageIds -> Pages]
    <3>1. CASE Reuse(w, cts)
      <4>1. new = w.here /\ c = w.h /\ w.here # Null
        BY <3>1 DEF New, Copied, Reuse
      <4>2. w.parent # w.here
        BY <2>1, <2>2, <2>4 DEF Single
      <4> QED  BY <2>3, <2>4, <4>1, <4>2
    <3>2. CASE ~Reuse(w, cts)
      <4> DEFINE u == [w EXCEPT !.parent = Null]
      <4>1. new \in PageIds \ Live(w.h)
        BY <3>2, MinIs DEF New
      <4>2. new \in PageIds /\ ~w.h[new].live
        BY <4>1 DEF Live
      <4>3. Contents(w, 0) \in [Offsets -> Nat]
        <5>1. w.here # Null => w.h[w.here].slots \in [Offsets -> Nat]
          BY <2>3, <2>4 DEF Pages
        <5> QED  BY <2>1, <5>1, ZeroSlotsType, ZenonT(20) DEF Contents
      <4>4. Marked(w, cts) \in [PageIds -> Pages]
        <5>1. Ends(w, cts) => w.here \in PageIds
          BY <2>3 DEF Ends, NotFreed
        <5>2. Ends(w, cts) => MarkedOnly(w.h, w.here, cts, EndLifetime(w.h, w.here, cts))
          BY <2>4, <5>1, EndLifetimeIs
        <5> QED  BY <2>4, <5>2 DEF Marked, MarkedOnly
      <4>5. NewPage(cts, Contents(w, 0)) \in Pages
        BY <4>3 DEF NewPage, Pages
      <4>6. c = [Marked(w, cts) EXCEPT ![new] = NewPage(cts, Contents(w, 0))]
        BY <3>2 DEF Copied
      <4> HIDE DEF c, new
      <4>7. c \in [PageIds -> Pages]
        BY <4>2, <4>4, <4>5, <4>6
      <4> QED  BY <2>3, <4>2, <4>7
    <3> QED  BY <3>1, <3>2
  <2>6. Revealed(w, 0, a, value, cts) = SlotSet(SlotSet(c, new, a.word, value), w.parent, i, new)
    BY <2>2 DEF Revealed, Filled, SlotSet
  <2>7. Revealed(w, 0, a, Null, cts) = SlotSet(c, w.parent, i, new)
    BY <2>2 DEF Revealed, Filled, SlotSet
  <2> HIDE DEF c, new, i
  <2>8. SlotSet(SlotSet(c, new, a.word, value), w.parent, i, new) = SlotSet(SlotSet(c, w.parent, i, new), new, a.word, value)
    BY <2>3, <2>5, <1>1
  <2> QED  BY <2>6, <2>7, <2>8 DEF new
\* The word is written into a page of the checkpoint's own.
<1>3. ASSUME NEW h0, NEW r0, NEW cts, NEW m, NEW n, NEW q0 \in Paths, NEW x0 \in Offsets, NEW v \in Nat, cts # 0,
             Grown(h0, r0, cts, m), OwnNow(m, 0, q0, cts), WFields(n), n.root = m.root, n.olds = m.olds,
             n.h = SlotSet(m.h, m.parent, x0, v)
      PROVE  Grown(h0, r0, cts, n) /\ WordSet(n.h, n.root, m.h, m.root, q0, x0, v)
  <2> USE <1>3
  <2> DEFINE p0 == PageOn(m.h, m.root, q0, 0)
  <2>1. m.parent = p0 /\ p0 \notin NotFreed /\ m.h[p0].ts = cts
    BY DEF OwnNow
  <2>2. /\ Tree(m.h, m.root) /\ OthersKept(h0, r0, cts, m.h) /\ NodesKnown(h0, r0, cts, m.h, m.root)
        /\ OldsKnown(h0, r0, cts, m.h, m.root, m.olds)
    BY DEF Grown
  <2>3. m.h \in [PageIds -> Pages] /\ ZerosKept(m.h) /\ Typed(m.h, m.root) /\ Single(m.h, m.root)
    BY <2>2 DEF Tree
  <2>4. p0 \in PageIds
    BY <2>1, <2>3, PageIs, TopIs DEF NotFreed
  <2>5. Written(m.h, p0, x0, v, n.h)
    BY <2>1, <2>3, <2>4, WriteHeap DEF SlotSet
  <2>6. /\ ZerosKept(n.h) /\ Typed(n.h, m.root) /\ Single(n.h, m.root)
        /\ Nodes(n.h, m.root) = Nodes(m.h, m.root)
        /\ WordSet(n.h, m.root, m.h, m.root, q0, x0, v)
    BY <2>1, <2>3, <2>5, Write
  <2> HIDE DEF p0
  <2>7. /\ n.h \in [PageIds -> Pages]
        /\ \A p \in PageIds : p # p0 => n.h[p] = m.h[p]
        /\ \A p \in PageIds : n.h[p].live = m.h[p].live /\ n.h[p].ts = m.h[p].ts /\ n.h[p].obs = m.h[p].obs
    BY <2>5 DEF Written
  <2>8. Tree(n.h, n.root)
    BY <2>6, <2>7 DEF Tree
  <2>9. OthersKept(h0, r0, cts, n.h)
    <3>1. ASSUME NEW p \in PageIds, h0[p].live
          PROVE  n.h[p].live /\ n.h[p].ts = h0[p].ts /\ (h0[p].ts # cts => n.h[p].slots = h0[p].slots)
      <4>1. m.h[p].live /\ m.h[p].ts = h0[p].ts /\ (h0[p].ts # cts => m.h[p].slots = h0[p].slots)
        BY <2>2, <3>1 DEF OthersKept
      <4>2. h0[p].ts # cts => p # p0
        BY <2>1, <4>1
      <4> QED  BY <2>7, <4>1, <4>2
    <3>2. \A p \in PageIds : h0[p].live /\ p \notin Nodes(h0, r0) => n.h[p].obs = h0[p].obs
      BY <2>2, <2>7 DEF OthersKept
    <3> QED  BY <3>1, <3>2 DEF OthersKept
  <2>10. NodesKnown(h0, r0, cts, n.h, n.root)
    BY <2>2, <2>6, <2>7 DEF NodesKnown
  <2>11. OldsKnown(h0, r0, cts, n.h, n.root, n.olds)
    <3>1. /\ m.olds \in Seq(PageIds)
          /\ \A i, j \in DOMAIN m.olds : m.olds[i] = m.olds[j] => i = j
          /\ {m.olds[i] : i \in DOMAIN m.olds} = Nodes(h0, r0) \ Nodes(m.h, m.root)
          /\ \A i \in DOMAIN m.olds : m.h[m.olds[i]].obs = cts /\ h0[m.olds[i]].ts # cts
      BY <2>2 DEF OldsKnown
    <3>2. \A i \in DOMAIN m.olds : m.olds[i] \in PageIds
      BY <3>1
    <3>3. \A i \in DOMAIN m.olds : n.h[m.olds[i]].obs = cts
      BY <2>7, <3>1, <3>2
    <3>4. Nodes(n.h, n.root) = Nodes(m.h, m.root)
      BY <2>6
    <3> QED  BY <3>1, <3>3, <3>4, ZenonT(20) DEF OldsKnown
  <2>12. Grown(h0, r0, cts, n)
    BY <2>8, <2>9, <2>10, <2>11 DEF Grown
  <2> QED  BY <2>6, <2>12
<1> SUFFICES ASSUME NEW h0, NEW r0, NEW cts \in Versions, NEW w, NEW a, NEW value \in Nat, NEW f,
                    Route(a) \in Paths, a.word \in Offsets, Typed(h0, r0), Grown(h0, r0, cts, w),
                    w.ok => Position(w, 0, Route(a), cts), value # Null, cts # 0
             PROVE  LeafTurns(h0, r0, cts, w, a, value, CopyLevel(w, 0, a, value, cts, f))
  OBVIOUS
<1> DEFINE n == CopyLevel(w, 0, a, value, cts, f)
           m == CopyLevel(w, 0, a, Null, cts, f)
           q == Route(a)
<1>4. 0 \in Levels
  BY TopIs
<1>5. /\ Grown(h0, r0, cts, m) /\ SameWords(m.h, m.root, w.h, w.root)
      /\ m.ok => OwnNow(m, 0, q, cts)
  BY <1>4, Turn
<1>6. n = IF ~w.ok THEN w
          ELSE IF NoPage(w, 0, cts, f) THEN [w EXCEPT !.ok = FALSE]
          ELSE IF NoRecord(w, 0, cts, f) THEN [w EXCEPT !.ok = FALSE, !.h = Marked(w, cts)]
          ELSE Turned(w, 0, a, value, cts)
  BY TurnIs
<1>7. m = IF ~w.ok THEN w
          ELSE IF NoPage(w, 0, cts, f) THEN [w EXCEPT !.ok = FALSE]
          ELSE IF NoRecord(w, 0, cts, f) THEN [w EXCEPT !.ok = FALSE, !.h = Marked(w, cts)]
          ELSE Turned(w, 0, a, Null, cts)
  BY TurnIs
<1>8. WFields(w)
  BY DEF Grown
<1> HIDE DEF n, m
<1>9. CASE ~w.ok \/ NoPage(w, 0, cts, f) \/ NoRecord(w, 0, cts, f)
  <2>1. n = m
    BY <1>6, <1>7, <1>9
  <2>2. ~n.ok
    <3> DEFINE x == [w EXCEPT !.ok = FALSE]
               y == [w EXCEPT !.ok = FALSE, !.h = Marked(w, cts)]
    <3>1. ~x.ok
      BY <1>8 DEF WFields
    <3>2. ~y.ok
      <4> DEFINE k == Marked(w, cts)
      <4>1. y = [w EXCEPT !.ok = FALSE, !.h = k]
        OBVIOUS
      <4> HIDE DEF k, y
      <4> QED  BY <1>8, <4>1 DEF WFields
    <3> HIDE DEF x, y
    <3>3. n = w \/ n = x \/ n = y
      BY <1>6, <1>9 DEF x, y
    <3> QED  BY <1>6, <1>9, <3>1, <3>2, <3>3
  <2>3. LeafTurns(h0, r0, cts, w, a, value, n)
    BY <1>5, <2>1, <2>2 DEF LeafTurns
  <2> QED  BY <2>3 DEF n
<1>10. CASE w.ok /\ ~NoPage(w, 0, cts, f) /\ ~NoRecord(w, 0, cts, f)
  <2>1. n = Turned(w, 0, a, value, cts) /\ m = Turned(w, 0, a, Null, cts) /\ Position(w, 0, q, cts)
    BY <1>6, <1>7, <1>10
  <2>2. /\ WFields(n) /\ n.ok = w.ok /\ n.h = Revealed(w, 0, a, value, cts)
        /\ n.root = (IF 0 = Top THEN New(w, cts) ELSE w.root)
        /\ n.olds = (IF Ends(w, cts) THEN Append(w.olds, w.here) ELSE w.olds)
    <3>1. IsTurned(n, w, 0, a, value, cts)
      BY <1>8, <2>1, TurnedIs
    <3> QED  BY <3>1 DEF IsTurned
  <2>3. /\ m.ok = w.ok /\ m.h = Revealed(w, 0, a, Null, cts) /\ m.parent = New(w, cts)
        /\ m.root = (IF 0 = Top THEN New(w, cts) ELSE w.root)
        /\ m.olds = (IF Ends(w, cts) THEN Append(w.olds, w.here) ELSE w.olds)
    <3>1. IsTurned(m, w, 0, a, Null, cts)
      BY <1>8, <2>1, TurnedIs
    <3> QED  BY <3>1 DEF IsTurned
  <2>4. Reuse(w, cts) \/ PageIds \ Live(w.h) # {}
    BY <1>10 DEF NoPage
  <2>5. Tree(w.h, w.root)
    BY DEF Grown
  <2>6. n.h = SlotSet(m.h, m.parent, a.word, value)
    BY <2>1, <2>2, <2>3, <2>4, <2>5, <1>2
  <2>7. n.root = m.root /\ n.olds = m.olds /\ m.ok /\ n.ok
    BY <1>10, <2>2, <2>3
  <2>8. Grown(h0, r0, cts, n) /\ WordSet(n.h, n.root, m.h, m.root, q, a.word, value)
    BY <1>5, <2>2, <2>6, <2>7, <1>3
  <2>9. WordSet(n.h, n.root, w.h, w.root, q, a.word, value)
    BY <1>5, <2>8 DEF WordSet, SameWords
  <2>10. LeafTurns(h0, r0, cts, w, a, value, n)
    BY <2>7, <2>8, <2>9 DEF LeafTurns
  <2> QED  BY <2>10 DEF n
<1> QED  BY <1>9, <1>10

-----------------------------------------------------------------------------
(* The whole walk *)

Start(h, root) == [h |-> h, root |-> root, here |-> root, parent |-> Null, olds |-> <<>>, ok |-> TRUE]

IsApply(g, h, root, a, value, cts, f) ==
  g = [l \in Levels |-> CopyLevel(IF l = Top THEN Start(h, root) ELSE g[l + 1], l, a, value, cts, f)]

\* What sivfs_apply_change_checkpoint leaves behind.
Applies(h0, r0, a, value, cts, w) ==
  /\ Grown(h0, r0, cts, w)
  /\ w.ok /\ value # Null => WordSet(w.h, w.root, h0, r0, Route(a), a.word, value)
  /\ ~(w.ok /\ value # Null) => SameWords(w.h, w.root, h0, r0)

\* On the way down.
Walked(h0, r0, cts, q, w, l) ==
  Grown(h0, r0, cts, w) /\ SameWords(w.h, w.root, h0, r0) /\ (w.ok => Position(w, l, q, cts))

\* The whole of sivfs_apply_change_checkpoint: whatever allocation fails, the tree that is
\* left is sound, and the word is set or every word reads as before.
LEMMA ApplyChangeIs ==
  ASSUME WellOrdered
  PROVE  \A h0, r0, a, f :
         \A value \in Nat, cts \in Versions :
           /\ Tree(h0, r0) /\ Route(a) \in Paths /\ a.word \in Offsets /\ (value # Null => cts # 0)
           => Applies(h0, r0, a, value, cts, ApplyChange(h0, r0, a, value, cts, f))
\* The recursion of the walk has a solution.
<1>1. ASSUME NEW h, NEW root, NEW a, NEW value, NEW cts, NEW f
      PROVE  \E g : IsApply(g, h, root, a, value, cts, f)
  <2> USE <1>1
  <2> DEFINE D(l, w) == CopyLevel(w, l, a, value, cts, f)
             Sol(g, m) == g = [k \in m..Top |-> D(k, IF k = Top THEN Start(h, root) ELSE g[k + 1])]
             S == {m \in Levels : \E g : Sol(g, m)}
  <2>0. Top \in Nat
    BY TopIs
  <2> HIDE DEF D
  <2>1. Top \in S
    <3>1. Sol([k \in Top..Top |-> D(Top, Start(h, root))], Top)
      <4>1. \A k \in Top..Top : k = Top
        BY <2>0
      <4> QED  BY <4>1
    <3>2. Top \in Levels
      BY TopIs
    <3> HIDE DEF Sol
    <3> QED  BY <3>1, <3>2
  <2>2. ASSUME NEW m \in 0..(Top - 1), m + 1 \in S PROVE m \in S
    <3>1. PICK g : Sol(g, m + 1)
      BY <2>2
    <3> DEFINE n == [k \in m..Top |-> IF k = m THEN D(m, g[m + 1]) ELSE g[k]]
    <3>2. /\ m \in m..Top /\ m # Top /\ m + 1 \in m..Top /\ m + 1 # m
          /\ \A k \in m..Top : k # m => k \in (m + 1)..Top
          /\ \A k \in m..Top : k # Top => k + 1 \in m..Top /\ k + 1 # m
      BY <2>0
    <3>3. ASSUME NEW k \in m..Top PROVE  n[k] = D(k, IF k = Top THEN Start(h, root) ELSE n[k + 1])
      <4>1. k # Top => n[k + 1] = g[k + 1]
        BY <3>2
      <4>2. CASE k = m
        <5>1. n[k] = D(m, g[m + 1])
          BY <3>2, <4>2
        <5>2. n[k + 1] = g[m + 1] /\ k # Top
          BY <3>2, <4>1, <4>2
        <5> HIDE DEF n
        <5> QED  BY <4>2, <5>1, <5>2
      <4>3. CASE k # m
        <5>1. k \in (m + 1)..Top /\ n[k] = g[k]
          BY <3>2, <4>3
        <5>2. g[k] = D(k, IF k = Top THEN Start(h, root) ELSE g[k + 1])
          BY <3>1, <5>1
        <5> HIDE DEF n
        <5> QED  BY <4>1, <5>1, <5>2
      <4> QED  BY <4>2, <4>3
    <3>4. n = [k \in m..Top |-> D(k, IF k = Top THEN Start(h, root) ELSE n[k + 1])]
      <4>1. n = [k \in m..Top |-> n[k]]
        OBVIOUS
      <4> HIDE DEF n
      <4> QED  BY <3>3, <4>1
    <3>5. m \in Levels
      BY LevelBelow
    <3> HIDE DEF n
    <3> QED  BY <3>4, <3>5
  <2>3. Levels \subseteq S
    <3> HIDE DEF S
    <3> QED  BY <2>1, <2>2, Downward
  <2>4. PICK g : Sol(g, 0)
    BY <2>3, TopIs
  <2>5. IsApply(g, h, root, a, value, cts, f)
    BY <2>4 DEF IsApply, Levels, D
  <2> QED  BY <2>5
<1>2. ASSUME NEW h, NEW root, NEW a, NEW value, NEW cts, NEW f
      PROVE  \E g : /\ ApplyChange(h, root, a, value, cts, f) = g[0]
                    /\ g[Top] = CopyLevel(Start(h, root), Top, a, value, cts, f)
                    /\ \A l \in 0..(Top - 1) : g[l] = CopyLevel(g[l + 1], l, a, value, cts, f)
  <2> USE <1>2
  <2> DEFINE g == CHOOSE x : IsApply(x, h, root, a, value, cts, f)
  <2>1. IsApply(g, h, root, a, value, cts, f)
    BY <1>1
  <2>2. ApplyChange(h, root, a, value, cts, f) = g[0]
    BY DEF ApplyChange, IsApply, Start
  <2> HIDE DEF g
  <2>3. \A l \in Levels : g[l] = CopyLevel(IF l = Top THEN Start(h, root) ELSE g[l + 1], l, a, value, cts, f)
    BY <2>1 DEF IsApply
  <2>4. g[Top] = CopyLevel(Start(h, root), Top, a, value, cts, f)
    BY <2>3, TopIs
  <2>5. ASSUME NEW l \in 0..(Top - 1) PROVE g[l] = CopyLevel(g[l + 1], l, a, value, cts, f)
    <3>1. l \in Levels /\ l # Top
      BY LevelBelow
    <3> QED  BY <2>3, <3>1
  <2> QED  BY <2>2, <2>4, <2>5
<1>3. ASSUME NEW h, NEW root, NEW cts, Tree(h, root), NEW q \in Paths
      PROVE  Grown(h, root, cts, Start(h, root)) /\ Position(Start(h, root), Top, q, cts)
  <2> USE <1>3
  <2> DEFINE s == Start(h, root)
  <2>1. /\ s.h = h /\ s.root = root /\ s.here = root /\ s.parent = Null /\ s.olds = <<>> /\ s.ok = TRUE
        /\ s = [h |-> h, root |-> root, here |-> root, parent |-> Null, olds |-> <<>>, ok |-> TRUE]
    BY DEF Start
  <2> HIDE DEF s
  <2>2. WFields(s)
    BY <2>1 DEF WFields
  <2>3. OthersKept(h, root, cts, h) /\ NodesKnown(h, root, cts, h, root)
    BY DEF OthersKept, NodesKnown
  <2>4. OldsKnown(h, root, cts, h, root, <<>>)
    <3>1. <<>> \in Seq(PageIds) /\ DOMAIN <<>> = {}
      OBVIOUS
    <3> DEFINE o == <<>>
    <3> HIDE DEF o
    <3>2. DOMAIN o = {} => {o[i] : i \in DOMAIN o} = {}
      OBVIOUS
    <3> QED  BY <3>1, <3>2 DEF OldsKnown, o
  <2>5. Grown(h, root, cts, s)
    BY <2>1, <2>2, <2>3, <2>4 DEF Grown
  <2>6. Position(s, Top, q, cts)
    <3>1. PageOn(h, root, q, Top) = root
      BY PageOnTop
    <3> QED  BY <2>1, <3>1 DEF Position
  <2> QED  BY <2>5, <2>6 DEF s
<1>4. ASSUME NEW g, NEW gr, NEW h, NEW hr, NEW k, NEW kr, SameWords(g, gr, h, hr), SameWords(h, hr, k, kr)
      PROVE  SameWords(g, gr, k, kr)
  BY <1>4 DEF SameWords
<1>5. ASSUME NEW h0, NEW r0, NEW a, NEW value, NEW cts \in Versions, NEW f, Tree(h0, r0), Route(a) \in Paths,
             NEW l \in Levels, l # 0, NEW w, Walked(h0, r0, cts, Route(a), w, l)
      PROVE  Walked(h0, r0, cts, Route(a), CopyLevel(w, l, a, value, cts, f), l - 1)
  <2> USE <1>5
  <2> DEFINE n == CopyLevel(w, l, a, value, cts, f)
  <2>1. /\ Typed(h0, r0) /\ Grown(h0, r0, cts, w) /\ SameWords(w.h, w.root, h0, r0)
        /\ (w.ok => Position(w, l, Route(a), cts))
    BY DEF Tree, Walked
  <2>2. /\ Grown(h0, r0, cts, n) /\ SameWords(n.h, n.root, w.h, w.root)
        /\ n.ok => Position(n, l - 1, Route(a), cts)
    BY <2>1, Turn
  <2> HIDE DEF n
  <2>3. SameWords(n.h, n.root, h0, r0)
    BY <2>1, <2>2, <1>4
  <2>4. Walked(h0, r0, cts, Route(a), n, l - 1)
    BY <2>2, <2>3 DEF Walked
  <2> QED  BY <2>4 DEF n
<1> SUFFICES ASSUME NEW h0, NEW r0, NEW a, NEW value \in Nat, NEW cts \in Versions, NEW f, Tree(h0, r0),
                    Route(a) \in Paths, a.word \in Offsets, value # Null => cts # 0
             PROVE  Applies(h0, r0, a, value, cts, ApplyChange(h0, r0, a, value, cts, f))
  BY ZenonT(20)
<1> DEFINE q == Route(a)
<1>6. PICK g : /\ ApplyChange(h0, r0, a, value, cts, f) = g[0]
               /\ g[Top] = CopyLevel(Start(h0, r0), Top, a, value, cts, f)
               /\ \A l \in 0..(Top - 1) : g[l] = CopyLevel(g[l + 1], l, a, value, cts, f)
  BY <1>2
<1> DEFINE Ok(l) == Walked(h0, r0, cts, q, g[l], l - 1)
           S == {l \in Levels : l # 0 => Ok(l)}
<1>7. Top \in S
  <2>1. Walked(h0, r0, cts, q, Start(h0, r0), Top)
    <3>1. SameWords(h0, r0, h0, r0) /\ Start(h0, r0).h = h0 /\ Start(h0, r0).root = r0
      BY SameWordsSelf DEF Start
    <3>2. Grown(h0, r0, cts, Start(h0, r0)) /\ Position(Start(h0, r0), Top, q, cts)
      BY <1>3
    <3> QED  BY <3>1, <3>2 DEF Walked
  <2>2. Top \in Levels /\ Top # 0
    BY TopIs
  <2>3. Ok(Top)
    BY <1>6, <2>1, <2>2, <1>5
  <2> HIDE DEF Ok
  <2> QED  BY <2>2, <2>3
<1>8. ASSUME NEW k \in 0..(Top - 1), k + 1 \in S PROVE k \in S
  <2>1. k \in Levels /\ k + 1 # 0 /\ (k + 1) - 1 = k
    BY LevelBelow, TopIs
  <2>2. Walked(h0, r0, cts, q, g[k + 1], k)
    BY <1>8, <2>1
  <2>3. k # 0 => Ok(k)
    BY <1>6, <2>1, <2>2, <1>5
  <2> HIDE DEF Ok
  <2> QED  BY <2>1, <2>3
<1>9. Levels \subseteq S
  <2> HIDE DEF S
  <2> QED  BY <1>7, <1>8, Downward
<1>10. /\ 0 \in 0..(Top - 1) /\ 0 \in Levels /\ 0 + 1 \in Levels /\ 0 + 1 # 0 /\ (0 + 1) - 1 = 0
  BY TopIs DEF Levels
<1>11. Walked(h0, r0, cts, q, g[0 + 1], 0)
  BY <1>9, <1>10
<1>12. g[0] = CopyLevel(g[0 + 1], 0, a, value, cts, f)
  BY <1>6, <1>10
<1> DEFINE w == g[0 + 1]
           n == CopyLevel(w, 0, a, value, cts, f)
<1>13. Typed(h0, r0) /\ Grown(h0, r0, cts, w) /\ SameWords(w.h, w.root, h0, r0) /\ (w.ok => Position(w, 0, q, cts))
  BY <1>11 DEF Tree, Walked
<1> HIDE DEF w
<1>14. Applies(h0, r0, a, value, cts, n)
  <2>1. CASE value = Null
    <3>1. Grown(h0, r0, cts, n) /\ SameWords(n.h, n.root, w.h, w.root)
      BY <1>10, <1>13, <2>1, Turn
    <3> HIDE DEF n
    <3>2. SameWords(n.h, n.root, h0, r0)
      BY <1>13, <3>1, <1>4
    <3> QED  BY <2>1, <3>1, <3>2 DEF Applies
  <2>2. CASE value # Null
    <3>1. /\ Grown(h0, r0, cts, n) /\ (~n.ok => SameWords(n.h, n.root, w.h, w.root))
          /\ n.ok => WordSet(n.h, n.root, w.h, w.root, q, a.word, value)
      <4>1. LeafTurns(h0, r0, cts, w, a, value, CopyLevel(w, 0, a, value, cts, f))
        BY <1>13, <2>2, LeafTurn
      <4> QED  BY <1>13, <4>1 DEF LeafTurns
    <3> HIDE DEF n
    <3>2. ~n.ok => SameWords(n.h, n.root, h0, r0)
      BY <1>13, <3>1, <1>4
    <3>3. n.ok => WordSet(n.h, n.root, h0, r0, q, a.word, value)
      BY <1>13, <3>1 DEF WordSet, SameWords
    <3> QED  BY <2>2, <3>1, <3>2, <3>3 DEF Applies
  <2> QED  BY <2>1, <2>2
<1> QED  BY <1>6, <1>12, <1>14 DEF n, w

=============================================================================
