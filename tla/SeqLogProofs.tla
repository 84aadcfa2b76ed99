---------------------------- MODULE SeqLogProofs ----------------------------
(***************************************************************************)
(* The chunks of the log are neither used after they are freed, nor freed  *)
(* twice, nor lost, for every number of chunks, chunk size, entry sizes    *)
(* and batch size, as long as no insertion into log_cache fails for an     *)
(* entry of the current chunk.                                             *)
(***************************************************************************)
EXTENDS SeqLog, FiniteSetTheorems, TLAPS

\* Most leaves are logic, the others arithmetic.
USE ZenonT(5), SMTT(15)

\* The entries that free a chunk when they are deleted.
Firsts == {ts \in DOMAIN log : log[ts].first}

\* A chunk that an entry will free holds older entries only.
PrevOlder ==
  \A ts \in Firsts, u \in DOMAIN log : log[u].chunk = log[ts].prev => u < ts

\* What is in the current chunk lies before the place of the next entry.
BeforePos == \A ts \in DOMAIN log : log[ts].chunk = cur => log[ts].at + log[ts].len <= pos

\* The fields of master_log before the first entry and after the last.
Ends ==
  /\ cur = Null => room = 0
  /\ cur # Null => pos # 0
  /\ down => stop = Null /\ DOMAIN log = {}

\* The inductive invariant.
IInv == TypeOK /\ EntriesAlive /\ FreesOnce /\ NoneLeaked /\ PrevOlder /\ BeforePos /\ Ends

\* The entries of a batch are older than those it leaves.
LEMMA BatchOldest ==
  ASSUME TypeOK, stop # Null, NEW ts \in Batch, NEW u \in DOMAIN log \ Batch
  PROVE  ts < u
<1> DEFINE Below(x) == {v \in DOMAIN log : v < x}
<1>1. /\ DOMAIN log \subseteq Int /\ stop \in Int
      /\ next \in Int
  BY SeqLogAssumption DEF TypeOK, InvalidTs
<1>2. IsFiniteSet(DOMAIN log)
  <2>1. IsFiniteSet(1 .. next - 1)
    BY <1>1, FS_Interval
  <2> QED  BY <2>1, FS_Subset DEF TypeOK
<1>3. /\ ts \in DOMAIN log /\ ts < stop /\ Cardinality(Below(ts)) < DeleteBatch
      /\ ts \in Int /\ u \in Int
  BY <1>1 DEF Batch
<1>4. SUFFICES ASSUME u < ts PROVE FALSE
  <2>1. ts # u
    OBVIOUS
  <2> QED  BY <1>3, <2>1, <1>4
<1>5. /\ IsFiniteSet(Below(ts))
      /\ Below(u) \subseteq Below(ts)
  <2>1. Below(ts) \subseteq DOMAIN log
    OBVIOUS
  <2>2. Below(u) \subseteq Below(ts)
    BY <1>1, <1>3, <1>4
  <2> QED  BY <1>2, <2>1, <2>2, FS_Subset
<1>6. /\ Cardinality(Below(u)) <= Cardinality(Below(ts))
      /\ Cardinality(Below(u)) \in Nat /\ Cardinality(Below(ts)) \in Nat
  <2>1. IsFiniteSet(Below(u)) /\ Cardinality(Below(u)) <= Cardinality(Below(ts))
    BY <1>5, FS_Subset
  <2> QED  BY <1>5, <2>1, FS_CardinalityType
<1>7. Cardinality(Below(u)) < DeleteBatch /\ u < stop
  BY <1>1, <1>3, <1>4, <1>6, SeqLogAssumption
<1> QED  BY <1>7 DEF Batch

\* The first commit finds no chunk.
LEMMA InitIInv == Init => IInv
<1> SUFFICES ASSUME Init PROVE IInv
  OBVIOUS
<1>1. DOMAIN log = {}
  BY DEF Init
<1>2. TypeOK
  <2>1. next \in 1 .. MaxTs + 1 /\ pos \in Nat /\ room \in Nat /\ deleted \in 0 .. MaxTs
    BY SeqLogAssumption DEF Init
  <2>2. down \in BOOLEAN
    BY DEF Init
  <2>3. /\ alive \subseteq Chunks /\ cur = Null /\ stop = Null
    BY DEF Init
  <2> QED  BY <1>1, <2>1, <2>2, <2>3 DEF TypeOK
<1> QED
  BY <1>1, <1>2 DEF Init, IInv, EntriesAlive, FreesOnce, NoneLeaked, PrevOlder, BeforePos, Ends, Firsts

\* The entry of an append.
LEMMA EntryType ==
  ASSUME NEW n \in Sizes, NEW c \in Chunks, NEW at \in Nat, NEW prev \in Chunks \cup {Null}
  PROVE  /\ Entry(n, c, at, prev) \in LogEntry
         /\ Entry(n, c, at, prev).chunk = c /\ Entry(n, c, at, prev).at = at
         /\ Entry(n, c, at, prev).len = n
         /\ Entry(n, c, at, prev).first <=> at = 0
         /\ at = 0 => Entry(n, c, at, prev).prev = prev
<1>1. (at = 0) \in BOOLEAN /\ (IF at = 0 THEN prev ELSE Null) \in Chunks \cup {Null}
  OBVIOUS
<1> QED  BY <1>1 DEF Entry, LogEntry, Offset

\* The log and its readers after an append of entry e, in chunk e.chunk.
LEMMA AppendStep ==
  ASSUME IInv, ~down, next <= MaxTs, NEW n \in Sizes, NEW c \in Chunks, NEW at \in Nat, NEW size \in Nat,
         size >= n, Cut(n, c, at, size, TRUE), UNCHANGED <<stop, deleted, down>>, stop # InvalidTs,
         \/ at = 0 /\ c \notin alive
         \/ c = cur /\ at = pos /\ pos # 0
  PROVE  IInv'
<1> DEFINE e == Entry(n, c, at, cur)
           D == DOMAIN log
<1>t. /\ D \subseteq 1 .. next - 1 /\ next \in 1 .. MaxTs + 1 /\ MaxTs \in Nat
      /\ alive \subseteq Chunks /\ cur \in Chunks \cup {Null} /\ pos \in Nat
      /\ n \in Nat \ {0} /\ Null \notin Chunks
      /\ \A ts \in D : log[ts] \in LogEntry
  BY SeqLogAssumption DEF IInv, TypeOK
<1>e. /\ e \in LogEntry /\ e.chunk = c /\ e.at = at /\ e.len = n
      /\ e.first <=> at = 0
      /\ at = 0 => e.prev = cur
  BY <1>t, EntryType
<1>n. next \notin D /\ (\A ts \in D : ts < next /\ ts \in Int) /\ next \in Int
  BY <1>t
<1>d. /\ DOMAIN log' = D \cup {next}
      /\ log'[next] = e
      /\ \A ts \in D : log'[ts] = log[ts]
      /\ next' = next + 1 /\ cur' = c /\ pos' = at + n /\ room' = size - n
      /\ alive' = alive \cup {c}
      /\ stop' = stop /\ deleted' = deleted /\ down' = down
  BY <1>n DEF Cut
<1>u. ~down'
  BY <1>d
<1>c. \A ts \in D : log[ts].chunk \in alive /\ log[ts].at \in Nat /\ log[ts].len \in Nat
  BY <1>t, SeqLogAssumption DEF IInv, EntriesAlive, LogEntry, Offset
<1>p. \A ts \in D : log[ts].first /\ log[ts].prev # Null => log[ts].prev \in alive /\ log[ts].prev # cur
  BY DEF IInv, FreesOnce
<1>q. cur # Null => cur \in alive
  BY DEF IInv, EntriesAlive
<1>1. TypeOK'
  <2>1. DOMAIN log' \subseteq 1 .. next' - 1 /\ next' \in 1 .. MaxTs + 1
    BY <1>d, <1>t
  <2>2. \A ts \in DOMAIN log' : log'[ts] \in LogEntry
    BY <1>d, <1>t, <1>e
  <2>3. pos' \in Nat /\ room' \in Nat
    BY <1>d, <1>t
  <2>4. alive' \subseteq Chunks /\ cur' \in Chunks
    BY <1>d, <1>t
  <2>5. /\ stop' \in 0 .. MaxTs \cup {InvalidTs, Null}
        /\ deleted' \in 0 .. MaxTs \cup {InvalidTs}
        /\ down' \in BOOLEAN
    BY <1>d DEF IInv, TypeOK
  <2> QED  BY <2>1, <2>2, <2>3, <2>4, <2>5 DEF TypeOK, InvalidTs
<1>2. EntriesAlive'
  <2>1. cur' \in alive' /\ \A ts \in DOMAIN log' : log'[ts].chunk \in alive'
    BY <1>d, <1>c, <1>e
  <2>2. ASSUME NEW ts \in D, log[ts].chunk = c
        PROVE  log[ts].at + log[ts].len <= at
    BY <2>2, <1>c DEF IInv, BeforePos
  <2>3. ASSUME NEW ts \in DOMAIN log', NEW u \in DOMAIN log', ts < u, log'[ts].chunk = log'[u].chunk
        PROVE  log'[ts].at + log'[ts].len <= log'[u].at
    <3>1. ts \in D
      BY <2>3, <1>d, <1>n
    <3>2. CASE u = next
      BY <3>1, <3>2, <2>2, <2>3, <1>d, <1>e
    <3>3. CASE u \in D
      BY <3>1, <3>3, <2>3, <1>d DEF IInv, EntriesAlive
    <3> QED  BY <3>2, <3>3, <1>d
  <2> QED  BY <2>1, <2>3 DEF EntriesAlive
<1>3. FreesOnce'
  <2>1. \A ts \in D : log[ts].first /\ log[ts].prev # Null => log[ts].prev # c
    BY <1>p
  <2>2. ASSUME at = 0, cur # Null PROVE cur \in alive' /\ cur # c
    BY <2>2, <1>q, <1>d
  <2>3. ASSUME NEW ts \in DOMAIN log', log'[ts].first, log'[ts].prev # Null
        PROVE  /\ log'[ts].prev \in alive' /\ log'[ts].prev # cur'
               /\ \A u \in DOMAIN log' : u # ts /\ log'[u].first => log'[u].prev # log'[ts].prev
    <3>1. CASE ts = next
      <4>1. at = 0 /\ log'[ts].prev = cur
        BY <3>1, <2>3, <1>d, <1>e
      <4>2. \A u \in D : log[u].first => log[u].prev # cur
        BY <1>p, <4>1, <2>3
      <4> QED  BY <3>1, <4>1, <4>2, <2>2, <2>3, <1>d
    <3>2. CASE ts \in D
      <4>1. log'[ts].prev \in alive' /\ log'[ts].prev # cur'
        BY <3>2, <2>3, <2>1, <1>p, <1>d
      <4>2. ASSUME NEW u \in D, u # ts, log[u].first PROVE log[u].prev # log[ts].prev
        BY <3>2, <4>2, <2>3, <1>d DEF IInv, FreesOnce
      <4>3. log'[next].first => log'[next].prev # log'[ts].prev
        BY <3>2, <2>3, <1>p, <1>d, <1>e
      <4> QED  BY <3>2, <4>1, <4>2, <4>3, <1>d
    <3> QED  BY <3>1, <3>2, <1>d
  <2> QED  BY <2>3 DEF FreesOnce
<1>4. NoneLeaked'
  <2>1. ASSUME NEW x \in alive, x # cur PROVE \E ts \in D : log[ts].first /\ log[ts].prev = x
    BY <2>1 DEF IInv, NoneLeaked
  <2>2. ASSUME NEW x \in alive', x # cur'
        PROVE  \E ts \in DOMAIN log' : log'[ts].first /\ log'[ts].prev = x
    <3>1. x \in alive
      BY <2>2, <1>d
    <3>2. CASE x # cur
      BY <3>1, <3>2, <2>1, <1>d
    <3>3. CASE x = cur
      BY <3>3, <2>2, <1>d, <1>e
    <3> QED  BY <3>2, <3>3
  <2>3. alive' \subseteq {cur'} \cup {log'[ts].prev : ts \in {u \in DOMAIN log' : log'[u].first}}
    BY <2>2
  <2> QED  BY <2>3, <1>u DEF NoneLeaked
<1>5. PrevOlder'
  <2>1. ASSUME NEW ts \in DOMAIN log', log'[ts].first, NEW u \in DOMAIN log', log'[u].chunk = log'[ts].prev
        PROVE  u < ts
    <3>1. CASE ts = next
      <4>1. u # next
        <5>1. at = 0 /\ log'[ts].prev = cur
          BY <3>1, <2>1, <1>d, <1>e
        <5>2. c # cur
          BY <5>1, <1>q, <1>t
        <5> QED  BY <5>1, <5>2, <2>1, <1>d, <1>e
      <4> QED  BY <3>1, <4>1, <1>n, <1>d
    <3>2. CASE ts \in D /\ u \in D
      BY <3>2, <2>1, <1>d DEF IInv, PrevOlder, Firsts
    <3>3. CASE ts \in D /\ u = next
      BY <3>3, <2>1, <1>d, <1>e, <1>p, <1>t
    <3> QED  BY <3>1, <3>2, <3>3, <1>d
  <2> QED  BY <2>1 DEF PrevOlder, Firsts
<1>6. BeforePos'
  <2>1. ASSUME NEW ts \in D, log[ts].chunk = c PROVE log[ts].at + log[ts].len <= at + n
    BY <2>1, <1>c, <1>t DEF IInv, BeforePos
  <2> QED  BY <2>1, <1>d, <1>e, <1>t DEF BeforePos
<1>7. Ends'
  <2>1. cur' # Null /\ pos' # 0
    BY <1>d, <1>t
  <2> QED  BY <2>1, <1>u DEF Ends
<1> QED  BY <1>1, <1>2, <1>3, <1>4, <1>5, <1>6, <1>7 DEF IInv

\* One batch of a deletion: what the first entries of the batch point to is freed.
LEMMA DeleteStep == IInv /\ DeleteBatchStep => IInv'
<1> SUFFICES ASSUME IInv, DeleteBatchStep PROVE IInv'
  OBVIOUS
<1> DEFINE S == Batch
           D == DOMAIN log
<1>d. /\ DOMAIN log' = D \ S /\ \A ts \in D \ S : log'[ts] = log[ts]
      /\ alive' = alive \ FreedBy(S)
      /\ next' = next /\ cur' = cur /\ pos' = pos /\ room' = room
      /\ stop' = stop /\ deleted' = deleted /\ down' = down
      /\ stop # Null
  BY DEF DeleteBatchStep
<1>o. \A ts \in S, u \in D \ S : ts < u
  BY <1>d, BatchOldest DEF IInv
<1>s. S \subseteq D /\ \A ts \in D : ts \in Int
  BY DEF Batch, IInv, TypeOK
<1>f. \A x \in FreedBy(S) : \E ts \in S : log[ts].first /\ log[ts].prev = x
  BY DEF FreedBy
<1>g. \A ts \in S : log[ts].first => log[ts].prev \in FreedBy(S)
  BY DEF FreedBy
<1>1. TypeOK'
  <2>1. DOMAIN log' \subseteq 1 .. next' - 1 /\ alive' \subseteq Chunks
    BY <1>d DEF IInv, TypeOK
  <2>2. \A ts \in DOMAIN log' : log'[ts] \in LogEntry
    BY <1>d DEF IInv, TypeOK
  <2> QED  BY <2>1, <2>2, <1>d DEF IInv, TypeOK, InvalidTs
<1>2. EntriesAlive'
  <2>1. ASSUME ~down, cur # Null PROVE cur \in alive'
    <3>1. cur \in alive
      BY <2>1 DEF IInv, EntriesAlive
    <3>2. cur \notin FreedBy(S)
      BY <2>1, <1>f, <1>s DEF IInv, FreesOnce
    <3> QED  BY <3>1, <3>2, <1>d
  <2>2. ASSUME NEW u \in D \ S PROVE log[u].chunk \in alive'
    <3>1. log[u].chunk \in alive
      BY DEF IInv, EntriesAlive
    <3>2. ASSUME NEW ts \in S, log[ts].first PROVE log[ts].prev # log[u].chunk
      <4>1. ts < u /\ ts \in Int /\ u \in Int
        BY <1>o, <1>s
      <4>2. log[u].chunk = log[ts].prev => u < ts
        BY <3>2, <1>s DEF IInv, PrevOlder, Firsts
      <4> QED  BY <4>1, <4>2
    <3> QED  BY <3>1, <3>2, <1>f, <1>d
  <2>3. \A ts, u \in DOMAIN log' : ts < u /\ log'[ts].chunk = log'[u].chunk
                                   => log'[ts].at + log'[ts].len <= log'[u].at
    BY <1>d DEF IInv, EntriesAlive
  <2> QED  BY <2>1, <2>2, <2>3, <1>d DEF EntriesAlive
<1>3. FreesOnce'
  <2>1. ASSUME NEW ts \in D \ S, log[ts].first, log[ts].prev # Null
        PROVE  /\ log[ts].prev \in alive' /\ log[ts].prev # cur
               /\ \A u \in D \ S : u # ts /\ log[u].first => log[u].prev # log[ts].prev
    <3>1. /\ log[ts].prev \in alive /\ log[ts].prev # cur
          /\ \A u \in D : u # ts /\ log[u].first => log[u].prev # log[ts].prev
      BY <2>1 DEF IInv, FreesOnce
    <3>2. log[ts].prev \notin FreedBy(S)
      BY <3>1, <1>f, <1>s
    <3> QED  BY <3>1, <3>2, <1>d
  <2> QED  BY <2>1, <1>d DEF FreesOnce
<1>4. NoneLeaked'
  <2>1. ASSUME NEW x \in alive', x # cur
        PROVE  \E ts \in DOMAIN log' : log'[ts].first /\ log'[ts].prev = x
    <3>1. x \in alive /\ x \notin FreedBy(S)
      BY <1>d
    <3>2. PICK ts \in D : log[ts].first /\ log[ts].prev = x
      BY <3>1, <2>1 DEF IInv, NoneLeaked
    <3>3. ts \notin S
      BY <3>1, <3>2, <1>g
    <3> QED  BY <3>2, <3>3, <1>d
  <2>2. alive' \subseteq {cur'} \cup {log'[ts].prev : ts \in {u \in DOMAIN log' : log'[u].first}}
    BY <2>1, <1>d
  <2>3. down => alive = {}
    BY DEF IInv, NoneLeaked
  <2>4. alive = {} => alive' = {}
    BY <1>d
  <2> QED  BY <2>2, <2>3, <2>4, <1>d DEF NoneLeaked
<1>5. PrevOlder'
  BY <1>d DEF IInv, PrevOlder, Firsts
<1>6. BeforePos'
  BY <1>d DEF IInv, BeforePos
<1>7. Ends'
  <2>1. ~down
    BY <1>d DEF IInv, Ends
  <2>2. (cur' = Null => room' = 0) /\ (cur' # Null => pos' # 0)
    BY <1>d DEF IInv, Ends
  <2> QED  BY <2>1, <2>2, <1>d DEF Ends
<1> QED  BY <1>1, <1>2, <1>3, <1>4, <1>5, <1>6, <1>7 DEF IInv

\* The end of a deletion; at the end of the whole log nothing is left to free but the
\* current chunk.
LEMMA DoneStep == IInv /\ DeleteDone => IInv'
<1> SUFFICES ASSUME IInv, DeleteDone PROVE IInv'
  OBVIOUS
<1>d. /\ log' = log /\ next' = next /\ cur' = cur /\ pos' = pos
      /\ deleted' = stop /\ stop' = Null /\ stop # Null
      /\ \A ts \in DOMAIN log : ts >= stop
  BY DEF DeleteDone
<1>n. ~down
  BY <1>d DEF IInv, Ends
<1>s. stop \in 0 .. MaxTs \cup {InvalidTs}
  BY <1>d DEF IInv, TypeOK
<1>1. CASE stop # InvalidTs
  <2>1. alive' = alive /\ room' = room /\ down' = down
    BY <1>1 DEF DeleteDone
  <2>2. TypeOK'
    BY <1>d, <1>s, <2>1 DEF IInv, TypeOK, InvalidTs
  <2>3. EntriesAlive' /\ FreesOnce' /\ NoneLeaked' /\ PrevOlder' /\ BeforePos'
    BY <1>d, <2>1 DEF IInv, EntriesAlive, FreesOnce, NoneLeaked, PrevOlder, BeforePos, Firsts
  <2>4. Ends'
    BY <1>d, <1>n, <2>1 DEF IInv, Ends
  <2> QED  BY <2>2, <2>3, <2>4 DEF IInv
<1>2. CASE stop = InvalidTs
  <2>1. alive' = alive \ {cur} /\ room' = 0 /\ down' = TRUE
    BY <1>2 DEF DeleteDone
  <2>2. DOMAIN log = {}
    <3>1. \A ts \in DOMAIN log : ts \in Int /\ ts < MaxTs + 2
      BY SeqLogAssumption DEF IInv, TypeOK
    <3>2. stop = MaxTs + 2 /\ MaxTs \in Int
      BY <1>2, SeqLogAssumption DEF InvalidTs
    <3>3. ASSUME NEW ts \in DOMAIN log PROVE FALSE
      <4>1. ts >= MaxTs + 2
        BY <1>d, <3>2
      <4> QED  BY <3>1, <3>2, <4>1
    <3> QED  BY <3>3
  <2>3. alive' = {}
    BY <2>1, <2>2 DEF IInv, NoneLeaked
  <2>4. TypeOK'
    <3>1. room' \in Nat /\ alive' \subseteq Chunks
      BY <2>1, <2>3
    <3>2. down' \in BOOLEAN
      BY <2>1
    <3> QED  BY <3>1, <3>2, <1>d, <1>s DEF IInv, TypeOK, InvalidTs
  <2>5. EntriesAlive' /\ FreesOnce' /\ PrevOlder' /\ BeforePos'
    BY <1>d, <2>1, <2>2 DEF EntriesAlive, FreesOnce, PrevOlder, BeforePos, Firsts
  <2>6. NoneLeaked'
    BY <2>3 DEF NoneLeaked
  <2>7. Ends'
    <3>1. cur # Null => pos # 0
      BY DEF IInv, Ends
    <3>2. (cur' = Null => room' = 0) /\ (cur' # Null => pos' # 0)
      BY <3>1, <1>d, <2>1
    <3>3. DOMAIN log' = {} /\ stop' = Null
      BY <1>d, <2>2
    <3> QED  BY <3>2, <3>3 DEF Ends
  <2> QED  BY <2>4, <2>5, <2>6, <2>7 DEF IInv
<1> QED  BY <1>1, <1>2

\* An append whose insertion does not fail, or fails in a new chunk.
LEMMA CreateStep ==
  ASSUME InsertFails = FALSE, IInv, NEW n \in Sizes, Create(n)
  PROVE  IInv' \/ UNCHANGED vars
<1>t. /\ n \in Nat \ {0} /\ ChunkSize \in Nat
      /\ pos \in Nat /\ room \in Nat /\ cur \in Chunks \cup {Null}
  BY SeqLogAssumption DEF IInv, TypeOK
<1>c. ~down /\ next <= MaxTs /\ UNCHANGED <<stop, deleted, down>> /\ stop # InvalidTs
  BY DEF Create
<1>1. ASSUME NEW c \in Chunks \ alive, Cut(n, c, 0, Larger(ChunkSize, n), TRUE)
      PROVE  IInv'
  <2>1. Larger(ChunkSize, n) \in Nat /\ Larger(ChunkSize, n) >= n
    BY <1>t DEF Larger
  <2> QED  BY <1>1, <1>c, <2>1, AppendStep
<1>2. ASSUME NEW c \in Chunks \ alive, Cut(n, c, 0, Larger(ChunkSize, n), FALSE)
      PROVE  UNCHANGED vars
  BY <1>2, <1>c DEF Cut, vars
<1>3. ASSUME room >= n, Cut(n, cur, pos, room, TRUE)
      PROVE  IInv'
  <2>1. cur # Null /\ cur \in Chunks /\ pos # 0
    BY <1>3, <1>t DEF IInv, Ends
  <2> QED  BY <1>3, <1>c, <1>t, <2>1, AppendStep
<1> QED
  <2>1. PICK ok \in BOOLEAN :
          \/ /\ room < n
             /\ \E c \in Chunks \ alive : Cut(n, c, 0, Larger(ChunkSize, n), ok)
          \/ /\ room >= n
             /\ ok \/ InsertFails
             /\ Cut(n, cur, pos, room, ok)
    BY DEF Create
  <2>2. CASE ok = TRUE
    BY <2>1, <2>2, <1>1, <1>3
  <2>3. CASE ok = FALSE
    BY <2>1, <2>3, <1>2
  <2> QED  BY <2>2, <2>3

\* The start of a deletion changes stop only.
LEMMA StartStep == IInv /\ (GcStart \/ Destroy) => IInv'
<1> SUFFICES ASSUME IInv, GcStart \/ Destroy PROVE IInv'
  OBVIOUS
<1>1. /\ log' = log /\ next' = next /\ alive' = alive /\ cur' = cur /\ pos' = pos
      /\ room' = room /\ deleted' = deleted /\ down' = down /\ ~down
  BY DEF GcStart, Destroy
<1>2. stop' \in 0 .. MaxTs \cup {InvalidTs}
  BY SeqLogAssumption DEF GcStart, Destroy, IInv, TypeOK
<1>3. TypeOK'
  BY <1>1, <1>2 DEF IInv, TypeOK, InvalidTs
<1>4. EntriesAlive' /\ FreesOnce' /\ NoneLeaked' /\ PrevOlder' /\ BeforePos'
  BY <1>1 DEF IInv, EntriesAlive, FreesOnce, NoneLeaked, PrevOlder, BeforePos, Firsts
<1>5. Ends'
  BY <1>1 DEF IInv, Ends
<1> QED  BY <1>3, <1>4, <1>5 DEF IInv

\* The invariant depends on the variables only.
LEMMA Stutter == IInv /\ UNCHANGED vars => IInv'
<1> SUFFICES ASSUME IInv, UNCHANGED vars PROVE IInv'
  OBVIOUS
<1>1. /\ log' = log /\ next' = next /\ alive' = alive /\ cur' = cur /\ pos' = pos
      /\ room' = room /\ stop' = stop /\ deleted' = deleted /\ down' = down
  BY DEF vars
<1> QED
  BY <1>1 DEF IInv, TypeOK, EntriesAlive, FreesOnce, NoneLeaked, PrevOlder, BeforePos, Firsts, Ends, InvalidTs

\* IInv is inductive: of all the steps of committers, collector and unloading.
THEOREM LogInvariant ==
  ASSUME InsertFails = FALSE PROVE Spec => []IInv
<1>1. IInv /\ [Next]_vars => IInv'
  <2> SUFFICES ASSUME IInv, [Next]_vars PROVE IInv'
    OBVIOUS
  <2>1. ASSUME NEW n \in Sizes, Create(n) PROVE IInv'
    BY <2>1, CreateStep, Stutter
  <2>2. CASE GcStart \/ Destroy
    BY <2>2, StartStep
  <2>3. CASE DeleteBatchStep
    BY <2>3, DeleteStep
  <2>4. CASE DeleteDone
    BY <2>4, DoneStep
  <2>5. CASE UNCHANGED vars
    BY <2>5, Stutter
  <2> QED  BY <2>1, <2>2, <2>3, <2>4, <2>5 DEF Next
<1> QED  BY <1>1, InitIInv, PTL DEF Spec

\* Readers of log_cache never follow a pointer into a freed chunk, appends never
\* write into one, and no two log entries overlap.
THEOREM EntriesAlwaysAlive ==
  ASSUME InsertFails = FALSE PROVE Spec => []EntriesAlive
<1>1. IInv => EntriesAlive
  BY DEF IInv
<1> QED  BY <1>1, LogInvariant, PTL

\* sivfs_delete_log frees no chunk twice.
THEOREM ChunksFreedOnce ==
  ASSUME InsertFails = FALSE PROVE Spec => []FreesOnce
<1>1. IInv => FreesOnce
  BY DEF IInv
<1> QED  BY <1>1, LogInvariant, PTL

\* Every chunk is freed in the end by an entry in the log or at unloading.
THEOREM ChunksNeverLeaked ==
  ASSUME InsertFails = FALSE PROVE Spec => []NoneLeaked
<1>1. IInv => NoneLeaked
  BY DEF IInv
<1> QED  BY <1>1, LogInvariant, PTL
==============================================================================
