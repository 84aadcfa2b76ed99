------------------------- MODULE SnapshotIsolation -------------------------
(***************************************************************************)
(* What sivfs promises to the users of transactions: snapshot isolation    *)
(* with first-committer-wins, in real-time order.                          *)
(*                                                                         *)
(* The store is a history of transaction attempts.  Attempt i wrote the    *)
(* words history[i].ws and was either kept or dropped (aborted).  A user   *)
(* in a transaction reads the words as left by the kept attempts up to its *)
(* snapshot.  An attempt is kept only if no kept attempt after its         *)
(* snapshot wrote one of its words.                                        *)
(***************************************************************************)
EXTENDS Naturals

CONSTANTS
  Threads,    \* the threads that run transactions
  Words,      \* the words of the files: pairs of inode number and offset
  NoSnapshot, \* the snapshot of a thread that is not in a transaction
  MaxVersion  \* bound on the length of the history

VARIABLES
  history,    \* history[i]: the i-th attempt, for i in 1..version
  version,    \* how many attempts have been decided
  snapshot,   \* snapshot[t]: the version thread t reads, or NoSnapshot
  floor       \* floor[t]: the oldest version the next snapshot of t may be

siVars == <<history, version, snapshot, floor>>

Blank == [ws |-> {}, aborted |-> FALSE]

\* Two attempts i < j are concurrent when j's snapshot is older than i.
KeptConflict(base, W) ==
  \E i \in 1..version :
    /\ base < i
    /\ ~history[i].aborted
    /\ history[i].ws \cap W # {}

SIInit ==
  /\ history = [i \in 1..MaxVersion |-> Blank]
  /\ version = 0
  /\ snapshot = [t \in Threads |-> NoSnapshot]
  /\ floor = [t \in Threads |-> 0]

\* Thread t asks for a new transaction: it may not be given an older
\* version than the one that is current now.
Ask(t) ==
  /\ floor' = [floor EXCEPT ![t] = version]
  /\ UNCHANGED <<history, version, snapshot>>

\* The attempt of t to write W is decided.  The next snapshot of t must
\* contain it.
Decide(t, W, drop) ==
  /\ version < MaxVersion
  /\ snapshot[t] # NoSnapshot
  /\ ~drop => ~KeptConflict(snapshot[t], W)
  /\ version' = version + 1
  /\ history' = [history EXCEPT ![version + 1] = [ws |-> W, aborted |-> drop]]
  /\ floor' = [floor EXCEPT ![t] = version + 1]
  /\ UNCHANGED snapshot

Observe(t, s) ==
  /\ floor[t] <= s
  /\ s <= version
  /\ snapshot' = [snapshot EXCEPT ![t] = s]
  /\ UNCHANGED <<history, version, floor>>

Leave(t) ==
  /\ snapshot' = [snapshot EXCEPT ![t] = NoSnapshot]
  /\ UNCHANGED <<history, version, floor>>

SINext ==
  \E t \in Threads :
    \/ Ask(t)
    \/ \E W \in SUBSET Words, drop \in BOOLEAN : Decide(t, W, drop)
    \/ \E s \in 0..MaxVersion : Observe(t, s)
    \/ Leave(t)

SISpec == SIInit /\ [][SINext]_siVars
=============================================================================
