---------------------------- MODULE SlabAllocator ----------------------------
(***************************************************************************)
(* The user-space allocator of small objects (lib/sivfs_allocator.h), for  *)
(* one bin.  A thread takes blocks from the kernel, cuts them lazily into  *)
(* objects, and keeps the free ones in a circular list.  The list's nodes  *)
(* live in the transactional file, the pointer to its head is the thread's *)
(* own: when a transaction aborts, the file goes back by itself and the    *)
(* library puts the head back.  Objects may be freed by any thread.        *)
(*                                                                         *)
(* Addresses count units within the blocks; the block's own header and     *)
(* footer are left out.  The file is a memory of words, with the           *)
(* first-committer-wins rule of the kernel for each word.                  *)
(***************************************************************************)
EXTENDS Integers, FiniteSets, SequencesExt

CONSTANTS Threads,
          Blocks,      \* starts of the blocks the kernel can hand out
          BlockSize,   \* units in a block
          Elt,         \* free_list_size: units of an object of the bin
          MaxRestore,  \* bound on the heads a transaction replaces
          Null

ASSUME SlabAssumption ==
  /\ MaxRestore \in Nat \ {0}
  /\ Elt \in Nat \ {0} /\ BlockSize \in Nat /\ BlockSize >= Elt
  /\ Blocks \subseteq Nat /\ Null \notin Nat
  /\ \A a, b \in Blocks : a < b => a + BlockSize <= b

VARIABLES
  mem,       \* the file as committed: the words of the region at each address
  view,      \* the file as each thread's transaction sees it
  dirty,     \* the words each transaction has written
  stale,     \* the words others have committed since each transaction began
  slot,      \* bin->free_list of each thread: the head of its list
  restore,   \* restore_old_free_list_values of each thread
  objs,      \* the objects that the committed data refers to
  seen,      \* the objects each transaction can refer to
  new,       \* the objects each transaction has allocated
  gone,      \* the committed objects each transaction has freed
  tentative, \* the blocks each transaction has got from the kernel
  blocks     \* all blocks in use

fileVars == <<mem, objs>>
txnVars == <<view, dirty, slot, restore, seen, new, gone>>
vars == <<fileVars, txnVars, stale, tentative, blocks>>

Addr == UNION {{b + i * Elt : i \in 0 .. (BlockSize \div Elt) - 1} : b \in Blocks}
Word == Addr \X {"size", "next", "prev"}

\* struct sivfs_allocated_region: the size word also holds the place in the slab,
\* whether the region is free, and whether it is the head of its list.
Header(n, index, free, head) == [n |-> n, index |-> index, free |-> free, head |-> head]
Zero == [size |-> Header(0, 0, FALSE, FALSE), next |-> Null, prev |-> Null]

Init ==
  /\ mem = [a \in Addr |-> Zero]
  /\ view = [t \in Threads |-> mem]
  /\ dirty = [t \in Threads |-> {}]
  /\ stale = [t \in Threads |-> {}]
  /\ slot = [t \in Threads |-> Null]
  /\ restore = [t \in Threads |-> <<>>]
  /\ objs = {}
  /\ seen = [t \in Threads |-> {}]
  /\ new = [t \in Threads |-> {}]
  /\ gone = [t \in Threads |-> {}]
  /\ tentative = [t \in Threads |-> {}]
  /\ blocks = {}

-----------------------------------------------------------------------------
(* The steps of an operation, on s: what the thread sees, writes and keeps *)

\* sivfs_write_ws.
Write(s, a, word, v) ==
  [s EXCEPT !.view[a][word] = v, !.dirty = @ \cup {<<a, word>>}]

\* sivfs_alloc_lh_add_ws: region a comes first after the head.
Add(s, list, a) ==
  LET target == s.view[list].next
      prev == s.view[target].prev
      s1 == Write(s, a, "next", target)
      s2 == Write(s1, a, "prev", prev)
      s3 == Write(s2, prev, "next", a)
  IN  Write(s3, target, "prev", a)

\* sivfs_alloc_lh_remove_ws.
Unlink(s, a) ==
  LET prev == s.view[a].prev
      next == s.view[a].next
      s1 == Write(s, a, "prev", Null)
      s2 == Write(s1, a, "next", Null)
      s3 == Write(s2, prev, "next", next)
  IN  Write(s3, next, "prev", prev)

\* sivfs_set_free_list: the old head is remembered for an abort.
SetFreeList(s, a) == [s EXCEPT !.slot = a, !.restore = Append(@, s.slot)]

\* sivfs_get_free_list_slot when the list is empty: block b becomes a list of one
\* free region.
NewSlab(s, b) ==
  LET s1 == Write(s, b, "size", Header(BlockSize, 0, TRUE, TRUE))
      s2 == Write(s1, b, "next", b)
  IN  SetFreeList(Write(s2, b, "prev", b), b)

\* Variant: the rest keeps the index of the region it was cut from.
SplitSameIndex(s, a) ==
  LET h == s.view[a].size
      s1 == Write(s, a, "size", [h EXCEPT !.n = Elt])
      s2 == Write(s1, a + Elt, "size", Header(h.n - Elt, h.index, TRUE, FALSE))
  IN  IF h.n >= 2 * Elt THEN Add(s2, s.slot, a + Elt) ELSE s

\* A region with room for two objects is cut, and the rest goes on the list.
Split(s, a) ==
  LET h == s.view[a].size
      s1 == Write(s, a, "size", [h EXCEPT !.n = Elt])
      s2 == Write(s1, a + Elt, "size", Header(h.n - Elt, h.index + 1, TRUE, FALSE))
  IN  IF h.n >= 2 * Elt THEN Add(s2, s.slot, a + Elt) ELSE s

\* Region a, cut to size, is marked allocated and leaves the list; the head, which
\* is only taken when it is alone, leaves the thread without a list.
Take(s, a) ==
  LET s1 == Write(s, a, "size", Header(Elt, s.view[a].size.index, FALSE, FALSE))
  IN  IF a = s.slot THEN SetFreeList(s1, Null) ELSE Unlink(s1, a)

\* The loop of sivfs_malloc_ws takes the first region of the list, the head last;
\* when it has split the head it starts again.
First(s) == s.view[s.slot].next
Prepared(s) == IF First(s) = s.slot THEN Split(s, s.slot) ELSE s
MallocIn(s) ==
  LET s1 == Prepared(s)
  IN  Take(Split(s1, First(s1)), First(s1))

\* Variant: the first header of the slab is written again too.
FreeTouchesSlab(s, a) ==
  LET h == s.view[a].size
      base == a - h.index * Elt
      s1 == IF s.slot = Null
            THEN SetFreeList(Write(Write(s, a, "prev", a), a, "next", a), a)
            ELSE Add(s, s.slot, a)
      s2 == Write(s1, a, "size", Header(h.n, h.index, TRUE, s.slot = Null))
  IN  Write(s2, base, "size", s2.view[base].size)

\* sivfs_free_ws: object a starts a list or goes onto the thread's.
FreeIn(s, a) ==
  LET h == s.view[a].size
      s1 == IF s.slot = Null
            THEN SetFreeList(Write(Write(s, a, "prev", a), a, "next", a), a)
            ELSE Add(s, s.slot, a)
  IN  Write(s1, a, "size", Header(h.n, h.index, TRUE, s.slot = Null))

-----------------------------------------------------------------------------
(* The operations *)

State(t) == [view |-> view[t], dirty |-> dirty[t], slot |-> slot[t], restore |-> restore[t]]

Becomes(t, s) ==
  /\ view' = [view EXCEPT ![t] = s.view]
  /\ dirty' = [dirty EXCEPT ![t] = s.dirty]
  /\ slot' = [slot EXCEPT ![t] = s.slot]
  /\ restore' = [restore EXCEPT ![t] = s.restore]

\* The object that a call of sivfs_malloc_ws returns.
Allocated(s) == First(Prepared(s))

\* sivfs_malloc_ws, with a block of the kernel if the thread has no list.
Malloc(t) ==
  /\ Len(restore[t]) < MaxRestore
  /\ \E got \in IF slot[t] = Null THEN {{b} : b \in Blocks \ blocks} ELSE {{}} :
       LET s == IF got = {} THEN State(t) ELSE NewSlab(State(t), CHOOSE b \in got : TRUE)
           a == Allocated(s)
       IN  /\ Becomes(t, MallocIn(s))
           /\ seen' = [seen EXCEPT ![t] = @ \cup {a}]
           /\ new' = [new EXCEPT ![t] = @ \cup {a}]
           /\ blocks' = blocks \cup got
           /\ tentative' = [tentative EXCEPT ![t] = @ \cup got]
           /\ UNCHANGED <<fileVars, stale, gone>>

\* sivfs_free_ws of an object that the transaction refers to.
Free(t, a) ==
  /\ Len(restore[t]) < MaxRestore
  /\ Becomes(t, FreeIn(State(t), a))
  /\ seen' = [seen EXCEPT ![t] = @ \ {a}]
  /\ new' = [new EXCEPT ![t] = @ \ {a}]
  /\ gone' = [gone EXCEPT ![t] = IF a \in new[t] THEN @ ELSE @ \cup {a}]
  /\ UNCHANGED <<fileVars, stale, tentative, blocks>>

\* Thread t goes on with file f and objects o.
Begin(t, f, o) ==
  /\ view' = [view EXCEPT ![t] = f]
  /\ seen' = [seen EXCEPT ![t] = o]
  /\ dirty' = [dirty EXCEPT ![t] = {}]
  /\ restore' = [restore EXCEPT ![t] = <<>>]
  /\ new' = [new EXCEPT ![t] = {}]
  /\ gone' = [gone EXCEPT ![t] = {}]
  /\ tentative' = [tentative EXCEPT ![t] = {}]

\* The commit ioctl succeeds: no word was committed by another meanwhile.
\* sivfs_lib_allocation_on_commit forgets the heads.
Commit(t) ==
  /\ dirty[t] # {} /\ dirty[t] \cap stale[t] = {}
  /\ mem' = [a \in Addr |-> [w \in {"size", "next", "prev"} |->
               IF <<a, w>> \in dirty[t] THEN view[t][a][w] ELSE mem[a][w]]]
  /\ objs' = (objs \ gone[t]) \cup new[t]
  /\ stale' = [u \in Threads |-> IF u = t THEN {} ELSE stale[u] \cup dirty[t]]
  /\ Begin(t, mem', objs')
  /\ UNCHANGED <<slot, blocks>>

\* Variant: the heads are put back in the order in which they were replaced.
RestoredForward(t) == IF restore[t] = <<>> THEN slot[t] ELSE Last(restore[t])

\* The heads are put back, the newest first.
Restored(t) == IF restore[t] = <<>> THEN slot[t] ELSE Head(restore[t])

\* The transaction aborts: the kernel takes its blocks back, and
\* sivfs_lib_allocation_on_commit puts back the heads.
Abort(t) ==
  /\ dirty[t] # {}
  /\ slot' = [slot EXCEPT ![t] = Restored(t)]
  /\ blocks' = blocks \ tentative[t]
  /\ stale' = [stale EXCEPT ![t] = {}]
  /\ Begin(t, mem, objs)
  /\ UNCHANGED fileVars

\* A thread that has written nothing moves on to the latest snapshot.
Refresh(t) ==
  /\ dirty[t] = {} /\ stale[t] # {}
  /\ stale' = [stale EXCEPT ![t] = {}]
  /\ Begin(t, mem, objs)
  /\ UNCHANGED <<fileVars, slot, blocks>>

Next ==
  \E t \in Threads :
    \/ Malloc(t)
    \/ \E a \in seen[t] : Free(t, a)
    \/ Commit(t) \/ Abort(t) \/ Refresh(t)

Spec == Init /\ [][Next]_vars

-----------------------------------------------------------------------------
(* Properties *)

Region == [size : [n : 0..BlockSize, index : 0 .. (BlockSize \div Elt) - 1, free : BOOLEAN, head : BOOLEAN],
           next : Addr \cup {Null}, prev : Addr \cup {Null}]

\* The words of the file and the threads' fields have their types: no pointer
\* leads out of the blocks.
TypeOK ==
  /\ mem \in [Addr -> Region]
  /\ view \in [Threads -> [Addr -> Region]]
  /\ dirty \in [Threads -> SUBSET Word] /\ stale \in [Threads -> SUBSET Word]
  /\ slot \in [Threads -> Addr \cup {Null}]
  /\ \A t \in Threads : restore[t] \in Seq(Addr \cup {Null})
  /\ objs \subseteq Addr /\ blocks \subseteq Blocks
  /\ seen \in [Threads -> SUBSET Addr] /\ tentative \in [Threads -> SUBSET Blocks]
  /\ new \in [Threads -> SUBSET Addr] /\ gone \in [Threads -> SUBSET Addr]

\* The regions on the list with head h, in the file f.
Ring(f, h) ==
  LET at[k \in 0..Cardinality(Addr)] ==
        IF k = 0 \/ at[k - 1] = Null THEN h ELSE f[at[k - 1]].next
  IN  IF h = Null THEN {} ELSE {at[k] : k \in DOMAIN at} \ {Null}

ProperRing(f, h) ==
  h # Null =>
    /\ Null \notin {f[a].next : a \in Ring(f, h)} \cup {f[a].prev : a \in Ring(f, h)}
    /\ \A a \in Ring(f, h) :
         /\ f[f[a].next].prev = a
         /\ f[a].size.free /\ f[a].size.n >= Elt
         /\ f[a].size.head <=> a = h

\* In its transaction, each thread's list is a proper ring of free regions of
\* which only the head is flagged as head; no object it refers to is on it or is
\* marked free, so that a free is never taken for a double free; and every object
\* leads back to the start of its block.  (The state has its types.)
ListsProper ==
  /\ TypeOK
  /\ \A t \in Threads :
       /\ ProperRing(view[t], slot[t])
       /\ \A a \in seen[t] :
            /\ ~view[t][a].size.free /\ a \notin Ring(view[t], slot[t])
            /\ a - view[t][a].size.index * Elt \in Blocks

\* If every transaction in progress aborted now, each thread would have a proper
\* list, no two lists would share a region, no object would be on a list, and
\* every piece of the committed blocks would be in an object or on a list.
Restorable ==
  LET ring(t) == Ring(mem, Restored(t))
      used == objs \cup UNION {ring(t) : t \in Threads}
      committed == blocks \ UNION {tentative[t] : t \in Threads}
  IN  /\ \A t \in Threads : ProperRing(mem, Restored(t)) /\ ring(t) \cap objs = {}
      /\ \A t, u \in Threads : t # u => ring(t) \cap ring(u) = {}
      /\ \A b \in committed, i \in 0 .. (BlockSize \div Elt) - 1 :
           \E a \in used : a <= b + i * Elt /\ b + i * Elt < a + mem[a].size.n

\* Threads do not get into each other's way by allocating: a transaction only
\* conflicts with others when it has freed an object that another freed first.
OnlyDoubleFreesConflict ==
  \A t \in Threads :
    dirty[t] \cap stale[t] # {} => \E a \in gone[t] : <<a, "size">> \in stale[t]
==============================================================================
