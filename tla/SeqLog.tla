------------------------------- MODULE SeqLog -------------------------------
(***************************************************************************)
(* The memory of the master log in SIVFS_FIGURE_SEQLOG_SEQ mode            *)
(* (kern/sivfs_shared_state.c).  Log entries are cut one after the other   *)
(* from chunks; log_cache finds them by timestamp.  A chunk starts with a  *)
(* pointer to the one before it, and is freed when the first entry of the  *)
(* chunk after it is deleted.  Committers append and the log collector     *)
(* deletes, in batches, both under commit_lock: a batch is one step.       *)
(***************************************************************************)
EXTENDS Integers, FiniteSets

CONSTANTS
  Chunks,      \* addresses kmalloc can return for chunks
  ChunkSize,   \* SIVFS_LOG_CHUNK_SIZE without the pointer
  Sizes,       \* sizes of log entries with their write sets
  DeleteBatch, \* DELETE_BATCH
  MaxTs,       \* bound on the timestamps
  InsertFails, \* whether radix_tree_insert can fail for an entry in the current chunk
  Null

ASSUME SeqLogAssumption ==
  /\ Sizes \subseteq Nat \ {0}
  /\ ChunkSize \in Nat /\ DeleteBatch \in Nat \ {0} /\ MaxTs \in Nat
  /\ InsertFails \in BOOLEAN
  /\ Null \notin Chunks

VARIABLES
  log,       \* log_cache: from timestamps to entries
  next,      \* the timestamp of the next commit
  alive,     \* the chunks that are allocated
  cur,       \* master_log.chunk_start_ptr
  pos,       \* master_log.chunk_ptr, from the chunk's start
  room,      \* master_log.bytes_remaining_chunk
  stop,      \* stop_ts of the sivfs_delete_log in progress, or Null
  deleted,   \* master_log_deleted_ts
  down       \* whether the shared state has been destroyed

vars == <<log, next, alive, cur, pos, room, stop, deleted, down>>

InvalidTs == MaxTs + 2   \* SIVFS_INVALID_TS, above every timestamp
Ts == 1 .. MaxTs

Init ==
  /\ log = [ts \in {} |-> Null]
  /\ next = 1
  /\ alive = {}
  /\ cur = Null
  /\ pos = 0 /\ room = 0
  /\ stop = Null
  /\ deleted = 0
  /\ down = FALSE

Larger(m, n) == IF m < n THEN n ELSE m

-----------------------------------------------------------------------------
(* The operations *)

\* Variant: every entry is marked as the first of its chunk.
EntryFirst(n, c, at, prev) ==
  [chunk |-> c, at |-> at, len |-> n, first |-> TRUE, prev |-> prev]

\* The log entry; the first in a chunk finds the pointer to the last chunk before it.
Entry(n, c, at, prev) ==
  [chunk |-> c, at |-> at, len |-> n, first |-> at = 0, prev |-> IF at = 0 THEN prev ELSE Null]

\* An entry of n bytes is cut at offset at of chunk c, which has size bytes left; an
\* insertion into log_cache that fails frees the chunk.
Cut(n, c, at, size, ok) ==
  IF ok
  THEN /\ log' = [ts \in DOMAIN log \cup {next} |->
                    IF ts = next THEN Entry(n, c, at, cur) ELSE log[ts]]
       /\ next' = next + 1
       /\ cur' = c /\ pos' = at + n /\ room' = size - n
       /\ alive' = alive \cup {c}
  ELSE /\ alive' = alive \ {c}
       /\ UNCHANGED <<log, next, cur, pos, room>>

\* _sivfs_allocate_log_insert_log_cache, from sivfs_create_log_entry with commit_lock
\* held.  If kmalloc fails, nothing changes.
Create(n) ==
  /\ ~down /\ stop # InvalidTs /\ next <= MaxTs
  /\ \E ok \in BOOLEAN :
       \/ /\ room < n
          /\ \E c \in Chunks \ alive : Cut(n, c, 0, Larger(ChunkSize, n), ok)
       \/ /\ room >= n
          /\ ok \/ InsertFails
          /\ Cut(n, cur, pos, room, ok)
  /\ UNCHANGED <<stop, deleted, down>>

\* sivfs_gc_log calls sivfs_delete_log, with the least of the published checkpoint
\* and the timestamps that are checked out.
GcStart ==
  /\ ~down /\ stop = Null
  /\ \E ts \in 0 .. next - 1 : stop' = ts
  /\ UNCHANGED <<log, next, alive, cur, pos, room, deleted, down>>

\* sivfs_destroy_shared_state calls it for the whole log, after the last committer
\* and the collector have gone.
Destroy ==
  /\ ~down /\ stop = Null
  /\ stop' = InvalidTs
  /\ UNCHANGED <<log, next, alive, cur, pos, room, deleted, down>>

\* The entries of the next batch: the oldest.
Batch ==
  {ts \in DOMAIN log : ts < stop /\ Cardinality({u \in DOMAIN log : u < ts}) < DeleteBatch}

\* Variant: each first entry of a chunk frees its own chunk.
FreedByOwn(S) == {log[ts].chunk : ts \in {u \in S : log[u].first}}

\* Variant: the first entry of the whole batch does not free.
FreedByLater(S) ==
  {log[ts].prev : ts \in {u \in S : log[u].first /\ \E v \in S : v < u}}

\* The chunks that deleting the entries S frees.
FreedBy(S) == {log[ts].prev : ts \in {u \in S : log[u].first}}

\* One batch of sivfs_delete_log.
DeleteBatchStep ==
  /\ stop # Null /\ \E ts \in DOMAIN log : ts < stop
  /\ alive' = alive \ FreedBy(Batch)
  /\ log' = [ts \in DOMAIN log \ Batch |-> log[ts]]
  /\ UNCHANGED <<next, cur, pos, room, stop, deleted, down>>

\* Nothing is left to delete; at the end of the whole log, the unfinished chunk is
\* freed too.
DeleteDone ==
  /\ stop # Null /\ \A ts \in DOMAIN log : ts >= stop
  /\ deleted' = stop
  /\ stop' = Null
  /\ IF stop = InvalidTs
     THEN alive' = alive \ {cur} /\ room' = 0 /\ down' = TRUE
     ELSE UNCHANGED <<alive, room, down>>
  /\ UNCHANGED <<log, next, cur, pos>>

Next ==
  \/ \E n \in Sizes : Create(n)
  \/ GcStart \/ Destroy \/ DeleteBatchStep \/ DeleteDone

Spec == Init /\ [][Next]_vars

-----------------------------------------------------------------------------
(* Properties *)

Offset == Nat
LogEntry == [chunk : Chunks, at : Offset, len : Sizes, first : BOOLEAN, prev : Chunks \cup {Null}]

\* The log and the fields of master_log have their types; room is never negative.
TypeOK ==
  /\ DOMAIN log \subseteq 1 .. next - 1
  /\ \A ts \in DOMAIN log : log[ts] \in LogEntry
  /\ next \in 1 .. MaxTs + 1
  /\ alive \subseteq Chunks
  /\ cur \in Chunks \cup {Null}
  /\ pos \in Nat /\ room \in Nat
  /\ stop \in 0 .. MaxTs \cup {InvalidTs, Null}
  /\ deleted \in 0 .. MaxTs \cup {InvalidTs}
  /\ down \in BOOLEAN

\* sivfs_validate, checkpointing and the readers of the log never follow a pointer
\* of log_cache into a chunk that is freed, nor does an append write into one, and
\* no two entries overlap.
EntriesAlive ==
  /\ ~down /\ cur # Null => cur \in alive
  /\ \A ts \in DOMAIN log : log[ts].chunk \in alive
  /\ \A ts, u \in DOMAIN log :
       ts < u /\ log[ts].chunk = log[u].chunk => log[ts].at + log[ts].len <= log[u].at

\* No chunk is freed twice: what a first entry will free is allocated, is not the
\* current chunk, and no other entry will free it.
FreesOnce ==
  \A ts \in DOMAIN log :
    log[ts].first /\ log[ts].prev # Null =>
      /\ log[ts].prev \in alive /\ log[ts].prev # cur
      /\ \A u \in DOMAIN log : u # ts /\ log[u].first => log[u].prev # log[ts].prev

\* No chunk is lost: each allocated chunk is the current one or will be freed by an
\* entry that is still in the log, and none is left when the module goes.
NoneLeaked ==
  /\ alive \subseteq {cur} \cup {log[ts].prev : ts \in {u \in DOMAIN log : log[u].first}}
  /\ down => alive = {}
==============================================================================
