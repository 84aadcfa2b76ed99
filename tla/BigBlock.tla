------------------------------ MODULE BigBlock ------------------------------
(***************************************************************************)
(* The path of the user-space allocator for objects too big for the bins   *)
(* (lib/sivfs_allocator.h): each one has a block of the kernel to itself,  *)
(* bracketed by its size and, before the size at the end, its tag.  The    *)
(* file is a row of words; word w of block b is word b * W + w of it.  The *)
(* transaction around the calls is left out: every write is seen.          *)
(***************************************************************************)
EXTENDS Integers

CONSTANTS N,       \* blocks in the file, one next to the other
          W        \* words in a block (actual_block_size)

ASSUME BigBlockAssumption == N \in Nat \ {0} /\ W \in Nat /\ W >= 9

VARIABLES mem,     \* what each word of the file holds
          live     \* the blocks in use

vars == <<mem, live>>

Block == 0 .. N - 1
Word == 0 .. N * W - 1

FooterWords == 2   \* SIVFS_BLOCK_FOOTER_SIZE
WordBytes == 8     \* sizeof(uint64_t)

\* The words of block b that belong to the caller.
Payload(b) == b * W + 1 .. (b + 1) * W - FooterWords - 1

Init == mem = [w \in Word |-> "zero"] /\ live = {}

\* The words ws, those of them that are in the file, are written.
Written(ws, v) == [w \in Word |-> IF w \in ws THEN v ELSE mem[w]]

\* Variant: the footer is placed by the size asked for, one word less.
MallocAsked(b) ==
  /\ b \notin live
  /\ mem' = [Written({b * W, (b + 1) * W - 2}, "size") EXCEPT
               ![(b + 1) * W - 3] = "tag", ![b * W + 1] = "link", ![b * W + 2] = "link"]
  /\ live' = live \cup {b}

\* sivfs_malloc_ws without a bin: size, tag and size, and a list of its own in the
\* words that the caller gets.
Malloc(b) ==
  /\ b \notin live
  /\ mem' = [Written({b * W, (b + 1) * W - 1}, "size") EXCEPT
               ![(b + 1) * W - 2] = "tag", ![b * W + 1] = "link", ![b * W + 2] = "link"]
  /\ live' = live \cup {b}

\* The caller writes to its object.
Store(b, w) ==
  /\ b \in live /\ w \in Payload(b)
  /\ mem' = [mem EXCEPT ![w] = "data"]
  /\ UNCHANGED live

\* sivfs_free_ws with SIVFS_BIG_ALLOCATION_FLAG: footer_ptr points to words, so that
\* footer_ptr + sizeof(uint64_t) is eight words further, not one.
Free(b) ==
  LET footer == (b + 1) * W - FooterWords
  IN  /\ b \in live
      /\ mem' = Written({b * W, footer, footer + WordBytes}, "zero")
      /\ live' = live \ {b}

Next == \E b \in Block : Malloc(b) \/ Free(b) \/ \E w \in Word : Store(b, w)

Spec == Init /\ [][Next]_vars

-----------------------------------------------------------------------------
\* A block in use is bracketed by its size and has its tag before the last word,
\* whatever happened to its neighbours: its first word can be trusted on free.
Bracketed ==
  \A b \in live : /\ mem[b * W] = "size" /\ mem[(b + 1) * W - 1] = "size"
                  /\ mem[(b + 1) * W - 2] = "tag"

\* Freeing a block clears no word of another object: only its caller writes to it.
PayloadKept ==
  [][\A b \in Block, w \in Word :
       b \in live /\ b \in live' /\ w \in Payload(b) /\ mem[w] = "data" => mem'[w] = "data"]_vars
==============================================================================
