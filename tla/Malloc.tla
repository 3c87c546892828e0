-------------------------------- MODULE Malloc --------------------------------
(***************************************************************************)
(* The kernel heap of mm/malloc.c: malloc() and free() on a list of        *)
(* chunks.  A chunk is a header of sizeof(struct Chunk) bytes followed by  *)
(* its block; list order is the order of chunk_head's ->next pointers and  *)
(* need not be address order.  Addresses are counted in bytes from the     *)
(* first page alloc_page() can hand out.  The heap never gives pages back. *)
(***************************************************************************)
EXTENDS Integers, Sequences, FiniteSets, SequencesExt

CONSTANTS
  HDR,        \* sizeof(struct Chunk)
  PAGE_SIZE,
  NPages,     \* bound: the pages alloc_page() has
  Sizes       \* the sizes the kernel asks for

ASSUME MallocAssumption ==
  /\ HDR \in Nat \ {0} /\ PAGE_SIZE \in Nat \ {0} /\ HDR < PAGE_SIZE
  /\ NPages \in Nat
  /\ Sizes \subseteq Nat \ {0}

VARIABLES
  chunks,     \* the chunk list: addr, size and allocated of each chunk
  pages,      \* the pages the heap got from alloc_page()
  live        \* the blocks the callers hold: address and size asked for

mallocVars == <<chunks, pages, live>>

Chunk(addr, size, allocated) == [addr |-> addr, size |-> size, allocated |-> allocated]

(* The first byte behind a chunk. *)
End(c) == c.addr + HDR + c.size

malloc_init ==
  /\ chunks = <<>>
  /\ pages = {}
  /\ live = {}

-----------------------------------------------------------------------------
(* A fit that forgets the header of the remainder. *)
Fits_NoHeader(c, size) == ~c.allocated /\ c.size >= size

(* The free chunks malloc(size) can split: the first in the list is taken.  *)
Fits(c, size) == ~c.allocated /\ c.size >= HDR + size

FirstFit(i, size) ==
  /\ Fits(chunks[i], size)
  /\ \A j \in 1..(i - 1) : ~Fits(chunks[j], size)

(* malloc() that does not shrink the chunk it splits. *)
MallocSplit_KeepSize(size) ==
  \E i \in 1..Len(chunks) :
    LET c == chunks[i]
    IN  /\ FirstFit(i, size)
        /\ chunks' = ReplaceAt(InsertAt(chunks, i + 1,
                        Chunk(c.addr + HDR + size, c.size - (HDR + size), FALSE)),
                      i, Chunk(c.addr, c.size, TRUE))
        /\ live' = live \cup {[addr |-> c.addr + HDR, size |-> size]}
        /\ UNCHANGED pages

(* malloc(): chunk i is cut in two; the rest of it becomes a free chunk     *)
(* behind it, possibly of size 0.                                           *)
MallocSplit(size) ==
  \E i \in 1..Len(chunks) :
    LET c == chunks[i]
    IN  /\ FirstFit(i, size)
        /\ chunks' = ReplaceAt(InsertAt(chunks, i + 1,
                        Chunk(c.addr + HDR + size, c.size - (HDR + size), FALSE)),
                      i, Chunk(c.addr, size, TRUE))
        /\ live' = live \cup {[addr |-> c.addr + HDR, size |-> size]}
        /\ UNCHANGED pages

need_page_num(total) ==
  total \div PAGE_SIZE + (IF total % PAGE_SIZE > 0 THEN 1 ELSE 0)

(* alloc_page(n): n consecutive pages that are not in use, from f on.  That *)
(* it returns NULL, which malloc() does not test, is left out.              *)
alloc_page(f, n) ==
  /\ f..(f + n - 1) \subseteq (0..(NPages - 1)) \ pages
  /\ pages' = pages \cup f..(f + n - 1)

(* The new chunks at the tail: what is left of the pages becomes a free     *)
(* chunk only if more than a header is left.                                *)
NewChunks(addr, size) ==
  LET total == HDR + size
      remain == need_page_num(total) * PAGE_SIZE - total
  IN  <<Chunk(addr, size, TRUE)>>
        \o IF remain > HDR THEN <<Chunk(addr + total, remain - HDR, FALSE)>> ELSE <<>>

(* malloc() when no chunk fits. *)
MallocPages(size) ==
  /\ \A i \in 1..Len(chunks) : ~Fits(chunks[i], size)
  /\ \E f \in 0..(NPages - 1) :
       /\ alloc_page(f, need_page_num(HDR + size))
       /\ chunks' = chunks \o NewChunks(f * PAGE_SIZE, size)
       /\ live' = live \cup {[addr |-> f * PAGE_SIZE + HDR, size |-> size]}

malloc(size) == MallocSplit(size) \/ MallocPages(size)

-----------------------------------------------------------------------------
(* A test for neighbours in the list instead of neighbours in memory. *)
CanJoin_AnyAddress(s, i) ==
  /\ i \in 1..(Len(s) - 1)
  /\ ~s[i].allocated /\ ~s[i + 1].allocated

(* Chunks i and i + 1 of list s become one if both are free and adjacent. *)
CanJoin(s, i) ==
  /\ i \in 1..(Len(s) - 1)
  /\ ~s[i].allocated /\ ~s[i + 1].allocated
  /\ End(s[i]) = s[i + 1].addr

(* A join that forgets the header that it frees. *)
Join_LoseHeader(s, i) ==
  IF CanJoin(s, i)
  THEN RemoveAt([s EXCEPT ![i].size = @ + s[i + 1].size], i + 1)
  ELSE s

Join(s, i) ==
  IF CanJoin(s, i)
  THEN RemoveAt([s EXCEPT ![i].size = @ + HDR + s[i + 1].size], i + 1)
  ELSE s

(* free() that joins with the chunk before or the one behind, not both. *)
free_OneJoin(b) ==
  /\ b \in live
  /\ \E i \in 1..Len(chunks) :
       /\ chunks[i].addr = b.addr - HDR
       /\ LET freed == [chunks EXCEPT ![i].allocated = FALSE]
          IN  chunks' = IF CanJoin(freed, i - 1) THEN Join(freed, i - 1) ELSE Join(freed, i)
  /\ live' = live \ {b}
  /\ UNCHANGED pages

(* free(): first with the chunk before, then with the one behind. *)
free(b) ==
  /\ b \in live
  /\ \E i \in 1..Len(chunks) :
       /\ chunks[i].addr = b.addr - HDR
       /\ LET freed == [chunks EXCEPT ![i].allocated = FALSE]
              k == IF CanJoin(freed, i - 1) THEN i - 1 ELSE i
          IN  chunks' = Join(Join(freed, i - 1), k)
  /\ live' = live \ {b}
  /\ UNCHANGED pages

MallocNext == (\E size \in Sizes : malloc(size)) \/ (\E b \in live : free(b))

MallocSpec == malloc_init /\ [][MallocNext]_mallocVars

-----------------------------------------------------------------------------
MallocTypeOK ==
  /\ \A i \in 1..Len(chunks) :
       chunks[i].addr \in Nat /\ chunks[i].size \in Nat /\ chunks[i].allocated \in BOOLEAN
  /\ pages \subseteq 0..(NPages - 1)
  /\ \A b \in live : b.addr \in Nat /\ b.size \in Sizes

(* No byte belongs to two chunks, headers included, and every chunk lies    *)
(* in pages that alloc_page() gave to the heap, whatever splits and joins   *)
(* across pages have happened.                                              *)
ChunksDisjoint ==
  /\ \A i, j \in 1..Len(chunks) :
       i # j => End(chunks[i]) <= chunks[j].addr \/ End(chunks[j]) <= chunks[i].addr
  /\ \A i \in 1..Len(chunks) :
       (chunks[i].addr \div PAGE_SIZE)..((End(chunks[i]) - 1) \div PAGE_SIZE) \subseteq pages

(* A block keeps its address and its size until it is freed: the allocated  *)
(* chunks are exactly the blocks the callers hold.                          *)
BlocksKept ==
  live = {[addr |-> chunks[i].addr + HDR, size |-> chunks[i].size] :
            i \in {j \in 1..Len(chunks) : chunks[j].allocated}}

(* No memory is lost by splitting and joining: a byte of the heap that is   *)
(* in no chunk is one of the last HDR bytes of a page, left over when the   *)
(* pages were allocated (malloc.c:64).                                      *)
NoLeak ==
  \A g \in pages : \A a \in (g * PAGE_SIZE)..((g + 1) * PAGE_SIZE - 1 - HDR) :
    \E i \in 1..Len(chunks) : chunks[i].addr <= a /\ a < End(chunks[i])

(* Free chunks do not stay apart: no two list neighbours are free and       *)
(* adjacent in memory.                                                      *)
Coalesced == \A i \in 1..(Len(chunks) - 1) : ~CanJoin(chunks, i)

=============================================================================
