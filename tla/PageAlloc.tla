------------------------------ MODULE PageAlloc ------------------------------
(***************************************************************************)
(* The page allocator of mm/pmm.c: alloc_page() and free_page() on the     *)
(* list of free struct Page, with swap_out(), which alloc_page(1) calls.   *)
(*                                                                         *)
(* page_init() links the pages by their physical addresses; alloc_page()   *)
(* hands out linear ones, VERTUAL_MEM higher.  Both name the same struct,  *)
(* but the code compares pointers, so a pointer is an index together with  *)
(* the number of times VERTUAL_MEM was added to it.  swap_out() frees      *)
(* pages by their linear pointer, every other caller by the physical one   *)
(* that la_addr_to_pg() computes.                                          *)
(*                                                                         *)
(* A page that was freed by its linear pointer and comes to the front of   *)
(* the list is handed out with VERTUAL_MEM added twice.  The address       *)
(* computed from such a pointer is still the page's, for the overflow      *)
(* cancels out, but there is no struct Page where it points to: the        *)
(* callers that write through it fault outside every area and panic().     *)
(***************************************************************************)
EXTENDS Integers, Sequences, FiniteSets

CONSTANTS
  NPages,     \* free_page_num at boot
  MaxBlock    \* largest number of pages a caller asks for

ASSUME PageAllocAssumption == NPages \in Nat \ {0} /\ MaxBlock \in Nat

VARIABLES
  free_pages,     \* head: the list; num: free_page_num; count: ->free_pages of each page
  vm_fifo,        \* mm->vm_fifo: the pages that may be swapped out, oldest first
  used,           \* the blocks other callers hold: pointer and number of pages
  is_vmm_inited,
  panicked        \* the kernel has stopped in panic()

pageVars == <<free_pages, vm_fifo, used, is_vmm_inited, panicked>>

PHYSICAL == 0
LINEAR == 1

Ptr(i, a) == [i |-> i, a |-> a]

(* page + n in C. *)
Plus(p, n) == Ptr(p.i + n, p.a)

(* p > q in C, for physical and linear pointers. *)
Above(p, q) == p.a > q.a \/ (p.a = q.a /\ p.i > q.i)

page_init ==
  /\ free_pages = [head  |-> [k \in 1..NPages |-> Ptr(k - 1, PHYSICAL)],
                   num   |-> NPages,
                   count |-> [i \in 0..(NPages - 1) |-> IF i = 0 THEN NPages ELSE 0]]
  /\ vm_fifo = <<>>
  /\ used = {}
  /\ is_vmm_inited = FALSE
  /\ panicked = FALSE

-----------------------------------------------------------------------------
(* alloc_page() that looks at free_page_num only. *)
CanAlloc_NumOnly(A, n) == n <= A.num /\ A.head # <<>>

(* Only the first block of the list is ever looked at. *)
CanAlloc(A, n) == n <= A.num /\ A.head # <<>> /\ A.count[A.head[1].i] >= n

(* alloc_page() that forgets to count the pages it takes. *)
Take_NoCount(A, n) ==
  LET left == SubSeq(A.head, n + 1, Len(A.head))
  IN  [head  |-> left,
       num   |-> A.num,
       count |-> IF left = <<>> THEN A.count
                 ELSE [A.count EXCEPT ![left[1].i] = A.count[A.head[1].i] - n]]

(* The first n elements leave the list; the next one becomes the head of    *)
(* what is left of the block, whether it belongs to that block or not.      *)
(* (When none is left the code writes the count next to the list head.)     *)
Take(A, n) ==
  LET left == SubSeq(A.head, n + 1, Len(A.head))
  IN  [head  |-> left,
       num   |-> A.num - n,
       count |-> IF left = <<>> THEN A.count
                 ELSE [A.count EXCEPT ![left[1].i] = A.count[A.head[1].i] - n]]

(* Where free_page() inserts: before the first greater pointer, or else     *)
(* before the last element.                                                 *)
Position(A, p) ==
  LET greater == {k \in 1..Len(A.head) : Above(A.head[k], p)}
  IN  IF greater = {} THEN Len(A.head) ELSE CHOOSE k \in greater : \A j \in greater : k <= j

(* A block joins the one at q if it ends there. *)
Absorb(count, p, q) ==
  IF Plus(p, count[p.i]) = q
  THEN [count EXCEPT ![p.i] = @ + count[q.i], ![q.i] = 0] ELSE count

(* free_page(): pages p .. p + n - 1 go in front of the target; then the    *)
(* block is joined with the target and with the element before it.  The     *)
(* list head, which the code also takes for a page, never joins.            *)
Put(A, p, n) ==
  IF A.head = <<>> THEN A
  ELSE LET k == Position(A, p)
           joined == Absorb([A.count EXCEPT ![p.i] = n], p, A.head[k])
       IN  [head  |-> SubSeq(A.head, 1, k - 1) \o [j \in 1..n |-> Plus(p, j - 1)]
                        \o SubSeq(A.head, k, Len(A.head)),
            num   |-> A.num + n,
            count |-> IF k = 1 THEN joined ELSE Absorb(joined, A.head[k - 1], p)]

-----------------------------------------------------------------------------
(* A swap on every request but the one for a single page. *)
SwapsOut_Multi(n) == is_vmm_inited /\ n > 1 /\ vm_fifo # <<>>

(* swap_out(mm, 1): the oldest page is freed by its linear pointer. *)
SwapsOut(n) == is_vmm_inited /\ n = 1 /\ vm_fifo # <<>>

(* alloc_page(n), the swap included; p is what it returns. *)
alloc_page(n, p) ==
  /\ CanAlloc(free_pages, n)
  /\ p = Ptr(free_pages.head[1].i, free_pages.head[1].a + 1)
  /\ free_pages' = IF SwapsOut(n) THEN Put(Take(free_pages, n), vm_fifo[1], 1)
                   ELSE Take(free_pages, n)

Remaining(n) == IF SwapsOut(n) THEN Tail(vm_fifo) ELSE vm_fifo

(* A caller that keeps the pages and uses their address only: malloc(), the *)
(* stacks, the pages of copy_mm() and execve().                             *)
AllocBlock(n) ==
  /\ ~panicked
  /\ \E i \in 0..(NPages - 1), a \in {LINEAR, LINEAR + 1} :
       /\ alloc_page(n, Ptr(i, a))
       /\ used' = used \cup {[p |-> Ptr(i, a), n |-> n]}
  /\ vm_fifo' = Remaining(n)
  /\ UNCHANGED <<is_vmm_inited, panicked>>

(* get_pte(): a page table, whose struct Page the caller writes to. *)
AllocTable ==
  /\ ~panicked
  /\ \E i \in 0..(NPages - 1), a \in {LINEAR, LINEAR + 1} :
       /\ alloc_page(1, Ptr(i, a))
       /\ used' = used \cup {[p |-> Ptr(i, a), n |-> 1]}
       /\ panicked' = (a # LINEAR)
  /\ vm_fifo' = Remaining(1)
  /\ UNCHANGED is_vmm_inited

(* do_swap() and swap_in(): they write to the struct Page, and the page     *)
(* joins the FIFO.                                                          *)
AllocSwappable ==
  /\ ~panicked /\ is_vmm_inited
  /\ \E i \in 0..(NPages - 1), a \in {LINEAR, LINEAR + 1} :
       /\ alloc_page(1, Ptr(i, a))
       /\ IF a = LINEAR
          THEN vm_fifo' = Append(Remaining(1), Ptr(i, a)) /\ UNCHANGED used
          ELSE vm_fifo' = Remaining(1) /\ used' = used \cup {[p |-> Ptr(i, a), n |-> 1]}
       /\ panicked' = (a # LINEAR)
  /\ UNCHANGED is_vmm_inited

Listed == {free_pages.head[k].i : k \in 1..Len(free_pages.head)}
Held == UNION {b.p.i..(b.p.i + b.n - 1) : b \in used}
Resident == {vm_fifo[k].i : k \in 1..Len(vm_fifo)}

(* Bound: a page that is in the list already is not put there again.  The   *)
(* code would tie the intrusive list into a knot.  PagesOnce says which     *)
(* page a block can come to hold and leave in the list: the last one.       *)
NotListed(b) == \A x \in b.p.i..(b.p.i + b.n - 1) : x \notin Listed

(* A caller gives a block back by the physical pointer that la_addr_to_pg() *)
(* computes from its address, as unmap() does.                              *)
free_page(b) ==
  /\ ~panicked
  /\ b \in used /\ NotListed(b)
  /\ free_pages' = Put(free_pages, Ptr(b.p.i, PHYSICAL), b.n)
  /\ used' = used \ {b}
  /\ UNCHANGED <<vm_fifo, is_vmm_inited, panicked>>

vmm_init ==
  /\ ~panicked /\ ~is_vmm_inited
  /\ is_vmm_inited' = TRUE
  /\ UNCHANGED <<free_pages, vm_fifo, used, panicked>>

PageNext ==
  \/ \E n \in 1..MaxBlock : AllocBlock(n)
  \/ AllocTable
  \/ AllocSwappable
  \/ \E b \in used : free_page(b)
  \/ vmm_init

PageSpec == page_init /\ [][PageNext]_pageVars

-----------------------------------------------------------------------------
(* The type invariant. *)
PageTypeOK ==
  /\ free_pages.num \in Int
  /\ \A k \in 1..Len(free_pages.head) : free_pages.head[k].i \in 0..(NPages - 1)
  /\ free_pages.count \in [0..(NPages - 1) -> Nat]
  /\ is_vmm_inited \in BOOLEAN
  /\ panicked \in BOOLEAN

(* The last page of memory, at the end of the list from the start, has not  *)
(* been handed out.                                                         *)
LastPageFree == free_pages.head # <<>> /\ NPages - 1 \notin Held

(* No page is handed out twice or is free and in use, although alloc_page() *)
(* takes list neighbours for neighbours in memory and swapped-out pages are *)
(* inserted in the wrong place (pmm.c:59).  The one exception is the last   *)
(* page of memory: a block that reaches it may take a misplaced page off    *)
(* the list in its place.  Until it is handed out no page is lost either.   *)
PagesOnce ==
  /\ Len(free_pages.head) = Cardinality(Listed)
  /\ \A b, c \in used : b # c => b.p.i + b.n <= c.p.i \/ c.p.i + c.n <= b.p.i
  /\ Listed \cap Held \subseteq {NPages - 1}
  /\ Listed \cap Resident = {} /\ Held \cap Resident = {}
  /\ LastPageFree => Listed \cup Held \cup Resident = 0..(NPages - 1)

(* free_page_num, the only thing that bounds a request before the list is   *)
(* walked, counts the list.                                                 *)
FreeNumExact == free_pages.num = Len(free_pages.head)

(* Since every alloc_page(1) swaps a page out, at most one page is resident *)
(* at any time.                                                             *)
OneResident == Len(vm_fifo) <= 1

=============================================================================
