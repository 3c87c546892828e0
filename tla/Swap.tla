--------------------------------- MODULE Swap ---------------------------------
(***************************************************************************)
(* Demand paging on the kernel's mm: page_fault() and do_swap() of vmm.c,  *)
(* swap_in() and swap_out() of swap.c, map() and get_pte() of pmm.c.  A    *)
(* fault is handled behind an interrupt gate, with IF clear, so a memory   *)
(* access together with the fault it raises is one step.                   *)
(*                                                                         *)
(* A pte is the 32-bit word of the code: bit 0 is the present bit, the low *)
(* 9 bits are ->sign, the next 3 ->os, the high 20 ->page_addr.  A page    *)
(* that was swapped out leaves its place on the disk in the high 24 bits.  *)
(* The CPU may keep a translation in its TLB until invlpg or a reload of   *)
(* cr3.                                                                    *)
(***************************************************************************)
EXTENDS Integers, Sequences, FiniteSets

CONSTANTS
  Pages,      \* virtual page numbers that the code accesses
  Flags,      \* the areas: a subset of {"r", "w", "x"} for each page that has one
  Frames,     \* page_addr of the physical pages alloc_page() has
  Values,     \* what can be written to a page
  NoData,     \* content nobody has written
  NoFrame

(* kern_init() maps the first 4 MB for good, so no access below faults. *)
ASSUME SwapAssumption ==
  /\ \A v \in Pages : v \in Nat /\ v >= 1024
  /\ DOMAIN Flags \subseteq Pages
  /\ Frames \subseteq Nat \ {0}
  /\ NoData \notin Values /\ NoFrame \notin Frames

VARIABLES
  vm,         \* pte: of each page; tables: the regions that have a page table;
              \* vm_fifo: page and frame of the resident pages, oldest first;
              \* free: the free frames
  data,       \* frame: content of each frame; disk: content of the swap disk
  tlb,        \* the frame the TLB has for a page, or NoFrame
  kernel,     \* frames that other callers of alloc_page() hold
  last,       \* the last value written to each page
  panicked,
  strayed     \* whether a write has gone through an outdated translation

swapVars == <<vm, data, tlb, kernel, last, panicked, strayed>>

(* After panic() the machine stops.  A write through an outdated            *)
(* translation hits a page of somebody else, perhaps a page table: what the *)
(* machine does then is not modelled.                                       *)
Running == ~panicked /\ ~strayed

Sign(pte)      == pte % 512
Os(pte)        == (pte \div 512) % 8
PageAddr(pte)  == pte \div 4096
Present(pte)   == pte % 2 = 1

(* get_pte() looks for the page table of 1024 pages. *)
Region(v) == v \div 1024

(* The place of page v on the disk, in pages. *)
Sector(v) == v + 1

Init ==
  /\ vm = [pte |-> [v \in Pages |-> 0], tables |-> {}, vm_fifo |-> <<>>, free |-> Frames]
  /\ data = [frame |-> [f \in Frames |-> NoData], disk |-> [s \in {Sector(v) : v \in Pages} |-> NoData]]
  /\ tlb = [v \in Pages |-> NoFrame]
  /\ kernel = {}
  /\ last = [v \in Pages |-> NoData]
  /\ panicked = FALSE
  /\ strayed = FALSE

-----------------------------------------------------------------------------
(* The machine M as a whole, between the calls of one fault. *)
Machine == [vm |-> vm, data |-> data, tlb |-> tlb]

(* swap_out() that does not write the page. *)
swap_out_NoWrite(M) ==
  IF M.vm.vm_fifo = <<>> THEN M
  ELSE LET old == Head(M.vm.vm_fifo)
       IN  [M EXCEPT !.vm.pte[old.va] = Sector(old.va) * 256,
                     !.vm.vm_fifo = Tail(@),
                     !.vm.free = @ \cup {old.frame}]

(* swap_out() whose pte names the sector in front of the one it wrote. *)
swap_out_NoPlusOne(M) ==
  IF M.vm.vm_fifo = <<>> THEN M
  ELSE LET old == Head(M.vm.vm_fifo)
       IN  [M EXCEPT !.data.disk[Sector(old.va)] = M.data.frame[old.frame],
                     !.vm.pte[old.va] = old.va * 256,
                     !.vm.vm_fifo = Tail(@),
                     !.vm.free = @ \cup {old.frame}]

(* swap_out() that leaves the pte as it was. *)
swap_out_KeepPte(M) ==
  IF M.vm.vm_fifo = <<>> THEN M
  ELSE LET old == Head(M.vm.vm_fifo)
       IN  [M EXCEPT !.data.disk[Sector(old.va)] = M.data.frame[old.frame],
                     !.vm.vm_fifo = Tail(@),
                     !.vm.free = @ \cup {old.frame}]

(* swap_out(mm, 1): write the oldest page, put its place on the disk into   *)
(* the pte, free the frame.  There is no invlpg.                            *)
swap_out(M) ==
  IF M.vm.vm_fifo = <<>> THEN M
  ELSE LET old == Head(M.vm.vm_fifo)
       IN  [M EXCEPT !.data.disk[Sector(old.va)] = M.data.frame[old.frame],
                     !.vm.pte[old.va] = Sector(old.va) * 256,
                     !.vm.vm_fifo = Tail(@),
                     !.vm.free = @ \cup {old.frame}]

(* alloc_page(1) returns frame f, then swaps a page out. *)
alloc_page(M, f) == swap_out([M EXCEPT !.vm.free = @ \ {f}])

(* map() on a pte that is not present, its invlpg, and the insertion of the *)
(* page into the FIFO that follows it in do_swap() and swap_in().  The bits *)
(* ->os keep what the place on the disk left in them.                       *)
map(M, v, f, sign) ==
  [M EXCEPT !.vm.pte[v] = f * 4096 + Os(@) * 512 + sign,
            !.tlb[v] = NoFrame,
            !.vm.vm_fifo = Append(@, [va |-> v, frame |-> f])]

(* get_pte(..., 1): the results, with a page table for v. *)
get_pte(M, v) ==
  IF Region(v) \in M.vm.tables THEN {M}
  ELSE {LET A == alloc_page(M, f)
        IN  [A EXCEPT !.vm.tables = @ \cup {Region(v)}, !.data.frame[f] = NoData] : f \in M.vm.free}

(* do_swap()'s test for a page that has no content yet. *)
NeverThere(pte) == PageAddr(pte) = 0 /\ Sign(pte) = 0

(* A new page, or one from the disk: (*(u32 *)pte) >> 8 is its place. *)
SwapIn(M, v, f) ==
  LET pte == M.vm.pte[v]
      A == alloc_page(M, f)
  IN  IF NeverThere(pte) THEN map(A, v, f, 5)
      ELSE map([A EXCEPT !.data.frame[f] = A.data.disk[pte \div 256]], v, f, 7)

(* The machines in which do_swap(v) may end. *)
do_swap(v) == UNION {{SwapIn(M, v, f) : f \in M.vm.free} : M \in get_pte(Machine, v)}

-----------------------------------------------------------------------------
(* The frame in the pte of page v. *)
Walk(M, v) == IF Present(M.vm.pte[v]) THEN PageAddr(M.vm.pte[v]) ELSE NoFrame

(* What an access to v may find: the pte, or what the TLB still has.  The   *)
(* CPU may have dropped that at any time, and run_thread() drops it all.    *)
(* CR0.WP is clear (entry.c), so the kernel may write to a read-only page.  *)
Lookups(v) == {Walk(Machine, v)} \cup ({tlb[v]} \ {NoFrame})

(* do_swap() asks the area whether the access may go on. *)
Allowed(v, is_write) ==
  /\ v \in DOMAIN Flags
  /\ IF is_write THEN "w" \in Flags[v] ELSE Flags[v] \cap {"r", "x"} # {}

Fault(v, is_write) ==
  /\ Running
  /\ NoFrame \in Lookups(v)
  /\ ~Allowed(v, is_write)
  /\ panicked' = TRUE
  /\ UNCHANGED <<vm, data, tlb, kernel, last, strayed>>

(* The machines in which an access to v goes through, and the frame it      *)
(* reaches; after page_fault() the instruction is executed again.           *)
Reached(v, is_write) ==
  LET swapped == IF NoFrame \in Lookups(v) /\ Allowed(v, is_write) THEN do_swap(v) ELSE {}
  IN  {[m |-> Machine, frame |-> f] : f \in Lookups(v) \ {NoFrame}}
        \cup {[m |-> M, frame |-> Walk(M, v)] : M \in swapped}

(* The TLB keeps the translation that was used. *)
Cached(R, v) == [R.m.tlb EXCEPT ![v] = R.frame]

Read(v) ==
  /\ Running
  /\ \E R \in Reached(v, FALSE) :
       vm' = R.m.vm /\ data' = R.m.data /\ tlb' = Cached(R, v)
  /\ UNCHANGED <<kernel, last, panicked, strayed>>

Write(v, d) ==
  /\ Running
  /\ \E R \in Reached(v, TRUE) :
       /\ vm' = R.m.vm
       /\ data' = [R.m.data EXCEPT !.frame[R.frame] = d]
       /\ tlb' = Cached(R, v)
       /\ strayed' = (R.frame # Walk(R.m, v))
  /\ last' = [last EXCEPT ![v] = d]
  /\ UNCHANGED <<kernel, panicked>>

(* The kernel takes a page for itself, or gives one back. *)
KernelAlloc ==
  /\ Running
  /\ \E f \in vm.free :
       LET M == alloc_page(Machine, f)
       IN  /\ vm' = M.vm
           /\ data' = [M.data EXCEPT !.frame[f] = NoData]
           /\ kernel' = kernel \cup {f}
  /\ UNCHANGED <<tlb, last, panicked, strayed>>

KernelFree ==
  /\ Running
  /\ \E f \in kernel :
       /\ kernel' = kernel \ {f}
       /\ vm' = [vm EXCEPT !.free = @ \cup {f}]
  /\ UNCHANGED <<data, tlb, last, panicked, strayed>>

Next ==
  \/ \E v \in Pages : Read(v)
  \/ \E v \in Pages, d \in Values : Write(v, d)
  \/ \E v \in Pages, is_write \in BOOLEAN : Fault(v, is_write)
  \/ KernelAlloc
  \/ KernelFree

Spec == Init /\ [][Next]_swapVars

-----------------------------------------------------------------------------
(* The words a pte of page v may hold: nothing, its place on the disk, or a *)
(* frame with the sign of do_swap() or swap_in().                           *)
PteValues(v) ==
  {0, Sector(v) * 256} \cup
  {f * 4096 + os * 512 + sign : f \in Frames, os \in 0..7, sign \in {5, 7}}

(* The type invariant.  For the ptes it is more than a type: the word that  *)
(* swap_out() leaves is not present and names the sectors it wrote.         *)
SwapTypeOK ==
  /\ \A v \in Pages : vm.pte[v] \in PteValues(v)
  /\ vm.free \subseteq Frames /\ kernel \subseteq Frames
  /\ tlb \in [Pages -> Frames \cup {NoFrame}]
  /\ last \in [Pages -> Values \cup {NoData}]
  /\ panicked \in BOOLEAN /\ strayed \in BOOLEAN

Mapped == {v \in Pages : Present(vm.pte[v])}

(* A frame has one owner: no two ptes share one, no mapped frame is free or *)
(* the kernel's, and the pages in the FIFO are exactly the mapped ones, at  *)
(* their frames, through every order of faults and swaps.                   *)
FramesExclusive ==
  /\ \A v, w \in Mapped : PageAddr(vm.pte[v]) = PageAddr(vm.pte[w]) => v = w
  /\ \A v \in Mapped : PageAddr(vm.pte[v]) \notin vm.free \cup kernel
  /\ vm.free \cap kernel = {}
  /\ {[va |-> v, frame |-> PageAddr(vm.pte[v])] : v \in Mapped}
       = {vm.vm_fifo[k] : k \in 1..Len(vm.vm_fifo)}

(* What page v holds, for an access that finds the frame f or none. *)
ContentAt(v, f) ==
  CASE f # NoFrame           -> data.frame[f]
    [] NeverThere(vm.pte[v]) -> NoData
    [] OTHER                 -> data.disk[vm.pte[v] \div 256]

(* What a read of v may return. *)
Contents(v) == {ContentAt(v, f) : f \in Lookups(v)}

(* A page reads back what was last written to it, in memory or on the disk, *)
(* however often it was swapped out and in (test_swap() in swap.c writes    *)
(* pages in turn and reads them back).                                      *)
ReadsLastWrite == \A v \in Pages : last[v] # NoData => Contents(v) = {last[v]}

(* What of this the code keeps: until a write goes through the outdated     *)
(* translation that swap_out() leaves in the TLB, what was last written to  *)
(* a page is where its pte says, in a frame or on the disk, and a page that *)
(* is in memory reads back so, by its pte and by the TLB.                   *)
DataKept ==
  ~strayed => \A v \in Pages : last[v] # NoData =>
    /\ ContentAt(v, Walk(Machine, v)) = last[v]
    /\ v \in Mapped => Contents(v) = {last[v]}

=============================================================================
