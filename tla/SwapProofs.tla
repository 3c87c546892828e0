----------------------------- MODULE SwapProofs -----------------------------
(***************************************************************************)
(* Proofs about module Swap, for any pages, areas and frames and any       *)
(* number of faults: a frame has one owner, a pte names the frame or the   *)
(* sectors of its page, and a page keeps its content through any order of  *)
(* swapping out and in until a write goes through a translation that       *)
(* swap_out() has left in the TLB.                                         *)
(*                                                                         *)
(* The argument: the pages in the FIFO are the mapped ones, each once.  A  *)
(* frame that alloc_page() has returned and nobody has mapped yet belongs  *)
(* to a set of taken frames, so that the same invariant holds between the  *)
(* calls inside one fault.                                                 *)
(***************************************************************************)
EXTENDS Swap, SequenceTheorems, TLAPS

Content == Values \cup {NoData}
Entry == [va : Pages, frame : Frames]

VmType ==
  [pte : [Pages -> Nat], tables : SUBSET Nat, vm_fifo : Seq(Entry), free : SUBSET Frames]
DataType == [frame : [Frames -> Content], disk : [{Sector(v) : v \in Pages} -> Content]]
MachineType == [vm : VmType, data : DataType, tlb : [Pages -> Frames \cup {NoFrame}]]

(* The word that map() makes of a frame. *)
Word(f, os, sign) == f * 4096 + os * 512 + sign

(* The pte of a page in the FIFO names its frame; every other page is on    *)
(* the disk or new.                                                         *)
Resident(q, v) == \E k \in 1..Len(q) : q[k].va = v

Matches(pte, q) ==
  /\ \A k \in 1..Len(q) :
       \E os \in 0..7, sign \in {5, 7} : pte[q[k].va] = Word(q[k].frame, os, sign)
  /\ \A v \in Pages : ~Resident(q, v) => pte[v] \in {0, Sector(v) * 256}

PtesMatch(M) == Matches(M.vm.pte, M.vm.vm_fifo)

(* A page is in the FIFO once, and its frame is nobody else's. *)
Owners(M, taken) ==
  /\ \A j, k \in 1..Len(M.vm.vm_fifo) :
       \/ M.vm.vm_fifo[j].va = M.vm.vm_fifo[k].va
       \/ M.vm.vm_fifo[j].frame = M.vm.vm_fifo[k].frame
       => j = k
  /\ \A k \in 1..Len(M.vm.vm_fifo) : M.vm.vm_fifo[k].frame \notin M.vm.free \cup taken
  /\ M.vm.free \cap taken = {}

MachineOK(M, taken) ==
  /\ M \in MachineType
  /\ PtesMatch(M)
  /\ Owners(M, taken)

(* Page v is in frame f with the content d, and the TLB knows no other      *)
(* frame.                                                                   *)
Holds(M, v, f, d) == M.data.frame[f] = d /\ M.tlb[v] \in {NoFrame, f}

(* Where the last write to each page is. *)
DataOK(M, lw) ==
  \A v \in Pages :
    lw[v] # NoData =>
      /\ \A k \in 1..Len(M.vm.vm_fifo) :
           M.vm.vm_fifo[k].va = v => Holds(M, v, M.vm.vm_fifo[k].frame, lw[v])
      /\ ~Resident(M.vm.vm_fifo, v) =>
           M.vm.pte[v] = Sector(v) * 256 /\ M.data.disk[Sector(v)] = lw[v]

SwapIInv ==
  /\ MachineOK(Machine, kernel)
  /\ kernel \subseteq Frames
  /\ last \in [Pages -> Content]
  /\ panicked \in BOOLEAN /\ strayed \in BOOLEAN

DataIInv == strayed \/ DataOK(Machine, last)

-----------------------------------------------------------------------------
(* The three words a pte can hold. *)
Names(w, f) == w \in Nat /\ Present(w) /\ PageAddr(w) = f /\ ~NeverThere(w)

LEMMA FrameWord ==
  ASSUME NEW f \in Nat \ {0}, NEW os \in 0..7, NEW sign \in {5, 7}
  PROVE  Names(Word(f, os, sign), f)
  BY SMT DEF Names, Word, Present, PageAddr, NeverThere

LEMMA DiskWord ==
  ASSUME NEW v \in Nat, v >= 1024
  PROVE  LET w == Sector(v) * 256
         IN  /\ w \in Nat /\ ~Present(w) /\ ~NeverThere(w)
             /\ w \div 256 = Sector(v) /\ Os(w) \in 0..7
  BY SMT DEF Present, PageAddr, NeverThere, Sector, Os

LEMMA NoWord == ~Present(0) /\ NeverThere(0) /\ Os(0) = 0
  BY SMT DEF Present, PageAddr, NeverThere, Os, Sign

-----------------------------------------------------------------------------
(* The parts of a machine, and of the machine after each operation. *)
LEMMA MachineParts ==
  ASSUME NEW M \in MachineType
  PROVE  /\ M.vm.pte \in [Pages -> Nat] /\ M.vm.tables \in SUBSET Nat
         /\ M.vm.vm_fifo \in Seq(Entry) /\ M.vm.free \in SUBSET Frames
         /\ M.data.frame \in [Frames -> Content]
         /\ M.data.disk \in [{Sector(v) : v \in Pages} -> Content]
         /\ M.tlb \in [Pages -> Frames \cup {NoFrame}]
         /\ Len(M.vm.vm_fifo) \in Nat
  BY DEF MachineType, VmType, DataType

LEMMA SwapOutParts ==
  ASSUME NEW M \in MachineType, M.vm.vm_fifo # <<>>
  PROVE  LET old == Head(M.vm.vm_fifo)
             N == swap_out(M)
         IN  /\ old \in Entry
             /\ N.vm.pte = [M.vm.pte EXCEPT ![old.va] = Sector(old.va) * 256]
             /\ N.vm.tables = M.vm.tables
             /\ N.vm.vm_fifo = Tail(M.vm.vm_fifo)
             /\ N.vm.free = M.vm.free \cup {old.frame}
             /\ N.data.frame = M.data.frame
             /\ N.data.disk = [M.data.disk EXCEPT ![Sector(old.va)] = M.data.frame[old.frame]]
             /\ N.tlb = M.tlb
             /\ N \in MachineType
<1> DEFINE old == Head(M.vm.vm_fifo)
           N == swap_out(M)
<1>0. /\ M.vm.vm_fifo \in Seq(Entry) /\ M.vm.pte \in [Pages -> Nat]
      /\ M.data.frame \in [Frames -> Content]
      /\ M.data.disk \in [{Sector(v) : v \in Pages} -> Content]
  BY MachineParts
<1>1. old \in Entry /\ Tail(M.vm.vm_fifo) \in Seq(Entry)
  BY <1>0
<1>2. old.va \in Pages /\ old.frame \in Frames
  BY <1>1 DEF Entry
<1>3. Sector(old.va) * 256 \in Nat
  BY <1>2, SwapAssumption DEF Sector
<1> HIDE DEF old
<1> DEFINE D == M.data
           W == M.vm
           x == M.data.frame[old.frame]
           y == Sector(old.va)
           z == Sector(old.va) * 256
<1>4. N = [M EXCEPT !.data.disk[y] = x, !.vm.pte[old.va] = z,
                    !.vm.vm_fifo = Tail(@), !.vm.free = @ \cup {old.frame}]
  BY DEF swap_out, old
<1>a. /\ M = [vm |-> W, data |-> D, tlb |-> M.tlb]
      /\ W \in VmType /\ D \in DataType /\ M.tlb \in [Pages -> Frames \cup {NoFrame}]
  BY DEF MachineType
<1>b. x \in Content /\ z \in Nat /\ y \in {Sector(v) : v \in Pages}
  BY <1>0, <1>2, <1>3
<1> HIDE DEF N, x, y, z
<1>5. /\ N.vm = [W EXCEPT !.pte[old.va] = z, !.vm_fifo = Tail(@), !.free = @ \cup {old.frame}]
      /\ N.data = [D EXCEPT !.disk[y] = x]
      /\ N.tlb = M.tlb /\ N = [vm |-> N.vm, data |-> N.data, tlb |-> N.tlb]
  BY <1>4, <1>a
<1> HIDE DEF D, W
<1>6. /\ N.vm.pte = [W.pte EXCEPT ![old.va] = z] /\ N.vm.tables = W.tables
      /\ N.vm.vm_fifo = Tail(W.vm_fifo) /\ N.vm.free = W.free \cup {old.frame}
  BY <1>5, <1>a DEF VmType
<1>7. N.data.frame = D.frame /\ N.data.disk = [D.disk EXCEPT ![y] = x]
  BY <1>5, <1>a DEF DataType
<1>8. N.vm \in VmType
  <2>1. Tail(W.vm_fifo) \in Seq(Entry)
    BY <1>1 DEF W
  <2>2. W.free \cup {old.frame} \in SUBSET Frames /\ [W.pte EXCEPT ![old.va] = z] \in [Pages -> Nat]
    BY <1>2, <1>a, <1>b DEF VmType
  <2>. QED  BY <1>5, <1>a, <2>1, <2>2 DEF VmType
<1>9. N.data \in DataType
  BY <1>5, <1>a, <1>b DEF DataType
<1>10. N \in MachineType
  BY <1>5, <1>8, <1>9, <1>a DEF MachineType
<1>. QED  BY <1>1, <1>5, <1>6, <1>7, <1>10 DEF old, N, D, W, x, y, z

(* alloc_page() takes the frame off the free list before it swaps. *)
Take(M, f) == [M EXCEPT !.vm.free = @ \ {f}]

LEMMA TakeParts ==
  ASSUME NEW M \in MachineType, NEW f
  PROVE  LET N == Take(M, f)
         IN  /\ N.vm.pte = M.vm.pte /\ N.vm.tables = M.vm.tables
             /\ N.vm.vm_fifo = M.vm.vm_fifo /\ N.vm.free = M.vm.free \ {f}
             /\ N.data = M.data /\ N.tlb = M.tlb
             /\ N \in MachineType
<1> DEFINE N == Take(M, f)
           W == M.vm
<1>1. /\ M = [vm |-> W, data |-> M.data, tlb |-> M.tlb]
      /\ W \in VmType /\ M.data \in DataType /\ M.tlb \in [Pages -> Frames \cup {NoFrame}]
  BY DEF MachineType
<1>2. /\ N.vm = [W EXCEPT !.free = @ \ {f}] /\ N.data = M.data /\ N.tlb = M.tlb
      /\ N = [vm |-> N.vm, data |-> N.data, tlb |-> N.tlb]
  BY <1>1 DEF Take
<1> HIDE DEF N, W
<1>3. /\ N.vm.pte = W.pte /\ N.vm.tables = W.tables
      /\ N.vm.vm_fifo = W.vm_fifo /\ N.vm.free = W.free \ {f}
      /\ N.vm \in VmType
  BY <1>1, <1>2 DEF VmType
<1>4. N \in MachineType
  BY <1>1, <1>2, <1>3 DEF MachineType
<1>. QED  BY <1>2, <1>3, <1>4 DEF N, W

(* A frame gets new content. *)
Fill(M, f, d) == [M EXCEPT !.data.frame[f] = d]

FillView(N, M, f, d) ==
  /\ N.vm = M.vm /\ N.tlb = M.tlb
  /\ N.data = [M.data EXCEPT !.frame[f] = d]
  /\ N.data.frame = [M.data.frame EXCEPT ![f] = d] /\ N.data.disk = M.data.disk
  /\ N \in MachineType

LEMMA FillParts ==
  ASSUME NEW M \in MachineType, NEW f \in Frames, NEW d \in Content
  PROVE  FillView(Fill(M, f, d), M, f, d)
<1> DEFINE N == Fill(M, f, d)
           D == M.data
<1>1. /\ M = [vm |-> M.vm, data |-> D, tlb |-> M.tlb]
      /\ M.vm \in VmType /\ D \in DataType /\ M.tlb \in [Pages -> Frames \cup {NoFrame}]
  BY DEF MachineType
<1>2. /\ N.data = [D EXCEPT !.frame[f] = d] /\ N.vm = M.vm /\ N.tlb = M.tlb
      /\ N = [vm |-> N.vm, data |-> N.data, tlb |-> N.tlb]
  BY <1>1 DEF Fill
<1> HIDE DEF N, D
<1>3. /\ N.data.frame = [D.frame EXCEPT ![f] = d] /\ N.data.disk = D.disk
      /\ N.data \in DataType
  <2>1. /\ D.frame \in [Frames -> Content] /\ D.disk \in [{Sector(v) : v \in Pages} -> Content]
        /\ D = [frame |-> D.frame, disk |-> D.disk]
    BY <1>1 DEF DataType
  <2>2. N.data = [frame |-> [D.frame EXCEPT ![f] = d], disk |-> D.disk]
    BY <1>2, <2>1
  <2>3. [D.frame EXCEPT ![f] = d] \in [Frames -> Content]
    BY <2>1
  <2>. QED  BY <2>1, <2>2, <2>3 DEF DataType
<1>4. N \in MachineType
  BY <1>1, <1>2, <1>3 DEF MachineType
<1>. QED  BY <1>2, <1>3, <1>4 DEF N, D, FillView

(* get_pte() enters the page table it has allocated and cleared. *)
AddTable(M, r, f) == [M EXCEPT !.vm.tables = @ \cup {r}, !.data.frame[f] = NoData]

TableView(N, M, f) ==
  /\ N.vm.pte = M.vm.pte /\ N.vm.vm_fifo = M.vm.vm_fifo /\ N.vm.free = M.vm.free
  /\ N.data.frame = [M.data.frame EXCEPT ![f] = NoData] /\ N.data.disk = M.data.disk
  /\ N.tlb = M.tlb
  /\ N \in MachineType

LEMMA TableParts ==
  ASSUME NEW M \in MachineType, NEW r \in Nat, NEW f \in Frames
  PROVE  TableView(AddTable(M, r, f), M, f)
<1> DEFINE N == AddTable(M, r, f)
           W == M.vm
           D == M.data
<1>1. /\ M = [vm |-> W, data |-> D, tlb |-> M.tlb]
      /\ W \in VmType /\ D \in DataType /\ M.tlb \in [Pages -> Frames \cup {NoFrame}]
  BY DEF MachineType
<1>a. N = [M EXCEPT !.vm.tables = @ \cup {r}, !.data.frame[f] = NoData]
  BY DEF AddTable
<1> HIDE DEF N
<1>2. /\ N.vm = [W EXCEPT !.tables = @ \cup {r}]
      /\ N.data = [D EXCEPT !.frame[f] = NoData] /\ N.tlb = M.tlb
      /\ N = [vm |-> N.vm, data |-> N.data, tlb |-> N.tlb]
  BY <1>1, <1>a
<1> HIDE DEF W, D
<1>3. N.vm.pte = W.pte /\ N.vm.vm_fifo = W.vm_fifo /\ N.vm.free = W.free /\ N.vm \in VmType
  <2>1. W \in VmType /\ N.vm = [W EXCEPT !.tables = @ \cup {r}]
    BY <1>1, <1>2
  <2>2. W.tables \cup {r} \in SUBSET Nat
    BY <2>1 DEF VmType
  <2>. QED  BY <2>1, <2>2 DEF VmType
<1>4. /\ N.data.frame = [D.frame EXCEPT ![f] = NoData] /\ N.data.disk = D.disk
      /\ N.data \in DataType
  BY <1>1, <1>2 DEF DataType, Content
<1>5. N \in MachineType
  BY <1>1, <1>2, <1>3, <1>4 DEF MachineType
<1>. QED  BY <1>2, <1>3, <1>4, <1>5 DEF N, W, D, TableView

MapView(N, M, v, f, sign) ==
  LET word == f * 4096 + Os(M.vm.pte[v]) * 512 + sign
  IN  /\ N.vm.pte = [M.vm.pte EXCEPT ![v] = word]
      /\ N.vm.tables = M.vm.tables /\ N.vm.free = M.vm.free
      /\ N.vm.vm_fifo = Append(M.vm.vm_fifo, [va |-> v, frame |-> f])
      /\ N.data = M.data /\ N.tlb = [M.tlb EXCEPT ![v] = NoFrame]
      /\ word \in Nat => N \in MachineType

LEMMA MapParts ==
  ASSUME NEW M \in MachineType, NEW v \in Pages, NEW f \in Frames, NEW sign \in {5, 7}
  PROVE  MapView(map(M, v, f, sign), M, v, f, sign)
<1> DEFINE N == map(M, v, f, sign)
           W == M.vm
           e == [va |-> v, frame |-> f]
           word == f * 4096 + Os(W.pte[v]) * 512 + sign
<1>1. /\ M = [vm |-> W, data |-> M.data, tlb |-> M.tlb]
      /\ W \in VmType /\ M.data \in DataType /\ M.tlb \in [Pages -> Frames \cup {NoFrame}]
  BY DEF MachineType
<1>2. N = [M EXCEPT !.vm.pte[v] = word, !.tlb[v] = NoFrame, !.vm.vm_fifo = Append(@, e)]
  BY DEF map
<1>3. e \in Entry
  BY DEF Entry
<1> HIDE DEF N, e, word
<1>4. /\ N.vm = [W EXCEPT !.pte[v] = word, !.vm_fifo = Append(@, e)]
      /\ N.data = M.data /\ N.tlb = [M.tlb EXCEPT ![v] = NoFrame]
      /\ N = [vm |-> N.vm, data |-> N.data, tlb |-> N.tlb]
  BY <1>1, <1>2
<1> HIDE DEF W
<1>5. /\ N.vm.pte = [W.pte EXCEPT ![v] = word] /\ N.vm.tables = W.tables
      /\ N.vm.free = W.free /\ N.vm.vm_fifo = Append(W.vm_fifo, e)
  BY <1>1, <1>4 DEF VmType
<1>6. ASSUME word \in Nat  PROVE N \in MachineType
  <2>1. W.vm_fifo \in Seq(Entry) /\ W.pte \in [Pages -> Nat]
    BY <1>1 DEF VmType
  <2>2. Append(W.vm_fifo, e) \in Seq(Entry)
    BY <1>3, <2>1
  <2>3. [W.pte EXCEPT ![v] = word] \in [Pages -> Nat]
    BY <1>6, <2>1
  <2>4. N.vm \in VmType
    BY <1>1, <1>4, <2>2, <2>3 DEF VmType
  <2>5. N.tlb \in [Pages -> Frames \cup {NoFrame}]
    BY <1>1, <1>4
  <2>. QED  BY <1>1, <1>4, <2>4, <2>5 DEF MachineType
<1>. QED  BY <1>4, <1>5, <1>6 DEF N, W, e, word, MapView

-----------------------------------------------------------------------------
(* The FIFO without its first entry, and with one more at its end. *)
LEMMA TailEntries ==
  ASSUME NEW q \in Seq(Entry), q # <<>>
  PROVE  /\ Len(q) \in Nat /\ 1 \in 1..Len(q) /\ Head(q) = q[1]
         /\ \A k \in 1..Len(Tail(q)) : k + 1 \in 1..Len(q) /\ k + 1 # 1 /\ Tail(q)[k] = q[k + 1]
         /\ \A v : ~Resident(Tail(q), v) => ~Resident(q, v) \/ v = Head(q).va
<1>1. Len(q) \in Nat /\ Len(q) # 0 /\ Head(q) = q[1]
  OBVIOUS
<1>2. Len(Tail(q)) = Len(q) - 1 /\ \A k \in 1..(Len(q) - 1) : Tail(q)[k] = q[k + 1]
  BY <1>1
<1>3. ASSUME NEW v, ~Resident(Tail(q), v), NEW k \in 1..Len(q), q[k].va = v
      PROVE  v = Head(q).va
  <2>1. CASE k = 1
    BY <1>1, <1>3, <2>1
  <2>2. CASE k # 1
    <3>1. k - 1 \in 1..(Len(q) - 1) /\ (k - 1) + 1 = k
      BY <1>1, <1>3, <2>2
    <3>2. Tail(q)[k - 1] = q[k]
      BY <1>2, <3>1
    <3>. QED  BY <1>2, <1>3, <3>1, <3>2 DEF Resident
  <2>. QED  BY <2>1, <2>2
<1>4. 1 \in 1..Len(q) /\ \A k \in 1..(Len(q) - 1) : k + 1 \in 1..Len(q) /\ k + 1 # 1
  BY <1>1
<1>. QED  BY <1>1, <1>2, <1>3, <1>4 DEF Resident

LEMMA AppendEntries ==
  ASSUME NEW q \in Seq(Entry), NEW e \in Entry
  PROVE  LET n == Append(q, e)
         IN  /\ Len(q) \in Nat
             /\ \A k \in 1..Len(n) :
                  (k \in 1..Len(q) /\ n[k] = q[k]) \/ (k = Len(q) + 1 /\ n[k] = e)
             /\ Len(q) + 1 \in 1..Len(n) /\ n[Len(q) + 1] = e
             /\ \A k \in 1..Len(q) : k \in 1..Len(n) /\ n[k] = q[k] /\ k # Len(q) + 1
             /\ \A v : ~Resident(n, v) => ~Resident(q, v) /\ v # e.va
<1> DEFINE n == Append(q, e)
<1>1. /\ Len(q) \in Nat /\ Len(n) = Len(q) + 1 /\ n[Len(q) + 1] = e
      /\ \A k \in 1..Len(q) : n[k] = q[k]
  OBVIOUS
<1> HIDE DEF n
<1>2. \A k \in 1..Len(n) : k \in 1..Len(q) \/ k = Len(q) + 1
  BY <1>1
<1>3. Len(q) + 1 \in 1..Len(n) /\ \A k \in 1..Len(q) : k \in 1..Len(n) /\ k # Len(q) + 1
  BY <1>1
<1>4. \A v : ~Resident(n, v) => ~Resident(q, v) /\ v # e.va
  BY <1>1, <1>3 DEF Resident
<1>. QED  BY <1>1, <1>2, <1>3, <1>4 DEF n

-----------------------------------------------------------------------------
(* swap_out() keeps the owners apart and the contents where they belong. *)
LEMMA SwapOutKeeps ==
  ASSUME NEW M, NEW taken, MachineOK(M, taken)
  PROVE  LET N == swap_out(M)
         IN  /\ MachineOK(N, taken)
             /\ N.data.frame = M.data.frame /\ N.tlb = M.tlb
             /\ \A v \in Pages : ~Resident(M.vm.vm_fifo, v) =>
                  /\ ~Resident(N.vm.vm_fifo, v)
                  /\ N.vm.pte[v] = M.vm.pte[v] /\ N.data.disk[Sector(v)] = M.data.disk[Sector(v)]
             /\ \A lw : DataOK(M, lw) => DataOK(N, lw)
<1> DEFINE N == swap_out(M)
           q == M.vm.vm_fifo
           t == N.vm.vm_fifo
           old == Head(q)
<1>1. CASE q = <<>>
  <2>1. N = M
    BY <1>1 DEF swap_out
  <2>. QED  BY <2>1
<1>2. CASE q # <<>>
  <2>0. M \in MachineType /\ PtesMatch(M) /\ Owners(M, taken)
    BY DEF MachineOK
  <2>1. /\ q \in Seq(Entry) /\ M.vm.pte \in [Pages -> Nat]
        /\ M.data.disk \in [{Sector(v) : v \in Pages} -> Content] /\ M.vm.free \in SUBSET Frames
    BY <2>0, MachineParts
  <2>2. /\ old \in Entry /\ N \in MachineType /\ t = Tail(q)
        /\ N.vm.pte = [M.vm.pte EXCEPT ![old.va] = Sector(old.va) * 256]
        /\ N.vm.free = M.vm.free \cup {old.frame}
        /\ N.data.frame = M.data.frame /\ N.tlb = M.tlb
        /\ N.data.disk = [M.data.disk EXCEPT ![Sector(old.va)] = M.data.frame[old.frame]]
    BY <1>2, <2>0, SwapOutParts
  <2>3. /\ Len(q) \in Nat /\ 1 \in 1..Len(q) /\ old = q[1]
        /\ \A k \in 1..Len(t) : k + 1 \in 1..Len(q) /\ k + 1 # 1 /\ t[k] = q[k + 1]
        /\ \A v : ~Resident(t, v) => ~Resident(q, v) \/ v = old.va
    BY <1>2, <2>1, <2>2, TailEntries
  <2>4. Len(t) \in Nat
    BY <2>2, MachineParts
  <2>5. \A k \in 1..Len(q) : q[k].va \in Pages /\ q[k].frame \in Frames
    <3>1. \A k \in 1..Len(q) : q[k] \in Entry
      BY <2>1
    <3>. QED  BY <3>1 DEF Entry
  <2>6. old.va \in Pages /\ old.frame \in Frames
    BY <2>3, <2>5
  <2>7. \A v, w \in Pages : Sector(v) = Sector(w) => v = w
    BY SwapAssumption DEF Sector
  <2>8. \A k \in 1..Len(t) : t[k].va # old.va /\ t[k].frame # old.frame /\ t[k].va \in Pages
    BY <2>0, <2>3, <2>5 DEF Owners
  <2>9. \A v : ~Resident(q, v) => ~Resident(t, v) /\ v # old.va
    BY <2>3 DEF Resident
  <2> HIDE DEF N, q, t, old
  <2>10. PtesMatch(N)
    <3>1. ASSUME NEW k \in 1..Len(t)
          PROVE  \E os \in 0..7, sign \in {5, 7} :
                   N.vm.pte[t[k].va] = Word(t[k].frame, os, sign)
      <4>1. N.vm.pte[t[k].va] = M.vm.pte[t[k].va]
        BY <2>1, <2>2, <2>8
      <4>2. \E os \in 0..7, sign \in {5, 7} :
              M.vm.pte[q[k + 1].va] = Word(q[k + 1].frame, os, sign)
        BY <2>0, <2>3 DEF PtesMatch, Matches, q
      <4>3. t[k] = q[k + 1]
        BY <2>3
      <4>. QED  BY <4>1, <4>2, <4>3
    <3>2. ASSUME NEW v \in Pages, ~Resident(t, v)
          PROVE  N.vm.pte[v] \in {0, Sector(v) * 256}
      <4>1. CASE v = old.va
        BY <2>1, <2>2, <2>6, <4>1
      <4>2. CASE v # old.va
        <5>1. N.vm.pte[v] = M.vm.pte[v] /\ ~Resident(q, v)
          BY <2>1, <2>2, <2>3, <3>2, <4>2
        <5>. QED  BY <2>0, <5>1 DEF PtesMatch, Matches, q
      <4>. QED  BY <4>1, <4>2
    <3>. QED  BY <3>1, <3>2 DEF PtesMatch, Matches, t
  <2>11. Owners(N, taken)
    <3>1. ASSUME NEW j \in 1..Len(t), NEW k \in 1..Len(t),
                 t[j].va = t[k].va \/ t[j].frame = t[k].frame
          PROVE  j = k
      <4>0. /\ j + 1 \in 1..Len(q) /\ k + 1 \in 1..Len(q)
            /\ q[j + 1].va = q[k + 1].va \/ q[j + 1].frame = q[k + 1].frame
        BY <2>3, <3>1
      <4>1. j + 1 = k + 1
        BY <2>0, <4>0 DEF Owners, q
      <4>. QED  BY <2>4, <4>1
    <3>2. ASSUME NEW k \in 1..Len(t)  PROVE t[k].frame \notin N.vm.free \cup taken
      <4>1. k + 1 \in 1..Len(q) /\ t[k] = q[k + 1] /\ t[k].frame # old.frame
        BY <2>3, <2>8
      <4>2. \A j \in 1..Len(q) : q[j].frame \notin M.vm.free \cup taken
        BY <2>0 DEF Owners, q
      <4>3. q[k + 1].frame \notin M.vm.free \cup taken
        BY <4>1, <4>2
      <4>. QED  BY <2>2, <4>1, <4>3
    <3>3. N.vm.free \cap taken = {}
      <4>1. M.vm.free \cap taken = {} /\ \A j \in 1..Len(q) : q[j].frame \notin M.vm.free \cup taken
        BY <2>0 DEF Owners, q
      <4>2. old.frame \notin taken
        BY <2>3, <4>1
      <4>. QED  BY <2>2, <4>1, <4>2
    <3>. QED  BY <3>1, <3>2, <3>3 DEF Owners, t
  <2>12. ASSUME NEW lw, DataOK(M, lw)  PROVE DataOK(N, lw)
    <3>. SUFFICES ASSUME NEW v \in Pages, lw[v] # NoData
                  PROVE  /\ \A k \in 1..Len(t) : t[k].va = v => Holds(N, v, t[k].frame, lw[v])
                         /\ ~Resident(t, v) =>
                              N.vm.pte[v] = Sector(v) * 256 /\ N.data.disk[Sector(v)] = lw[v]
      BY DEF DataOK, t
    <3>1. /\ \A k \in 1..Len(q) : q[k].va = v => Holds(M, v, q[k].frame, lw[v])
          /\ ~Resident(q, v) => M.vm.pte[v] = Sector(v) * 256 /\ M.data.disk[Sector(v)] = lw[v]
      BY <2>12 DEF DataOK, q
    <3>2. \A k \in 1..Len(t) : t[k].va = v => Holds(N, v, t[k].frame, lw[v])
      BY <2>2, <2>3, <3>1 DEF Holds
    <3>3. ASSUME ~Resident(t, v)
          PROVE  N.vm.pte[v] = Sector(v) * 256 /\ N.data.disk[Sector(v)] = lw[v]
      <4>1. CASE v = old.va
        <5>1. M.data.frame[old.frame] = lw[v]
          BY <2>3, <3>1, <4>1 DEF Holds
        <5>2. N.data.disk[Sector(v)] = M.data.frame[old.frame]
          BY <2>1, <2>2, <2>6, <4>1
        <5>3. N.vm.pte[v] = Sector(v) * 256
          BY <2>1, <2>2, <2>6, <4>1
        <5>. QED  BY <5>1, <5>2, <5>3
      <4>2. CASE v # old.va
        <5>1. ~Resident(q, v)
          BY <2>3, <3>3, <4>2
        <5>2. N.vm.pte[v] = M.vm.pte[v] /\ N.data.disk[Sector(v)] = M.data.disk[Sector(v)]
          BY <2>1, <2>2, <2>6, <2>7, <4>2
        <5>. QED  BY <3>1, <5>1, <5>2
      <4>. QED  BY <4>1, <4>2
    <3>. QED  BY <3>2, <3>3
  <2>13. ASSUME NEW v \in Pages, ~Resident(q, v)
         PROVE  /\ ~Resident(t, v) /\ N.vm.pte[v] = M.vm.pte[v]
                /\ N.data.disk[Sector(v)] = M.data.disk[Sector(v)]
    BY <2>1, <2>2, <2>6, <2>7, <2>9, <2>13
  <2>. QED  BY <2>2, <2>10, <2>11, <2>12, <2>13 DEF MachineOK, N, q, t
<1>. QED  BY <1>1, <1>2

(* alloc_page(): the frame is the caller's, whatever was swapped out. *)
LEMMA AllocKeeps ==
  ASSUME NEW M, NEW taken, MachineOK(M, taken), NEW f \in M.vm.free
  PROVE  LET A == alloc_page(M, f)
         IN  /\ MachineOK(A, taken \cup {f}) /\ f \in Frames
             /\ A.data.frame = M.data.frame /\ A.tlb = M.tlb
             /\ \A v \in Pages : ~Resident(M.vm.vm_fifo, v) =>
                  /\ ~Resident(A.vm.vm_fifo, v)
                  /\ A.vm.pte[v] = M.vm.pte[v] /\ A.data.disk[Sector(v)] = M.data.disk[Sector(v)]
             /\ \A lw : DataOK(M, lw) => DataOK(A, lw)
<1> DEFINE T == Take(M, f)
<1>0. M \in MachineType /\ PtesMatch(M) /\ Owners(M, taken)
  BY DEF MachineOK
<1>1. /\ T.vm.pte = M.vm.pte /\ T.vm.vm_fifo = M.vm.vm_fifo /\ T.vm.free = M.vm.free \ {f}
      /\ T.data = M.data /\ T.tlb = M.tlb /\ T \in MachineType
  BY <1>0, TakeParts
<1>2. alloc_page(M, f) = swap_out(T)
  BY DEF alloc_page, Take
<1>3. f \in Frames
  BY <1>0, MachineParts
<1> HIDE DEF T
<1>4. PtesMatch(T)
  BY <1>0, <1>1 DEF PtesMatch
<1>5. Owners(T, taken \cup {f})
  BY <1>0, <1>1 DEF Owners
<1>6. MachineOK(T, taken \cup {f})
  BY <1>1, <1>4, <1>5 DEF MachineOK
<1>7. \A lw : DataOK(M, lw) => DataOK(T, lw)
  BY <1>1 DEF DataOK, Holds
<1>. QED  BY <1>1, <1>2, <1>3, <1>6, <1>7, SwapOutKeeps

(* The content of a frame that is in no pte may change. *)
LEMMA FillKeeps ==
  ASSUME NEW M, NEW taken, MachineOK(M, taken), NEW f \in taken, f \in Frames, NEW d \in Content
  PROVE  LET N == Fill(M, f, d)
         IN  /\ MachineOK(N, taken)
             /\ \A lw : DataOK(M, lw) => DataOK(N, lw)
<1> DEFINE N == Fill(M, f, d)
<1>0. M \in MachineType /\ PtesMatch(M) /\ Owners(M, taken)
  BY DEF MachineOK
<1>1. /\ N.vm = M.vm /\ N.tlb = M.tlb /\ N \in MachineType
      /\ N.data.frame = [M.data.frame EXCEPT ![f] = d] /\ N.data.disk = M.data.disk
  <2>1. FillView(N, M, f, d)
    BY <1>0, FillParts
  <2>. QED  BY <2>1 DEF FillView
<1>2. M.data.frame \in [Frames -> Content] /\ M.vm.vm_fifo \in Seq(Entry)
  BY <1>0, MachineParts
<1> HIDE DEF N
<1>3. MachineOK(N, taken)
  <2>1. PtesMatch(N)
    BY <1>0, <1>1 DEF PtesMatch
  <2>2. Owners(N, taken)
    BY <1>0, <1>1 DEF Owners
  <2>. QED  BY <1>1, <2>1, <2>2 DEF MachineOK
<1>4. \A k \in 1..Len(M.vm.vm_fifo) :
        N.data.frame[M.vm.vm_fifo[k].frame] = M.data.frame[M.vm.vm_fifo[k].frame]
  <2>1. \A k \in 1..Len(M.vm.vm_fifo) : M.vm.vm_fifo[k].frame # f
    BY <1>0 DEF Owners
  <2>2. \A k \in 1..Len(M.vm.vm_fifo) : M.vm.vm_fifo[k] \in Entry
    BY <1>2
  <2>3. \A k \in 1..Len(M.vm.vm_fifo) : M.vm.vm_fifo[k].frame \in Frames
    BY <2>2 DEF Entry
  <2>. QED  BY <1>1, <1>2, <2>1, <2>3
<1>5. \A lw : DataOK(M, lw) => DataOK(N, lw)
  BY <1>1, <1>4 DEF DataOK, Holds
<1>. QED  BY <1>3, <1>5 DEF N

(* The word that map() stores. *)
LEMMA MapWord ==
  ASSUME NEW v \in Pages, NEW p \in {0, Sector(v) * 256}
  PROVE  Os(p) \in 0..7 /\ ~Present(p)
<1>1. v \in Nat /\ v >= 1024
  BY SwapAssumption
<1>2. CASE p = 0
  BY <1>2, NoWord
<1>3. CASE p = Sector(v) * 256
  BY <1>1, <1>3, DiskWord
<1>. QED  BY <1>2, <1>3

(* map() hands a taken frame to a page that had none. *)
MapKept(N, M, taken, v, f) ==
  /\ MachineOK(N, taken) /\ Walk(N, v) = f
  /\ \E k \in 1..Len(N.vm.vm_fifo) : N.vm.vm_fifo[k].va = v /\ N.vm.vm_fifo[k].frame = f
  /\ N.tlb = [M.tlb EXCEPT ![v] = NoFrame]
  /\ \A lw : (DataOK(M, lw) /\ (lw[v] # NoData => M.data.frame[f] = lw[v])) => DataOK(N, lw)

LEMMA MapKeeps ==
  ASSUME NEW M, NEW taken, NEW f \in Frames, MachineOK(M, taken \cup {f}), f \notin taken,
         NEW v \in Pages, ~Resident(M.vm.vm_fifo, v), NEW sign \in {5, 7}
  PROVE  MapKept(map(M, v, f, sign), M, taken, v, f)
<1> DEFINE N == map(M, v, f, sign)
           q == M.vm.vm_fifo
           n == N.vm.vm_fifo
           e == [va |-> v, frame |-> f]
           word == f * 4096 + Os(M.vm.pte[v]) * 512 + sign
<1>0. M \in MachineType /\ PtesMatch(M) /\ Owners(M, taken \cup {f})
  BY DEF MachineOK
<1>1. q \in Seq(Entry) /\ M.vm.pte \in [Pages -> Nat]
  BY <1>0, MachineParts
<1>2. /\ N.vm.pte = [M.vm.pte EXCEPT ![v] = word]
      /\ n = Append(q, e) /\ N.vm.free = M.vm.free
      /\ N.data = M.data /\ N.tlb = [M.tlb EXCEPT ![v] = NoFrame]
      /\ word \in Nat => N \in MachineType
  <2>1. MapView(N, M, v, f, sign)
    BY <1>0, MapParts
  <2>. QED  BY <2>1 DEF MapView
<1>3. e \in Entry /\ e.va = v /\ e.frame = f
  BY DEF Entry
<1>4. Os(M.vm.pte[v]) \in 0..7 /\ M.vm.pte[v] \in {0, Sector(v) * 256}
  <2>1. M.vm.pte[v] \in {0, Sector(v) * 256}
    BY <1>0 DEF PtesMatch, Matches
  <2>. QED  BY <2>1, MapWord
<1>5. f \in Nat \ {0}
  BY SwapAssumption
<1>6. word \in Nat /\ Present(word) /\ PageAddr(word) = f
  <2>1. Names(Word(f, Os(M.vm.pte[v]), sign), f)
    BY <1>4, <1>5, FrameWord
  <2>. QED  BY <2>1 DEF Names, Word
<1>7. N.vm.pte[v] = word /\ \A w \in Pages : w # v => N.vm.pte[w] = M.vm.pte[w]
  BY <1>1, <1>2
<1>8. Walk(N, v) = f
  BY <1>6, <1>7 DEF Walk
<1> HIDE DEF e
<1>9. /\ Len(q) \in Nat
      /\ \A k \in 1..Len(n) : (k \in 1..Len(q) /\ n[k] = q[k]) \/ (k = Len(q) + 1 /\ n[k] = e)
      /\ Len(q) + 1 \in 1..Len(n) /\ n[Len(q) + 1] = e
      /\ \A k \in 1..Len(q) : k \in 1..Len(n) /\ n[k] = q[k] /\ k # Len(q) + 1
      /\ \A w : ~Resident(n, w) => ~Resident(q, w) /\ w # e.va
  <2>1. n = Append(q, e) /\ q \in Seq(Entry) /\ e \in Entry
    BY <1>1, <1>2, <1>3
  <2> HIDE DEF q, n
  <2>. QED  BY <2>1, AppendEntries
<1>10. \A k \in 1..Len(q) : q[k].va \in Pages /\ q[k].va # v /\ q[k].frame # f
  <2>1. \A k \in 1..Len(q) : q[k] \in Entry
    BY <1>1
  <2>2. \A k \in 1..Len(q) : q[k].va # v
    BY DEF Resident
  <2>3. \A k \in 1..Len(q) : q[k].frame # f
    BY <1>0 DEF Owners
  <2>. QED  BY <2>1, <2>2, <2>3 DEF Entry
<1>11. PICK os \in 0..7 : os = Os(M.vm.pte[v])
  BY <1>4
<1> HIDE DEF N, q, n
<1>12. PtesMatch(N)
  <2>1. ASSUME NEW k \in 1..Len(n)
        PROVE  \E o \in 0..7, s \in {5, 7} : N.vm.pte[n[k].va] = Word(n[k].frame, o, s)
    <3>1. CASE k \in 1..Len(q) /\ n[k] = q[k]
      <4>1. \E o \in 0..7, s \in {5, 7} : M.vm.pte[q[k].va] = Word(q[k].frame, o, s)
        BY <1>0, <3>1 DEF PtesMatch, Matches, q
      <4>2. N.vm.pte[q[k].va] = M.vm.pte[q[k].va]
        BY <1>7, <1>10, <3>1
      <4>3. n[k] = q[k]
        BY <3>1
      <4>. QED  BY <4>1, <4>2, <4>3
    <3>2. CASE n[k] = e
      <4>1. N.vm.pte[n[k].va] = Word(n[k].frame, os, sign)
        BY <1>3, <1>7, <1>11, <3>2 DEF Word
      <4>. QED  BY <4>1
    <3>. QED  BY <1>9, <3>1, <3>2
  <2>2. ASSUME NEW w \in Pages, ~Resident(n, w)
        PROVE  N.vm.pte[w] \in {0, Sector(w) * 256}
    <3>1. ~Resident(q, w) /\ w # v
      BY <1>3, <1>9, <2>2
    <3>2. N.vm.pte[w] = M.vm.pte[w]
      BY <1>7, <3>1
    <3>. QED  BY <1>0, <3>1, <3>2 DEF PtesMatch, Matches, q
  <2>. QED  BY <2>1, <2>2 DEF PtesMatch, Matches, n
<1>13. Owners(N, taken)
  <2>1. ASSUME NEW j \in 1..Len(n), NEW k \in 1..Len(n),
               n[j].va = n[k].va \/ n[j].frame = n[k].frame
        PROVE  j = k
    <3>1. CASE j \in 1..Len(q) /\ n[j] = q[j] /\ k \in 1..Len(q) /\ n[k] = q[k]
      BY <1>0, <2>1, <3>1 DEF Owners, q
    <3>2. CASE j = Len(q) + 1 /\ n[j] = e /\ k \in 1..Len(q) /\ n[k] = q[k]
      BY <1>3, <1>10, <2>1, <3>2
    <3>3. CASE j \in 1..Len(q) /\ n[j] = q[j] /\ k = Len(q) + 1 /\ n[k] = e
      BY <1>3, <1>10, <2>1, <3>3
    <3>. QED  BY <1>9, <3>1, <3>2, <3>3
  <2>2. ASSUME NEW k \in 1..Len(n)  PROVE n[k].frame \notin N.vm.free \cup taken
    <3>1. CASE k \in 1..Len(q) /\ n[k] = q[k]
      BY <1>0, <1>2, <3>1 DEF Owners, q
    <3>2. CASE n[k] = e
      BY <1>0, <1>2, <1>3, <3>2 DEF Owners
    <3>. QED  BY <1>9, <3>1, <3>2
  <2>3. N.vm.free \cap taken = {}
    BY <1>0, <1>2 DEF Owners
  <2>. QED  BY <2>1, <2>2, <2>3 DEF Owners, n
<1>14. ASSUME NEW lw, DataOK(M, lw), lw[v] # NoData => M.data.frame[f] = lw[v]
       PROVE  DataOK(N, lw)
  <2>. SUFFICES ASSUME NEW w \in Pages, lw[w] # NoData
                PROVE  /\ \A k \in 1..Len(n) : n[k].va = w => Holds(N, w, n[k].frame, lw[w])
                       /\ ~Resident(n, w) =>
                            N.vm.pte[w] = Sector(w) * 256 /\ N.data.disk[Sector(w)] = lw[w]
    BY DEF DataOK, n
  <2>1. /\ \A k \in 1..Len(q) : q[k].va = w => Holds(M, w, q[k].frame, lw[w])
        /\ ~Resident(q, w) => M.vm.pte[w] = Sector(w) * 256 /\ M.data.disk[Sector(w)] = lw[w]
    BY <1>14 DEF DataOK, q
  <2>2. ASSUME NEW k \in 1..Len(n), n[k].va = w  PROVE Holds(N, w, n[k].frame, lw[w])
    <3>0. N.tlb[w] = IF w = v THEN NoFrame ELSE M.tlb[w]
      <4>1. M.tlb \in [Pages -> Frames \cup {NoFrame}]
        BY <1>0, MachineParts
      <4>. QED  BY <1>2, <4>1
    <3>1. CASE k \in 1..Len(q) /\ n[k] = q[k]
      <4>1. Holds(M, w, n[k].frame, lw[w])
        BY <2>1, <2>2, <3>1
      <4>. QED  BY <1>2, <3>0, <4>1 DEF Holds
    <3>2. CASE n[k] = e
      BY <1>2, <1>3, <1>14, <2>2, <3>0, <3>2 DEF Holds
    <3>. QED  BY <1>9, <3>1, <3>2
  <2>3. ASSUME ~Resident(n, w)
        PROVE  N.vm.pte[w] = Sector(w) * 256 /\ N.data.disk[Sector(w)] = lw[w]
    <3>1. ~Resident(q, w) /\ w # v
      BY <1>3, <1>9, <2>3
    <3>. QED  BY <1>2, <1>7, <2>1, <3>1
  <2>. QED  BY <2>2, <2>3
<1>15. MachineOK(N, taken)
  BY <1>2, <1>6, <1>12, <1>13 DEF MachineOK
<1>16. \E k \in 1..Len(n) : n[k].va = v /\ n[k].frame = f
  BY <1>3, <1>9
<1>. QED  BY <1>2, <1>8, <1>14, <1>15, <1>16 DEF N, n, MapKept

(* Frames that nobody claims any more. *)
LEMMA FewerTaken ==
  ASSUME NEW M, NEW taken, NEW fewer, fewer \subseteq taken, MachineOK(M, taken)
  PROVE  MachineOK(M, fewer)
  BY DEF MachineOK, Owners

(* get_pte(): the page table is in a frame of its own, and v is where it was. *)
LEMMA GetPteKeeps ==
  ASSUME NEW M, NEW taken, MachineOK(M, taken), NEW v \in Pages, ~Resident(M.vm.vm_fifo, v),
         NEW N \in get_pte(M, v)
  PROVE  /\ MachineOK(N, taken) /\ N.tlb = M.tlb /\ ~Resident(N.vm.vm_fifo, v)
         /\ \A lw : DataOK(M, lw) => DataOK(N, lw)
<1>1. CASE Region(v) \in M.vm.tables
  BY <1>1 DEF get_pte
<1>2. CASE Region(v) \notin M.vm.tables
  <2>1. PICK f \in M.vm.free :
          N = [alloc_page(M, f) EXCEPT !.vm.tables = @ \cup {Region(v)}, !.data.frame[f] = NoData]
    BY <1>2 DEF get_pte
  <2> DEFINE A == alloc_page(M, f)
             B == Fill(A, f, NoData)
  <2>2. /\ MachineOK(A, taken \cup {f}) /\ f \in Frames /\ A.tlb = M.tlb
        /\ ~Resident(A.vm.vm_fifo, v) /\ \A lw : DataOK(M, lw) => DataOK(A, lw)
    BY AllocKeeps
  <2>3. A \in MachineType /\ Region(v) \in Nat
    <3>1. v \in Nat
      BY SwapAssumption
    <3>2. v \div 1024 \in Nat
      BY <3>1
    <3>. QED  BY <2>2, <3>2 DEF MachineOK, Region
  <2> HIDE DEF A
  <2>4. /\ N.vm.pte = A.vm.pte /\ N.vm.vm_fifo = A.vm.vm_fifo /\ N.vm.free = A.vm.free
        /\ N.data.frame = [A.data.frame EXCEPT ![f] = NoData] /\ N.data.disk = A.data.disk
        /\ N.tlb = A.tlb /\ N \in MachineType
    <3>1. N = AddTable(A, Region(v), f)
      BY <2>1 DEF A, AddTable
    <3>2. TableView(N, A, f)
      BY <2>2, <2>3, <3>1, TableParts
    <3>. QED  BY <3>2 DEF TableView
  <2>5. FillView(B, A, f, NoData)
    BY <2>2, <2>3, FillParts DEF Content
  <2>6. MachineOK(B, taken \cup {f})
    BY <2>2, FillKeeps DEF Content
  <2>a. \A lw : DataOK(A, lw) => DataOK(B, lw)
    BY <2>2, FillKeeps DEF Content
  <2>7. /\ B.vm.pte = N.vm.pte /\ B.vm.vm_fifo = N.vm.vm_fifo /\ B.vm.free = N.vm.free
        /\ B.data.frame = N.data.frame /\ B.data.disk = N.data.disk /\ B.tlb = N.tlb
    BY <2>4, <2>5 DEF FillView
  <2> HIDE DEF B
  <2>8. MachineOK(N, taken \cup {f})
    <3>1. PtesMatch(B) /\ Owners(B, taken \cup {f})
      BY <2>6, Zenon DEF MachineOK
    <3>2. PtesMatch(N)
      BY <2>7, <3>1 DEF PtesMatch
    <3>3. Owners(N, taken \cup {f})
      BY <2>7, <3>1 DEF Owners
    <3>. QED  BY <2>4, <3>2, <3>3 DEF MachineOK
  <2>9. \A lw : DataOK(B, lw) => DataOK(N, lw)
    BY <2>7 DEF DataOK, Holds
  <2>10. MachineOK(N, taken)
    BY <2>8, FewerTaken
  <2>. QED  BY <2>2, <2>4, <2>9, <2>10, <2>a
<1>. QED  BY <1>1, <1>2

(* do_swap() on a page that is not in memory: it ends up in a frame of its *)
(* own, with the content that was on the disk.                             *)
SwapKept(N, M, taken, v, f) ==
  /\ MachineOK(N, taken) /\ Walk(N, v) = f /\ f \in Frames
  /\ \E k \in 1..Len(N.vm.vm_fifo) : N.vm.vm_fifo[k].va = v /\ N.vm.vm_fifo[k].frame = f
  /\ N.tlb = [M.tlb EXCEPT ![v] = NoFrame]
  /\ \A lw : DataOK(M, lw) => DataOK(N, lw)

LEMMA SwapInKeeps ==
  ASSUME NEW M, NEW taken, MachineOK(M, taken), NEW f \in M.vm.free,
         NEW v \in Pages, ~Resident(M.vm.vm_fifo, v)
  PROVE  SwapKept(SwapIn(M, v, f), M, taken, v, f)
<1> DEFINE N == SwapIn(M, v, f)
           A == alloc_page(M, f)
           p == M.vm.pte[v]
           B == Fill(A, f, A.data.disk[p \div 256])
<1>0. M \in MachineType /\ PtesMatch(M) /\ Owners(M, taken)
  BY DEF MachineOK
<1>1. /\ MachineOK(A, taken \cup {f}) /\ f \in Frames /\ A.tlb = M.tlb
      /\ ~Resident(A.vm.vm_fifo, v) /\ \A lw : DataOK(M, lw) => DataOK(A, lw)
      /\ A.vm.pte[v] = p
  BY AllocKeeps
<1>2. f \notin taken
  BY <1>0 DEF Owners
<1>3. p \in {0, Sector(v) * 256}
  BY <1>0 DEF PtesMatch, Matches
<1>4. v \in Nat /\ v >= 1024
  BY SwapAssumption
<1>5. CASE p = 0
  <2>1. N = map(A, v, f, 5)
    BY <1>5, NoWord DEF SwapIn
  <2>2. \A lw : DataOK(A, lw) => lw[v] = NoData
    <3>1. Sector(v) * 256 # 0
      BY <1>4 DEF Sector
    <3>. QED  BY <1>1, <1>5, <3>1 DEF DataOK
  <2> HIDE DEF A, N
  <2>3. MapKept(N, A, taken, v, f)
    BY <1>1, <1>2, <2>1, MapKeeps
  <2>. QED  BY <1>1, <2>2, <2>3 DEF N, MapKept, SwapKept
<1>6. CASE p = Sector(v) * 256
  <2>1. ~NeverThere(p) /\ p \div 256 = Sector(v)
    BY <1>4, <1>6, DiskWord
  <2>2. N = map(B, v, f, 7)
    BY <2>1 DEF SwapIn, Fill
  <2>3. A \in MachineType
    BY <1>1 DEF MachineOK
  <2> HIDE DEF A, N
  <2>4. A.data.disk[Sector(v)] \in Content
    BY <2>3, MachineParts
  <2>5. /\ MachineOK(B, taken \cup {f}) /\ \A lw : DataOK(A, lw) => DataOK(B, lw)
        /\ FillView(B, A, f, A.data.disk[Sector(v)])
    BY <1>1, <2>1, <2>3, <2>4, FillParts, FillKeeps
  <2>6. /\ B.vm = A.vm /\ B.tlb = A.tlb
        /\ B.data.frame[f] = A.data.disk[Sector(v)]
    <3>1. A.data.frame \in [Frames -> Content]
      BY <2>3, MachineParts, Zenon
    <3>2. /\ B.vm = A.vm /\ B.tlb = A.tlb
          /\ B.data.frame = [A.data.frame EXCEPT ![f] = A.data.disk[Sector(v)]]
      BY <2>5, Zenon DEF FillView
    <3>. QED  BY <1>1, <3>1, <3>2
  <2> HIDE DEF B
  <2>7. \A lw : DataOK(A, lw) => (lw[v] # NoData => B.data.frame[f] = lw[v])
    BY <1>1, <2>6 DEF DataOK
  <2>8. ~Resident(B.vm.vm_fifo, v)
    BY <1>1, <2>6
  <2>9. MapKept(N, B, taken, v, f)
    BY <1>1, <1>2, <2>2, <2>5, <2>8, MapKeeps
  <2>. QED  BY <1>1, <2>5, <2>6, <2>7, <2>9 DEF N, MapKept, SwapKept
<1>. QED  BY <1>3, <1>5, <1>6

-----------------------------------------------------------------------------
(* The pte of a page says whether it is in the FIFO, and where. *)
LEMMA WalkFinds ==
  ASSUME NEW M, NEW taken, MachineOK(M, taken), NEW v \in Pages
  PROVE  /\ \A k \in 1..Len(M.vm.vm_fifo) :
              M.vm.vm_fifo[k].va = v =>
                /\ Present(M.vm.pte[v]) /\ PageAddr(M.vm.pte[v]) = M.vm.vm_fifo[k].frame
                /\ Walk(M, v) = M.vm.vm_fifo[k].frame /\ Walk(M, v) \in Frames
                /\ ~NeverThere(M.vm.pte[v])
         /\ ~Resident(M.vm.vm_fifo, v) => ~Present(M.vm.pte[v]) /\ Walk(M, v) = NoFrame
<1>0. M \in MachineType /\ PtesMatch(M)
  BY DEF MachineOK
<1>a. \A k \in 1..Len(M.vm.vm_fifo) :
        \E os \in 0..7, sign \in {5, 7} :
          M.vm.pte[M.vm.vm_fifo[k].va] = Word(M.vm.vm_fifo[k].frame, os, sign)
  BY <1>0 DEF PtesMatch, Matches
<1>b. \A k \in 1..Len(M.vm.vm_fifo) : M.vm.vm_fifo[k] \in Entry
  <2>1. M.vm.vm_fifo \in Seq(Entry)
    BY <1>0, MachineParts
  <2>. QED  BY <2>1
<1>1. ASSUME NEW k \in 1..Len(M.vm.vm_fifo), M.vm.vm_fifo[k].va = v
      PROVE  /\ Present(M.vm.pte[v]) /\ PageAddr(M.vm.pte[v]) = M.vm.vm_fifo[k].frame
             /\ Walk(M, v) = M.vm.vm_fifo[k].frame /\ Walk(M, v) \in Frames
             /\ ~NeverThere(M.vm.pte[v])
  <2>1. PICK os \in 0..7, sign \in {5, 7} :
          M.vm.pte[M.vm.vm_fifo[k].va] = Word(M.vm.vm_fifo[k].frame, os, sign)
    BY <1>a
  <2>2. M.vm.vm_fifo[k] \in Entry
    BY <1>b
  <2>3. M.vm.vm_fifo[k].frame \in Frames /\ M.vm.vm_fifo[k].frame \in Nat \ {0}
    <3>1. M.vm.vm_fifo[k].frame \in Frames
      BY <2>2 DEF Entry
    <3>. QED  BY <3>1, SwapAssumption, Zenon
  <2>4. Names(Word(M.vm.vm_fifo[k].frame, os, sign), M.vm.vm_fifo[k].frame)
    BY <2>3, FrameWord
  <2>5. M.vm.pte[v] = Word(M.vm.vm_fifo[k].frame, os, sign)
    BY <1>1, <2>1
  <2>. QED  BY <2>3, <2>4, <2>5 DEF Names, Walk
<1>2. ASSUME ~Resident(M.vm.vm_fifo, v)
      PROVE  ~Present(M.vm.pte[v]) /\ Walk(M, v) = NoFrame
  <2>1. M.vm.pte[v] \in {0, Sector(v) * 256}
    BY <1>0, <1>2 DEF PtesMatch, Matches
  <2>2. ~Present(M.vm.pte[v])
    BY <2>1, MapWord
  <2>. QED  BY <2>2 DEF Walk
<1>. QED  BY <1>1, <1>2

(* What an access reaches: a frame, and if it is the frame of the pte, then *)
(* the one v has in the FIFO.                                               *)
Found(R, v) ==
  \E k \in 1..Len(R.m.vm.vm_fifo) :
    R.m.vm.vm_fifo[k].va = v /\ R.m.vm.vm_fifo[k].frame = R.frame

(* A page that is in memory is reached where it is. *)
Hits(R, v) ==
  \A k \in 1..Len(R.m.vm.vm_fifo) : R.m.vm.vm_fifo[k].va = v => R.m.vm.vm_fifo[k].frame = R.frame

LEMMA WalkHits ==
  ASSUME NEW R, NEW taken, MachineOK(R.m, taken), NEW v \in Pages, R.frame \in Frames,
         R.frame = Walk(R.m, v)
  PROVE  Found(R, v) /\ Hits(R, v)
<1>1. Resident(R.m.vm.vm_fifo, v)
  BY SwapAssumption, WalkFinds
<1>2. PICK k \in 1..Len(R.m.vm.vm_fifo) : R.m.vm.vm_fifo[k].va = v
  BY <1>1 DEF Resident
<1>. QED  BY <1>2, WalkFinds DEF Found, Hits

LEMMA ReachedOK ==
  ASSUME SwapIInv, NEW v \in Pages, NEW is_write, NEW R \in Reached(v, is_write)
  PROVE  /\ MachineOK(R.m, kernel) /\ R.frame \in Frames
         /\ DataOK(Machine, last) => /\ DataOK(R.m, last)
                                     /\ last[v] # NoData => Hits(R, v)
<1>0. /\ MachineOK(Machine, kernel) /\ NoFrame \notin Frames
      /\ Machine.tlb = tlb /\ tlb \in [Pages -> Frames \cup {NoFrame}]
  <2>1. MachineOK(Machine, kernel) /\ Machine \in MachineType /\ Machine.tlb = tlb
    BY DEF SwapIInv, MachineOK, Machine
  <2>2. Machine.tlb \in [Pages -> Frames \cup {NoFrame}]
    BY <2>1, MachineParts
  <2>. QED  BY <2>1, <2>2, SwapAssumption
<1>1. ASSUME NEW f \in Lookups(v) \ {NoFrame}, R = [m |-> Machine, frame |-> f]
      PROVE  /\ MachineOK(R.m, kernel) /\ R.frame \in Frames
             /\ DataOK(Machine, last) => /\ DataOK(R.m, last)
                                         /\ last[v] # NoData => Hits(R, v)
  <2>0. R.m = Machine /\ R.frame = f
    BY <1>1
  <2>1. f = Walk(Machine, v) \/ f = tlb[v]
    BY <1>1 DEF Lookups
  <2>2. CASE f = Walk(Machine, v)
    <3>1. PICK k \in 1..Len(Machine.vm.vm_fifo) : Machine.vm.vm_fifo[k].va = v
      BY <1>0, <1>1, <2>2, WalkFinds DEF Resident
    <3>2. Machine.vm.vm_fifo[k].frame = f /\ f \in Frames
      BY <1>0, <2>2, <3>1, WalkFinds
    <3>3. Hits(R, v)
      BY <1>0, <2>0, <2>2, <3>2, WalkHits
    <3>. QED  BY <1>0, <2>0, <3>2, <3>3
  <2>3. CASE f = tlb[v]
    <3>1. f \in Frames
      BY <1>0, <1>1, <2>3
    <3>2. ASSUME DataOK(Machine, last), last[v] # NoData  PROVE Hits(R, v)
      <4>1. \A k \in 1..Len(Machine.vm.vm_fifo) :
              Machine.vm.vm_fifo[k].va = v => tlb[v] \in {NoFrame, Machine.vm.vm_fifo[k].frame}
        BY <1>0, <3>2 DEF DataOK, Holds
      <4>. QED  BY <1>1, <2>0, <2>3, <4>1 DEF Hits
    <3>. QED  BY <1>0, <2>0, <3>1, <3>2
  <2>. QED  BY <2>1, <2>2, <2>3
<1>2. ASSUME NoFrame \in Lookups(v), NEW N \in do_swap(v), R = [m |-> N, frame |-> Walk(N, v)]
      PROVE  /\ MachineOK(R.m, kernel) /\ R.frame \in Frames
             /\ DataOK(Machine, last) => /\ DataOK(R.m, last)
                                         /\ last[v] # NoData => Hits(R, v)
  <2>0. R.m = N /\ R.frame = Walk(N, v)
    BY <1>2
  <2>1. ~Resident(Machine.vm.vm_fifo, v)
    <3>1. Walk(Machine, v) = NoFrame
      BY <1>2 DEF Lookups
    <3>. QED  BY <1>0, <3>1, WalkFinds DEF Resident
  <2>2. PICK P \in get_pte(Machine, v) : N \in {SwapIn(P, v, f) : f \in P.vm.free}
    BY <1>2 DEF do_swap
  <2>3. PICK f \in P.vm.free : N = SwapIn(P, v, f)
    BY <2>2
  <2>4. /\ MachineOK(P, kernel) /\ ~Resident(P.vm.vm_fifo, v)
        /\ \A lw : DataOK(Machine, lw) => DataOK(P, lw)
    BY <1>0, <2>1, GetPteKeeps
  <2>5. /\ MachineOK(N, kernel) /\ Walk(N, v) = f /\ f \in Frames
        /\ \A lw : DataOK(P, lw) => DataOK(N, lw)
    <3>1. SwapKept(N, P, kernel, v, f)
      BY <2>3, <2>4, SwapInKeeps
    <3>. QED  BY <3>1 DEF SwapKept
  <2>6. Hits(R, v)
    BY <2>0, <2>5, WalkHits
  <2>. QED  BY <2>0, <2>4, <2>5, <2>6
<1>. QED  BY <1>1, <1>2 DEF Reached

(* The variables as a machine. *)
LEMMA Assembled ==
  ASSUME NEW M, NEW taken, MachineOK(M, taken), NEW D \in DataType,
         NEW T \in [Pages -> Frames \cup {NoFrame}]
  PROVE  MachineOK([vm |-> M.vm, data |-> D, tlb |-> T], taken)
<1> DEFINE N == [vm |-> M.vm, data |-> D, tlb |-> T]
<1>0. M \in MachineType /\ PtesMatch(M) /\ Owners(M, taken)
  BY DEF MachineOK
<1>1. M.vm \in VmType
  BY <1>0 DEF MachineType
<1>2. N \in MachineType
  BY <1>1 DEF MachineType
<1>3. N.vm = M.vm
  OBVIOUS
<1> HIDE DEF N
<1>4. PtesMatch(N)
  BY <1>0, <1>3 DEF PtesMatch
<1>5. Owners(N, taken)
  BY <1>0, <1>3 DEF Owners
<1>. QED  BY <1>2, <1>4, <1>5 DEF MachineOK, N

(* An access leaves the contents and the TLB in agreement. *)
LEMMA DataAssembled ==
  ASSUME NEW R, NEW taken, NEW lw, MachineOK(R.m, taken), DataOK(R.m, lw), NEW v \in Pages,
         lw[v] # NoData => Hits(R, v)
  PROVE  DataOK([vm |-> R.m.vm, data |-> R.m.data, tlb |-> Cached(R, v)], lw)
<1> DEFINE N == [vm |-> R.m.vm, data |-> R.m.data, tlb |-> Cached(R, v)]
           q == R.m.vm.vm_fifo
<1>1. R.m.tlb \in [Pages -> Frames \cup {NoFrame}]
  BY DEF MachineOK, MachineType
<1>2. /\ N.vm = R.m.vm /\ N.data = R.m.data
      /\ \A w \in Pages : N.tlb[w] = IF w = v THEN R.frame ELSE R.m.tlb[w]
  BY <1>1 DEF Cached
<1> HIDE DEF N
<1>3. ASSUME NEW w \in Pages, lw[w] # NoData
      PROVE  /\ \A k \in 1..Len(q) : q[k].va = w => Holds(N, w, q[k].frame, lw[w])
             /\ ~Resident(q, w) =>
                  R.m.vm.pte[w] = Sector(w) * 256 /\ R.m.data.disk[Sector(w)] = lw[w]
  <2>1. /\ \A k \in 1..Len(q) : q[k].va = w => Holds(R.m, w, q[k].frame, lw[w])
        /\ ~Resident(q, w) =>
             R.m.vm.pte[w] = Sector(w) * 256 /\ R.m.data.disk[Sector(w)] = lw[w]
    BY <1>3 DEF DataOK
  <2>2. ASSUME NEW k \in 1..Len(q), q[k].va = w  PROVE Holds(N, w, q[k].frame, lw[w])
    <3>1. Holds(R.m, w, q[k].frame, lw[w])
      BY <2>1, <2>2
    <3>2. w = v => q[k].frame = R.frame
      BY <1>3, <2>2 DEF Hits
    <3>. QED  BY <1>2, <3>1, <3>2 DEF Holds
  <2>. QED  BY <2>1, <2>2
<1>. QED  BY <1>2, <1>3 DEF DataOK, N

LEMMA KeptTypes ==
  ASSUME NEW M, NEW taken, MachineOK(M, taken)
  PROVE  /\ M.vm \in VmType /\ M.data \in DataType
         /\ M.tlb \in [Pages -> Frames \cup {NoFrame}]
  BY DEF MachineOK, MachineType

-----------------------------------------------------------------------------
(* The owners. *)
LEMMA SwapInit == Init => SwapIInv
<1> SUFFICES ASSUME Init  PROVE SwapIInv
  OBVIOUS
<1>1. /\ vm = [pte |-> [v \in Pages |-> 0], tables |-> {}, vm_fifo |-> <<>>, free |-> Frames]
      /\ data = [frame |-> [f \in Frames |-> NoData],
                 disk |-> [s \in {Sector(v) : v \in Pages} |-> NoData]]
      /\ tlb = [v \in Pages |-> NoFrame] /\ kernel = {}
      /\ last = [v \in Pages |-> NoData] /\ panicked = FALSE /\ strayed = FALSE
  BY DEF Init
<1>2. vm \in VmType
  BY <1>1 DEF VmType
<1>3. data \in DataType
  BY <1>1 DEF DataType, Content
<1>4. tlb \in [Pages -> Frames \cup {NoFrame}]
  BY <1>1
<1>5. Machine \in MachineType /\ Machine.vm = vm
  BY <1>2, <1>3, <1>4 DEF Machine, MachineType
<1>6. Machine.vm.vm_fifo = <<>> /\ Machine.vm.pte = [v \in Pages |-> 0]
  BY <1>1, <1>5
<1>7. PtesMatch(Machine) /\ Owners(Machine, kernel)
  BY <1>1, <1>6 DEF PtesMatch, Matches, Owners
<1>. QED  BY <1>1, <1>5, <1>7 DEF SwapIInv, MachineOK, Content

LEMMA CachedType ==
  ASSUME NEW R, NEW taken, MachineOK(R.m, taken), R.frame \in Frames, NEW v \in Pages
  PROVE  Cached(R, v) \in [Pages -> Frames \cup {NoFrame}]
<1>1. R.m.tlb \in [Pages -> Frames \cup {NoFrame}]
  BY KeptTypes
<1>. QED  BY <1>1 DEF Cached

LEMMA SwapStep == SwapIInv /\ [Next]_swapVars => SwapIInv'
<1> SUFFICES ASSUME SwapIInv, [Next]_swapVars  PROVE SwapIInv'
  OBVIOUS
<1>0. /\ MachineOK(Machine, kernel) /\ kernel \subseteq Frames
      /\ last \in [Pages -> Content] /\ panicked \in BOOLEAN /\ strayed \in BOOLEAN
      /\ Machine.vm = vm /\ Machine.data = data /\ Machine.tlb = tlb
  BY DEF SwapIInv, Machine
<1>1. ASSUME NEW v \in Pages, Read(v)  PROVE SwapIInv'
  <2>1. PICK R \in Reached(v, FALSE) : vm' = R.m.vm /\ data' = R.m.data /\ tlb' = Cached(R, v)
    BY <1>1 DEF Read
  <2>2. MachineOK(R.m, kernel) /\ R.frame \in Frames
    BY ReachedOK
  <2>3. tlb' \in [Pages -> Frames \cup {NoFrame}] /\ data' \in DataType
    BY <2>1, <2>2, CachedType, KeptTypes
  <2>4. MachineOK([vm |-> R.m.vm, data |-> data', tlb |-> tlb'], kernel)
    BY <2>2, <2>3, Assembled
  <2>5. /\ Machine' = [vm |-> R.m.vm, data |-> data', tlb |-> tlb']
        /\ UNCHANGED <<kernel, last, panicked, strayed>>
    BY <1>1, <2>1 DEF Machine, Read
  <2>. QED  BY <1>0, <2>4, <2>5 DEF SwapIInv
<1>2. ASSUME NEW v \in Pages, NEW d \in Values, Write(v, d)  PROVE SwapIInv'
  <2>1. PICK R \in Reached(v, TRUE) :
          /\ vm' = R.m.vm /\ data' = [R.m.data EXCEPT !.frame[R.frame] = d]
          /\ tlb' = Cached(R, v) /\ strayed' = (R.frame # Walk(R.m, v))
    BY <1>2 DEF Write
  <2>2. MachineOK(R.m, kernel) /\ R.frame \in Frames
    BY ReachedOK
  <2>3. R.m \in MachineType /\ d \in Content
    BY <2>2 DEF MachineOK, Content
  <2>4. FillView(Fill(R.m, R.frame, d), R.m, R.frame, d)
    BY <2>2, <2>3, FillParts
  <2>5. data' \in DataType
    BY <2>1, <2>4 DEF FillView, MachineType
  <2>6. tlb' \in [Pages -> Frames \cup {NoFrame}]
    BY <2>1, <2>2, CachedType
  <2>7. MachineOK([vm |-> R.m.vm, data |-> data', tlb |-> tlb'], kernel)
    BY <2>2, <2>5, <2>6, Assembled
  <2>8. /\ Machine' = [vm |-> R.m.vm, data |-> data', tlb |-> tlb']
        /\ UNCHANGED <<kernel, panicked>> /\ last' = [last EXCEPT ![v] = d]
        /\ strayed' \in BOOLEAN
    BY <1>2, <2>1 DEF Machine, Write
  <2>9. last' \in [Pages -> Content]
    BY <1>0, <2>3, <2>8
  <2>. QED  BY <1>0, <2>7, <2>8, <2>9 DEF SwapIInv
<1>3. ASSUME NEW v \in Pages, NEW is_write \in BOOLEAN, Fault(v, is_write)  PROVE SwapIInv'
  BY <1>0, <1>3 DEF Fault, SwapIInv, Machine
<1>4. CASE KernelAlloc
  <2>1. PICK f \in vm.free :
          /\ vm' = alloc_page(Machine, f).vm
          /\ data' = [alloc_page(Machine, f).data EXCEPT !.frame[f] = NoData]
          /\ kernel' = kernel \cup {f}
    BY <1>4 DEF KernelAlloc
  <2> DEFINE A == alloc_page(Machine, f)
             B == Fill(A, f, NoData)
  <2>2. MachineOK(A, kernel \cup {f}) /\ f \in Frames /\ A.tlb = tlb
    BY <1>0, AllocKeeps
  <2>3. A \in MachineType /\ NoData \in Content
    BY <2>2 DEF MachineOK, Content
  <2>4. FillView(B, A, f, NoData)
    BY <2>2, <2>3, FillParts
  <2>5. MachineOK(B, kernel \cup {f})
    BY <2>2, <2>3, FillKeeps
  <2>6. vm' = B.vm /\ data' = B.data
    BY <2>1, <2>4 DEF FillView
  <2>7. tlb' = tlb /\ UNCHANGED <<last, panicked, strayed>>
    BY <1>4 DEF KernelAlloc
  <2> HIDE DEF A, B
  <2>8. data' \in DataType /\ tlb' \in [Pages -> Frames \cup {NoFrame}]
    BY <2>2, <2>5, <2>6, <2>7, KeptTypes
  <2>9. MachineOK([vm |-> B.vm, data |-> data', tlb |-> tlb'], kernel \cup {f})
    BY <2>5, <2>8, Assembled
  <2>10. Machine' = [vm |-> B.vm, data |-> data', tlb |-> tlb']
    BY <2>6 DEF Machine
  <2>. QED  BY <1>0, <2>1, <2>2, <2>7, <2>9, <2>10 DEF SwapIInv
<1>5. CASE KernelFree
  <2>1. PICK f \in kernel : kernel' = kernel \ {f} /\ vm' = [vm EXCEPT !.free = @ \cup {f}]
    BY <1>5 DEF KernelFree
  <2>2. UNCHANGED <<data, tlb, last, panicked, strayed>>
    BY <1>5 DEF KernelFree
  <2>3. Machine' = [vm |-> vm', data |-> data, tlb |-> tlb]
    BY <2>2 DEF Machine
  <2>4. vm \in VmType /\ data \in DataType /\ tlb \in [Pages -> Frames \cup {NoFrame}]
    BY <1>0, KeptTypes
  <2>5. /\ vm'.pte = vm.pte /\ vm'.vm_fifo = vm.vm_fifo /\ vm'.free = vm.free \cup {f}
        /\ vm' \in VmType
    BY <1>0, <2>1, <2>4 DEF VmType
  <2>6. Machine' \in MachineType /\ Machine'.vm = vm'
    BY <2>3, <2>4, <2>5 DEF MachineType
  <2>7. PtesMatch(Machine) /\ Owners(Machine, kernel)
    BY <1>0 DEF MachineOK
  <2> DEFINE N == Machine'
  <2>8. /\ N.vm.pte = Machine.vm.pte /\ N.vm.vm_fifo = Machine.vm.vm_fifo
        /\ N.vm.free = Machine.vm.free \cup {f}
    BY <1>0, <2>5, <2>6
  <2>9. N \in MachineType
    BY <2>6
  <2> HIDE DEF N
  <2>10. PtesMatch(N)
    BY <2>7, <2>8 DEF PtesMatch
  <2>11. Owners(N, kernel')
    BY <2>1, <2>7, <2>8 DEF Owners
  <2>12. MachineOK(N, kernel')
    BY <2>9, <2>10, <2>11 DEF MachineOK
  <2>. QED  BY <1>0, <2>1, <2>2, <2>12 DEF SwapIInv, N
<1>6. CASE UNCHANGED swapVars
  BY <1>0, <1>6 DEF swapVars, SwapIInv, Machine
<1>. QED  BY <1>1, <1>2, <1>3, <1>4, <1>5, <1>6 DEF Next

(* In every reachable state a page in the FIFO has one entry, its pte names *)
(* the entry's frame, every other pte names the sectors of its page or      *)
(* nothing, and free frames, mapped frames and the kernel's are disjoint.   *)
THEOREM SwapInvariant == Spec => []SwapIInv
  BY SwapInit, SwapStep, PTL DEF Spec

LEMMA SwapTypeFacts == SwapIInv => SwapTypeOK
<1> SUFFICES ASSUME SwapIInv  PROVE SwapTypeOK
  OBVIOUS
<1>0. /\ MachineOK(Machine, kernel) /\ kernel \subseteq Frames
      /\ last \in [Pages -> Content] /\ panicked \in BOOLEAN /\ strayed \in BOOLEAN
      /\ Machine.vm = vm /\ Machine.data = data /\ Machine.tlb = tlb
  BY DEF SwapIInv, Machine
<1>1. Machine \in MachineType /\ PtesMatch(Machine)
  BY <1>0 DEF MachineOK
<1>2. /\ vm.vm_fifo \in Seq(Entry) /\ vm.free \in SUBSET Frames
      /\ tlb \in [Pages -> Frames \cup {NoFrame}]
  BY <1>0, <1>1, MachineParts
<1>3. \A k \in 1..Len(vm.vm_fifo) : vm.vm_fifo[k].frame \in Frames
  <2>1. \A k \in 1..Len(vm.vm_fifo) : vm.vm_fifo[k] \in Entry
    BY <1>2
  <2>. QED  BY <2>1 DEF Entry
<1>4. ASSUME NEW v \in Pages  PROVE vm.pte[v] \in PteValues(v)
  <2>1. CASE Resident(vm.vm_fifo, v)
    <3>1. PICK k \in 1..Len(vm.vm_fifo) : vm.vm_fifo[k].va = v
      BY <2>1 DEF Resident
    <3>2. \A j \in 1..Len(vm.vm_fifo) :
            \E os \in 0..7, sign \in {5, 7} :
              vm.pte[vm.vm_fifo[j].va] = Word(vm.vm_fifo[j].frame, os, sign)
      BY <1>0, <1>1 DEF PtesMatch, Matches
    <3>3. PICK os \in 0..7, sign \in {5, 7} : vm.pte[v] = Word(vm.vm_fifo[k].frame, os, sign)
      BY <3>1, <3>2
    <3>4. vm.vm_fifo[k].frame \in Frames
      BY <1>3
    <3>5. {Word(f, o, s) : f \in Frames, o \in 0..7, s \in {5, 7}} \subseteq PteValues(v)
      BY DEF PteValues, Word
    <3>. QED  BY <3>3, <3>4, <3>5
  <2>2. CASE ~Resident(vm.vm_fifo, v)
    BY <1>0, <1>1, <2>2 DEF PtesMatch, Matches, PteValues
  <2>. QED  BY <2>1, <2>2
<1>. QED  BY <1>0, <1>2, <1>4 DEF SwapTypeOK, Content

LEMMA SwapOwnerFacts == SwapIInv => FramesExclusive
<1> SUFFICES ASSUME SwapIInv  PROVE FramesExclusive
  OBVIOUS
<1>0. MachineOK(Machine, kernel) /\ Machine.vm = vm
  BY DEF SwapIInv, Machine
<1>1. Machine \in MachineType /\ Owners(Machine, kernel)
  BY <1>0 DEF MachineOK
<1>2. vm.vm_fifo \in Seq(Entry)
  BY <1>0, <1>1, MachineParts
<1> DEFINE q == vm.vm_fifo
<1>3. \A k \in 1..Len(q) : q[k] \in Entry
  BY <1>2
<1>4. \A k \in 1..Len(q) : q[k] = [va |-> q[k].va, frame |-> q[k].frame] /\ q[k].va \in Pages
  BY <1>3 DEF Entry
<1>5. \A v \in Pages, k \in 1..Len(q) :
        q[k].va = v => Present(vm.pte[v]) /\ PageAddr(vm.pte[v]) = q[k].frame
  BY <1>0, WalkFinds
<1>6. \A v \in Pages : Present(vm.pte[v]) => \E k \in 1..Len(q) : q[k].va = v
  BY <1>0, WalkFinds DEF Resident
<1>7. /\ \A j, k \in 1..Len(q) : q[j].va = q[k].va \/ q[j].frame = q[k].frame => j = k
      /\ \A k \in 1..Len(q) : q[k].frame \notin vm.free \cup kernel
      /\ vm.free \cap kernel = {}
  BY <1>0, <1>1 DEF Owners
<1> HIDE DEF q
<1>8. \A v \in Mapped : v \in Pages /\ \E k \in 1..Len(q) :
        q[k].va = v /\ PageAddr(vm.pte[v]) = q[k].frame
  BY <1>5, <1>6 DEF Mapped
<1>9. ASSUME NEW v \in Mapped, NEW w \in Mapped, PageAddr(vm.pte[v]) = PageAddr(vm.pte[w])
      PROVE  v = w
  <2>1. PICK j \in 1..Len(q) : q[j].va = v /\ PageAddr(vm.pte[v]) = q[j].frame
    BY <1>8
  <2>2. PICK k \in 1..Len(q) : q[k].va = w /\ PageAddr(vm.pte[w]) = q[k].frame
    BY <1>8
  <2>. QED  BY <1>7, <1>9, <2>1, <2>2
<1>10. \A v \in Mapped : PageAddr(vm.pte[v]) \notin vm.free \cup kernel
  BY <1>7, <1>8
<1>11. ASSUME NEW v \in Mapped
       PROVE  \E k \in 1..Len(q) : q[k] = [va |-> v, frame |-> PageAddr(vm.pte[v])]
  BY <1>4, <1>8
<1>12. ASSUME NEW k \in 1..Len(q)
       PROVE  \E v \in Mapped : q[k] = [va |-> v, frame |-> PageAddr(vm.pte[v])]
  <2>1. q[k].va \in Pages /\ q[k] = [va |-> q[k].va, frame |-> q[k].frame]
    BY <1>4
  <2>2. q[k].va \in Mapped /\ PageAddr(vm.pte[q[k].va]) = q[k].frame
    BY <1>5, <2>1 DEF Mapped
  <2>. QED  BY <2>1, <2>2
<1>13. {[va |-> v, frame |-> PageAddr(vm.pte[v])] : v \in Mapped} = {q[k] : k \in 1..Len(q)}
  <2> DEFINE e(v) == [va |-> v, frame |-> PageAddr(vm.pte[v])]
  <2>1. \A v \in Mapped : \E k \in 1..Len(q) : q[k] = e(v)
    BY <1>11
  <2>2. \A k \in 1..Len(q) : \E v \in Mapped : q[k] = e(v)
    BY <1>12
  <2> HIDE DEF e
  <2>3. {e(v) : v \in Mapped} = {q[k] : k \in 1..Len(q)}
    BY <2>1, <2>2
  <2>. QED  BY <2>3 DEF e
<1>. QED  BY <1>7, <1>9, <1>10, <1>13 DEF FramesExclusive, q

(* The words in the ptes: nothing, the sectors that swap_out() wrote for    *)
(* this page, or a frame with the sign of do_swap() or swap_in(); whatever  *)
(* the TLB still has.                                                       *)
THEOREM SwapTypes == Spec => []SwapTypeOK
  BY SwapInvariant, SwapTypeFacts, PTL

(* A frame has one owner: two pages never share one, a mapped frame is      *)
(* neither free nor the kernel's, and the FIFO has exactly the mapped       *)
(* pages, through every order of faults, swaps and allocations; whatever    *)
(* the TLB still has.                                                       *)
THEOREM SwapOwners == Spec => []FramesExclusive
  BY SwapInvariant, SwapOwnerFacts, PTL

-----------------------------------------------------------------------------
(* The contents, until a write goes through an outdated translation. *)
LEMMA DataInit == Init => DataIInv
  BY DEF Init, DataIInv, DataOK, Machine

LEMMA DataStep == SwapIInv /\ DataIInv /\ [Next]_swapVars => DataIInv'
<1> SUFFICES ASSUME SwapIInv, DataIInv, [Next]_swapVars, ~strayed'  PROVE DataOK(Machine, last)'
  BY DEF DataIInv
<1>0. /\ MachineOK(Machine, kernel)
      /\ Machine.vm = vm /\ Machine.data = data /\ Machine.tlb = tlb
      /\ last \in [Pages -> Content]
  BY DEF SwapIInv, Machine
<1>a. DataOK(Machine, last)
  BY DEF DataIInv, Next, Read, Write, Fault, KernelAlloc, KernelFree, Running, swapVars
<1>1. ASSUME NEW v \in Pages, Read(v)  PROVE DataOK(Machine, last)'
  <2>1. PICK R \in Reached(v, FALSE) : vm' = R.m.vm /\ data' = R.m.data /\ tlb' = Cached(R, v)
    BY <1>1 DEF Read
  <2>2. MachineOK(R.m, kernel) /\ DataOK(R.m, last) /\ (last[v] # NoData => Hits(R, v))
    BY <1>a, ReachedOK
  <2>3. Machine' = [vm |-> R.m.vm, data |-> R.m.data, tlb |-> Cached(R, v)] /\ last' = last
    BY <1>1, <2>1 DEF Machine, Read
  <2>4. DataOK([vm |-> R.m.vm, data |-> R.m.data, tlb |-> Cached(R, v)], last)
    BY <2>2, DataAssembled
  <2>. QED  BY <2>3, <2>4
<1>2. ASSUME NEW v \in Pages, NEW d \in Values, Write(v, d)  PROVE DataOK(Machine, last)'
  <2>1. PICK R \in Reached(v, TRUE) :
          /\ vm' = R.m.vm /\ data' = [R.m.data EXCEPT !.frame[R.frame] = d]
          /\ tlb' = Cached(R, v) /\ strayed' = (R.frame # Walk(R.m, v))
    BY <1>2 DEF Write
  <2>2. /\ MachineOK(R.m, kernel) /\ R.frame \in Frames /\ DataOK(R.m, last) /\ Found(R, v)
    <3>1. MachineOK(R.m, kernel) /\ R.frame \in Frames /\ DataOK(R.m, last)
      BY <1>a, ReachedOK
    <3>2. R.frame = Walk(R.m, v)
      BY <2>1
    <3>. QED  BY <3>1, <3>2, WalkHits
  <2>3. R.m \in MachineType /\ Owners(R.m, kernel) /\ d \in Content
    BY <2>2 DEF MachineOK, Content
  <2>4. FillView(Fill(R.m, R.frame, d), R.m, R.frame, d)
    BY <2>2, <2>3, FillParts
  <2>5. data'.frame = [R.m.data.frame EXCEPT ![R.frame] = d] /\ data'.disk = R.m.data.disk
    BY <2>1, <2>4 DEF FillView
  <2>6. Machine'.vm = R.m.vm /\ Machine'.data = data' /\ last' = [last EXCEPT ![v] = d]
    BY <1>2, <2>1 DEF Machine, Write
  <2>7. \A w \in Pages : Machine'.tlb[w] = IF w = v THEN R.frame ELSE R.m.tlb[w]
    <3>1. R.m.tlb \in [Pages -> Frames \cup {NoFrame}]
      BY <2>3, MachineParts
    <3>. QED  BY <2>1, <3>1 DEF Cached, Machine
  <2> DEFINE q == R.m.vm.vm_fifo
             N == Machine'
             F == R.m.data.frame
             x == R.frame
  <2>8. F \in [Frames -> Content] /\ q \in Seq(Entry)
    BY <2>3, MachineParts
  <2>9. \A k \in 1..Len(q) : q[k].frame \in Frames
    <3>1. \A k \in 1..Len(q) : q[k] \in Entry
      BY <2>8
    <3>. QED  BY <3>1 DEF Entry
  <2>10. \A j, k \in 1..Len(q) : q[j].va = q[k].va \/ q[j].frame = q[k].frame => j = k
    BY <2>3 DEF Owners
  <2>11. PICK i \in 1..Len(q) : q[i].va = v /\ q[i].frame = x
    BY <2>2 DEF Found
  <2>12. /\ N.vm.vm_fifo = q /\ N.vm.pte = R.m.vm.pte
         /\ N.data.frame = [F EXCEPT ![x] = d] /\ N.data.disk = R.m.data.disk
         /\ \A w \in Pages : N.tlb[w] = IF w = v THEN x ELSE R.m.tlb[w]
    BY <2>5, <2>6, <2>7
  <2>13. x \in Frames /\ \A w \in Pages : last[w] # NoData =>
           /\ \A k \in 1..Len(q) : q[k].va = w => Holds(R.m, w, q[k].frame, last[w])
           /\ ~Resident(q, w) => /\ R.m.vm.pte[w] = Sector(w) * 256
                                 /\ R.m.data.disk[Sector(w)] = last[w]
    BY <2>2 DEF DataOK
  <2> HIDE DEF q, N, F, x
  <2>14. DataOK(N, last')
    <3>. SUFFICES ASSUME NEW w \in Pages, last'[w] # NoData
                  PROVE  /\ \A k \in 1..Len(q) : q[k].va = w => Holds(N, w, q[k].frame, last'[w])
                         /\ ~Resident(q, w) =>
                              N.vm.pte[w] = Sector(w) * 256 /\ N.data.disk[Sector(w)] = last'[w]
      BY <2>12 DEF DataOK
    <3>1. CASE w = v
      <4>1. last'[w] = d
        BY <1>0, <2>6, <3>1
      <4>2. Resident(q, w)
        BY <2>11, <3>1 DEF Resident
      <4>3. \A k \in 1..Len(q) : q[k].va = w => q[k].frame = x
        BY <2>10, <2>11, <3>1
      <4>4. N.data.frame[x] = d
        BY <2>8, <2>12, <2>13
      <4>5. N.tlb[w] = x
        BY <2>12, <3>1
      <4>. QED  BY <4>1, <4>2, <4>3, <4>4, <4>5 DEF Holds
    <3>2. CASE w # v
      <4>1. last'[w] = last[w]
        BY <1>0, <2>6, <3>2
      <4>2. ASSUME NEW k \in 1..Len(q), q[k].va = w  PROVE Holds(N, w, q[k].frame, last[w])
        <5>1. q[k].frame # x
          BY <2>10, <2>11, <3>2, <4>2
        <5>2. N.data.frame[q[k].frame] = F[q[k].frame]
          BY <2>8, <2>9, <2>12, <5>1
        <5>3. N.tlb[w] = R.m.tlb[w]
          BY <2>12, <3>2
        <5>4. Holds(R.m, w, q[k].frame, last[w])
          BY <2>13, <4>1, <4>2
        <5>. QED  BY <5>2, <5>3, <5>4 DEF Holds, F
      <4>. QED  BY <2>12, <2>13, <4>1, <4>2
    <3>. QED  BY <3>1, <3>2
  <2>. QED  BY <2>14 DEF N
<1>3. ASSUME NEW v \in Pages, NEW is_write \in BOOLEAN, Fault(v, is_write)
      PROVE  DataOK(Machine, last)'
  BY <1>a, <1>3 DEF Fault, Machine
<1>4. CASE KernelAlloc
  <2>1. PICK f \in vm.free :
          /\ vm' = alloc_page(Machine, f).vm
          /\ data' = [alloc_page(Machine, f).data EXCEPT !.frame[f] = NoData]
    BY <1>4 DEF KernelAlloc
  <2> DEFINE A == alloc_page(Machine, f)
             B == Fill(A, f, NoData)
  <2>2. MachineOK(A, kernel \cup {f}) /\ f \in Frames /\ DataOK(A, last) /\ A.tlb = tlb
    BY <1>0, <1>a, AllocKeeps
  <2>3. A \in MachineType /\ NoData \in Content
    BY <2>2 DEF MachineOK, Content
  <2>4. FillView(B, A, f, NoData)
    BY <2>2, <2>3, FillParts
  <2>5. DataOK(B, last)
    BY <2>2, <2>3, FillKeeps
  <2>6. vm' = B.vm /\ data' = B.data /\ B.tlb = A.tlb
    BY <2>1, <2>4 DEF FillView
  <2>7. tlb' = tlb /\ last' = last
    BY <1>4 DEF KernelAlloc
  <2> HIDE DEF A, B
  <2>8. Machine'.vm = B.vm /\ Machine'.data = B.data /\ Machine'.tlb = B.tlb
    BY <2>2, <2>6, <2>7 DEF Machine
  <2> DEFINE N == Machine'
  <2>9. N.vm = B.vm /\ N.data = B.data /\ N.tlb = B.tlb
    BY <2>8
  <2> HIDE DEF N
  <2>10. DataOK(N, last)
    BY <2>5, <2>9 DEF DataOK, Holds
  <2>. QED  BY <2>7, <2>10 DEF N
<1>5. CASE KernelFree
  <2>1. PICK f \in kernel : vm' = [vm EXCEPT !.free = @ \cup {f}]
    BY <1>5 DEF KernelFree
  <2>2. UNCHANGED <<data, tlb, last>>
    BY <1>5 DEF KernelFree
  <2>3. vm \in VmType
    BY <1>0, KeptTypes
  <2>4. vm'.pte = vm.pte /\ vm'.vm_fifo = vm.vm_fifo
    BY <2>1, <2>3 DEF VmType
  <2> DEFINE N == Machine'
  <2>5. /\ N.vm.pte = Machine.vm.pte /\ N.vm.vm_fifo = Machine.vm.vm_fifo
        /\ N.data = Machine.data /\ N.tlb = Machine.tlb
    BY <2>2, <2>4 DEF Machine
  <2> HIDE DEF N
  <2>6. DataOK(N, last)
    BY <1>a, <2>5 DEF DataOK, Holds
  <2>. QED  BY <2>2, <2>6 DEF N
<1>6. CASE UNCHANGED swapVars
  BY <1>a, <1>6 DEF swapVars, Machine
<1>. QED  BY <1>1, <1>2, <1>3, <1>4, <1>5, <1>6 DEF Next

LEMMA DataFacts == SwapIInv /\ DataIInv => DataKept
<1> SUFFICES ASSUME SwapIInv, DataIInv, ~strayed, NEW v \in Pages, last[v] # NoData
             PROVE  /\ ContentAt(v, Walk(Machine, v)) = last[v]
                    /\ v \in Mapped => Contents(v) = {last[v]}
  BY DEF DataKept
<1>0. /\ MachineOK(Machine, kernel) /\ DataOK(Machine, last)
      /\ Machine.vm = vm /\ Machine.data = data /\ Machine.tlb = tlb
  BY DEF SwapIInv, DataIInv, Machine
<1>1. NoFrame \notin Frames
  BY SwapAssumption
<1>3. CASE Resident(vm.vm_fifo, v)
  <2>1. PICK k \in 1..Len(vm.vm_fifo) : vm.vm_fifo[k].va = v
    BY <1>3 DEF Resident
  <2>2. /\ Walk(Machine, v) = vm.vm_fifo[k].frame /\ Walk(Machine, v) \in Frames
        /\ ~NeverThere(vm.pte[v])
    BY <1>0, <2>1, WalkFinds
  <2>3. data.frame[vm.vm_fifo[k].frame] = last[v] /\ tlb[v] \in {NoFrame, vm.vm_fifo[k].frame}
    BY <1>0, <2>1 DEF DataOK, Holds
  <2>4. Lookups(v) = {Walk(Machine, v)}
    BY <2>2, <2>3 DEF Lookups
  <2>5. ContentAt(v, Walk(Machine, v)) = last[v]
    BY <1>1, <2>2, <2>3 DEF ContentAt
  <2>6. Contents(v) = {ContentAt(v, Walk(Machine, v))}
    BY <2>4, Zenon DEF Contents
  <2>. QED  BY <2>5, <2>6
<1>4. CASE ~Resident(vm.vm_fifo, v)
  <2>1. Walk(Machine, v) = NoFrame /\ ~Present(vm.pte[v])
    BY <1>0, <1>4, WalkFinds
  <2>2. vm.pte[v] = Sector(v) * 256 /\ data.disk[Sector(v)] = last[v]
    BY <1>0, <1>4 DEF DataOK
  <2>3. ~NeverThere(vm.pte[v]) /\ vm.pte[v] \div 256 = Sector(v)
    BY <2>2, SwapAssumption, DiskWord
  <2>4. ContentAt(v, Walk(Machine, v)) = last[v]
    BY <2>1, <2>2, <2>3 DEF ContentAt
  <2>. QED  BY <2>1, <2>4 DEF Mapped
<1>. QED  BY <1>3, <1>4

(* Until a write goes through an outdated translation, what was last        *)
(* written to a page is where its pte says, in memory or on the disk,       *)
(* however often it was swapped out and in, and a page in memory reads back *)
(* so, by its pte and by the TLB: the invlpg that swap_out() lacks is the   *)
(* only way to lose a write.                                                *)
THEOREM SwapKeepsData == Spec => []DataKept
<1>1. Init => SwapIInv /\ DataIInv
  BY SwapInit, DataInit
<1>2. SwapIInv /\ DataIInv /\ [Next]_swapVars => (SwapIInv /\ DataIInv)'
  BY SwapStep, DataStep
<1>. QED  BY <1>1, <1>2, DataFacts, PTL DEF Spec
=============================================================================
