-------------------------- MODULE PageAllocProofs --------------------------
(***************************************************************************)
(* Proofs about module PageAlloc, for any number of pages and any largest  *)
(* block: the last page of memory aside no page is handed out twice or is  *)
(* free and in use; free_page_num is exact; one page at most is resident.  *)
(*                                                                         *)
(* alloc_page(n) hands out the first n elements of the list as if they     *)
(* were neighbours in memory.  How far they are rests on three facts.  But *)
(* for its last element, the last page of memory, the list is in the order *)
(* of the pointers the code compares, physical ones before linear ones.    *)
(* The pages a block count promises, below the last page, are in the list  *)
(* with counts of 0.  And no count reaches beyond the end of memory; once  *)
(* the last page is in use, none reaches that page either.                 *)
(***************************************************************************)
EXTENDS PageAlloc, FiniteSetTheorems, SequenceTheorems, WellFoundedInduction, NaturalsInduction, TLAPS

LASTPAGE == NPages - 1

PtrType == [i : 0..LASTPAGE, a : {PHYSICAL, LINEAR}]

(* The page numbers of a list, and its pointers but the last one. *)
In(s, x) == \E k \in 1..Len(s) : s[k].i = x
At(s, x, a) == \E k \in 1..(Len(s) - 1) : s[k] = Ptr(x, a)

(* The list without its last element is in order; no page is in it twice.   *)
ListOK(s) ==
  /\ s \in Seq(PtrType)
  /\ Len(s) > 0 /\ s[Len(s)] = Ptr(LASTPAGE, PHYSICAL)
  /\ \A j, k \in 1..(Len(s) - 1) : j < k => Above(s[k], s[j])
  /\ \A j, k \in 1..Len(s) : j # k => s[j].i # s[k].i

(* The pages below the last one that a count promises are there, by the     *)
(* same kind of pointer, and are not the head of a block themselves.        *)
RunsOK(s, count) ==
  \A a \in {PHYSICAL, LINEAR} : \A x, y \in 0..(LASTPAGE - 1) :
    At(s, x, a) /\ x < y /\ y < x + count[x] => At(s, y, a) /\ count[y] = 0

(* How far a count can reach: top is the first page that is out of bounds   *)
(* for physical pointers.                                                   *)
EndsOK(s, count, top) ==
  /\ \A x : At(s, x, PHYSICAL) => /\ x + count[x] <= top
                                  /\ LASTPAGE < x + count[x] => count[LASTPAGE] = 0
  /\ \A x : At(s, x, LINEAR) => x + count[x] <= LASTPAGE
  /\ LASTPAGE + count[LASTPAGE] <= top

FreeOK(A, top) ==
  /\ A.head \in Seq(PtrType) /\ A.num = Len(A.head) /\ A.count \in [0..LASTPAGE -> Nat]
  /\ A.head # <<>> => /\ ListOK(A.head) /\ RunsOK(A.head, A.count)
                      /\ EndsOK(A.head, A.count, top)

(* A block in use: only its first page can have a count, or the last page   *)
(* of memory.                                                               *)
BlockOK(b, count) ==
  /\ b.p.i \in Nat /\ b.n \in Nat \ {0} /\ b.p.i + b.n <= NPages
  /\ \A y \in (b.p.i + 1)..(b.p.i + b.n - 1) : y < LASTPAGE => count[y] = 0

HeldBy(u, x) == \E b \in u : x \in b.p.i..(b.p.i + b.n - 1)

(* The last page of memory is the caller's that has it. *)
Top(u) == IF HeldBy(u, LASTPAGE) THEN LASTPAGE ELSE NPages

(* The inductive invariant. *)
PageIInv ==
  /\ FreeOK(free_pages, Top(used))
  /\ \A b \in used : BlockOK(b, free_pages.count)
  /\ vm_fifo = <<>> \/ \E x \in 0..LASTPAGE : vm_fifo = <<Ptr(x, LINEAR)>>
  /\ is_vmm_inited \in BOOLEAN /\ panicked \in BOOLEAN
  /\ PagesOnce

-----------------------------------------------------------------------------
LEMMA LastNat == LASTPAGE \in Nat /\ LASTPAGE + 1 = NPages
  BY PageAllocAssumption DEF LASTPAGE

LEMMA PtrFacts ==
  ASSUME NEW p \in PtrType
  PROVE  p.i \in 0..LASTPAGE /\ p.i \in Nat /\ p.i <= LASTPAGE /\ p.a \in {0, 1} /\ p.a \in Nat
<1>1. p.i \in 0..LASTPAGE /\ p.a \in {0, 1}
  BY DEF PtrType, PHYSICAL, LINEAR
<1>. QED  BY <1>1, LastNat

LEMMA PtrIs ==
  ASSUME NEW p \in PtrType
  PROVE  p = Ptr(p.i, p.a)
  BY DEF PtrType, Ptr

LEMMA PtrEq ==
  ASSUME NEW i, NEW a
  PROVE  Ptr(i, a).i = i /\ Ptr(i, a).a = a
  BY DEF Ptr

LEMMA PtrIn ==
  ASSUME NEW i \in 0..LASTPAGE, NEW a \in {PHYSICAL, LINEAR}
  PROVE  Ptr(i, a) \in PtrType
  BY DEF PtrType, Ptr

(* Above is the order of the pairs of a and i. *)
LEMMA AboveOrder ==
  /\ \A p, q, r \in PtrType : Above(p, q) /\ Above(q, r) => Above(p, r)
  /\ \A p, q \in PtrType : ~(Above(p, q) /\ Above(q, p))
  /\ \A p, q \in PtrType : p.i # q.i => Above(p, q) \/ Above(q, p)
<1>1. \A p \in PtrType : p.i \in Nat /\ p.a \in Nat
  BY PtrFacts
<1>. QED  BY <1>1 DEF Above

(* The least element of a set of numbers. *)
LEMMA Least ==
  ASSUME NEW T, T \subseteq Nat, T # {}
  PROVE  \E x \in T : \A y \in T : x <= y
<1> DEFINE R == OpToRel(<, Nat)
<1>1. IsWellFoundedOn(R, Nat)
  BY NatLessThanWellFounded, Zenon
<1>2. \A x, y \in Nat : <<y, x>> \in R <=> y < x
  BY DEF OpToRel
<1> HIDE DEF R
<1>3. PICK x \in T : \A y \in T : ~(<<y, x>> \in R)
  BY <1>1, WFMin
<1>4. ASSUME NEW y \in T  PROVE x <= y
  <2>1. x \in Nat /\ y \in Nat /\ ~(y < x)
    BY <1>2, <1>3
  <2>. QED  BY <2>1
<1>. QED  BY <1>4

(* Where free_page() inserts: behind everything that is not above p, in     *)
(* front of everything that is, the last element aside.                     *)
PositionView(k, s, p) ==
  /\ k \in 1..Len(s)
  /\ \A j \in 1..(k - 1) : ~Above(s[j], p)
  /\ \A j \in k..(Len(s) - 1) : Above(s[j], p)

LEMMA PositionIs ==
  ASSUME NEW A, ListOK(A.head), NEW p \in PtrType
  PROVE  PositionView(Position(A, p), A.head, p)
<1> DEFINE s == A.head
           greater == {k \in 1..Len(s) : Above(s[k], p)}
           k == Position(A, p)
<1>0. /\ s \in Seq(PtrType) /\ Len(s) \in Nat /\ Len(s) > 0
      /\ \A j, m \in 1..(Len(s) - 1) : j < m => Above(s[m], s[j])
  BY DEF ListOK
<1>1. k = IF greater = {} THEN Len(s) ELSE CHOOSE m \in greater : \A j \in greater : m <= j
  BY DEF Position
<1> HIDE DEF k
<1>2. CASE greater = {}
  <2>1. k = Len(s)
    BY <1>1, <1>2
  <2>2. \A j \in 1..(k - 1) : j \in 1..Len(s)
    BY <1>0, <2>1
  <2>3. \A j \in k..(Len(s) - 1) : FALSE
    BY <1>0, <2>1
  <2>4. k \in 1..Len(s)
    BY <1>0, <2>1
  <2>. QED  BY <1>2, <2>2, <2>3, <2>4 DEF PositionView, k
<1>3. CASE greater # {}
  <2>1. \E m \in greater : \A j \in greater : m <= j
    <3>1. greater \subseteq Nat
      BY <1>0
    <3> HIDE DEF greater
    <3>. QED  BY <1>3, <3>1, Least
  <2>2. k \in greater /\ \A j \in greater : k <= j
    <3> HIDE DEF greater
    <3>. QED  BY <1>1, <1>3, <2>1
  <2>3. k \in 1..Len(s) /\ Above(s[k], p)
    BY <2>2
  <2>4. ASSUME NEW j \in 1..(k - 1)  PROVE ~Above(s[j], p)
    <3>1. j \in 1..Len(s) /\ ~(k <= j)
      BY <1>0, <2>3
    <3>. QED  BY <2>2, <3>1
  <2>5. ASSUME NEW j \in k..(Len(s) - 1)  PROVE Above(s[j], p)
    <3>1. CASE j = k
      BY <2>3, <3>1
    <3>2. CASE j # k
      <4>1. j \in 1..(Len(s) - 1) /\ k \in 1..(Len(s) - 1) /\ k < j /\ j \in 1..Len(s)
        BY <1>0, <2>3, <3>2
      <4>2. Above(s[j], s[k]) /\ s[j] \in PtrType /\ s[k] \in PtrType
        <5> HIDE DEF s
        <5>. QED  BY <1>0, <2>3, <4>1
      <4>. QED  BY <2>3, <4>2, AboveOrder
    <3>. QED  BY <3>1, <3>2
  <2>. QED  BY <2>3, <2>4, <2>5 DEF PositionView, k
<1>. QED  BY <1>2, <1>3

-----------------------------------------------------------------------------
(* Lists put together. *)
ConcatView(N, L, T) ==
  /\ N \in Seq(PtrType) /\ Len(N) = Len(L) + Len(T)
  /\ \A j \in 1..Len(L) : N[j] = L[j]
  /\ \A j \in 1..Len(T) : N[Len(L) + j] = T[j]

LEMMA ConcatAt ==
  ASSUME NEW L \in Seq(PtrType), NEW T \in Seq(PtrType)
  PROVE  ConcatView(L \o T, L, T)
<1> DEFINE m == Len(L)
           n == Len(T)
<1>0. m \in Nat /\ n \in Nat
  OBVIOUS
<1> HIDE DEF m, n
<1>1. /\ L \o T \in Seq(PtrType) /\ Len(L \o T) = m + n
      /\ \A j \in 1..(m + n) : (L \o T)[j] = IF j <= m THEN L[j] ELSE T[j - m]
  BY ConcatProperties DEF m, n
<1> DEFINE N == L \o T
<1> HIDE DEF N
<1>2. \A j \in 1..(m + n) : N[j] = IF j <= m THEN L[j] ELSE T[j - m]
  BY <1>1 DEF N
<1>3. \A j \in 1..m : N[j] = L[j]
  BY <1>0, <1>2
<1>4. ASSUME NEW j \in 1..n  PROVE N[m + j] = T[j]
  <2>1. m + j \in 1..(m + n) /\ ~(m + j <= m) /\ (m + j) - m = j
    BY <1>0
  <2>. QED  BY <1>2, <2>1
<1>. QED  BY <1>1, <1>3, <1>4 DEF N, m, n, ConcatView

(* N is s with T in front of element k. *)
InsertView(N, s, k, T) ==
  /\ N \in Seq(PtrType) /\ Len(N) = Len(s) + Len(T)
  /\ \A j \in 1..(k - 1) : N[j] = s[j]
  /\ \A j \in 1..Len(T) : N[k - 1 + j] = T[j]
  /\ \A j \in k..Len(s) : N[Len(T) + j] = s[j]

LEMMA InsertParts ==
  ASSUME NEW s \in Seq(PtrType), NEW k \in 1..Len(s), NEW T \in Seq(PtrType)
  PROVE  InsertView(SubSeq(s, 1, k - 1) \o T \o SubSeq(s, k, Len(s)), s, k, T)
<1> DEFINE L == SubSeq(s, 1, k - 1)
           R == SubSeq(s, k, Len(s))
           M == L \o T
           N == M \o R
<1>0. Len(s) \in Nat /\ k \in Nat /\ k >= 1 /\ k <= Len(s) /\ Len(T) \in Nat
  OBVIOUS
<1>1. L \in Seq(PtrType) /\ Len(L) = k - 1 /\ \A j \in 1..(k - 1) : L[j] = s[j]
  BY <1>0
<1>2. R \in Seq(PtrType) /\ Len(R) = Len(s) - k + 1 /\ \A j \in 1..(Len(s) - k + 1) : R[j] = s[k + j - 1]
  BY <1>0
<1> HIDE DEF L, R
<1>3. ConcatView(M, L, T)
  BY <1>1, ConcatAt
<1>4. M \in Seq(PtrType)
  BY <1>3 DEF ConcatView
<1> HIDE DEF M
<1>5. ConcatView(N, M, R)
  BY <1>2, <1>4, ConcatAt
<1> HIDE DEF N
<1>6. Len(M) = k - 1 + Len(T) /\ Len(N) = Len(s) + Len(T) /\ N \in Seq(PtrType)
  BY <1>0, <1>1, <1>2, <1>3, <1>5 DEF ConcatView
<1>7. ASSUME NEW j \in 1..(k - 1)  PROVE N[j] = s[j]
  <2>1. j \in 1..Len(M) /\ j \in 1..Len(L)
    BY <1>0, <1>1, <1>6
  <2>. QED  BY <1>1, <1>3, <1>5, <2>1 DEF ConcatView
<1>8. ASSUME NEW j \in 1..Len(T)  PROVE N[k - 1 + j] = T[j]
  <2>1. k - 1 + j \in 1..Len(M)
    BY <1>0, <1>6
  <2>2. N[k - 1 + j] = M[k - 1 + j]
    BY <1>5, <2>1 DEF ConcatView
  <2>3. M[Len(L) + j] = T[j]
    BY <1>3 DEF ConcatView
  <2>. QED  BY <1>1, <2>2, <2>3
<1>9. ASSUME NEW j \in k..Len(s)  PROVE N[Len(T) + j] = s[j]
  <2>1. /\ j - k + 1 \in 1..(Len(s) - k + 1) /\ Len(M) + (j - k + 1) = Len(T) + j
        /\ k + (j - k + 1) - 1 = j
    BY <1>0, <1>6
  <2>2. N[Len(M) + (j - k + 1)] = R[j - k + 1]
    BY <1>2, <1>5, <2>1 DEF ConcatView
  <2>3. R[j - k + 1] = s[k + (j - k + 1) - 1]
    BY <1>2, <2>1
  <2>. QED  BY <2>1, <2>2, <2>3
<1>. QED  BY <1>6, <1>7, <1>8, <1>9 DEF InsertView, N, M, L, R

(* Where an element of the longer list comes from. *)
InsertIndexed(N, s, k, T) ==
  \A j \in 1..Len(N) :
    \/ j \in 1..(k - 1) /\ j \in 1..(Len(s) - 1) /\ N[j] = s[j]
    \/ j - (k - 1) \in 1..Len(T) /\ N[j] = T[j - (k - 1)]
    \/ /\ j - Len(T) \in k..Len(s) /\ j - Len(T) \in 1..Len(s) /\ N[j] = s[j - Len(T)]
       /\ j \in 1..(Len(N) - 1) => j - Len(T) \in k..(Len(s) - 1) /\ j - Len(T) \in 1..(Len(s) - 1)

LEMMA InsertIndex ==
  ASSUME NEW s \in Seq(PtrType), NEW k \in 1..Len(s), NEW T \in Seq(PtrType), NEW N,
         InsertView(N, s, k, T)
  PROVE  InsertIndexed(N, s, k, T)
<1> DEFINE n == Len(T)
<1>0. /\ Len(s) \in Nat /\ k \in Nat /\ k >= 1 /\ k <= Len(s) /\ n \in Nat
      /\ Len(N) = Len(s) + n
  BY DEF InsertView
<1>1. /\ \A j \in 1..(k - 1) : N[j] = s[j]
      /\ \A j \in 1..n : N[k - 1 + j] = T[j]
      /\ \A j \in k..Len(s) : N[n + j] = s[j]
  BY DEF InsertView
<1> HIDE DEF n
<1>2. ASSUME NEW j \in 1..Len(N)
      PROVE  \/ j \in 1..(k - 1) /\ j \in 1..(Len(s) - 1)
             \/ j - (k - 1) \in 1..n /\ k - 1 + (j - (k - 1)) = j
             \/ /\ j - n \in k..Len(s) /\ j - n \in 1..Len(s) /\ n + (j - n) = j
                /\ j \in 1..(Len(N) - 1) => j - n \in k..(Len(s) - 1) /\ j - n \in 1..(Len(s) - 1)
  BY <1>0
<1>3. ASSUME NEW j \in 1..Len(N), j - (k - 1) \in 1..n, k - 1 + (j - (k - 1)) = j
      PROVE  N[j] = T[j - (k - 1)]
  BY <1>1, <1>3
<1>4. ASSUME NEW j \in 1..Len(N), j - n \in k..Len(s), n + (j - n) = j
      PROVE  N[j] = s[j - n]
  BY <1>1, <1>4
<1>5. InsertIndexed(N, s, k, T)
  BY <1>1, <1>2, <1>3, <1>4 DEF InsertIndexed, n
<1>. QED  BY <1>5

(* The pages of a block as a list. *)
RunView(T, p, n) ==
  /\ T \in Seq(PtrType) /\ Len(T) = n
  /\ \A j \in 1..n : T[j] = Ptr(p.i + (j - 1), p.a) /\ T[j].i = p.i + (j - 1) /\ T[j].a = p.a

LEMMA RunIs ==
  ASSUME NEW p \in PtrType, NEW n \in Nat, p.i + n <= LASTPAGE
  PROVE  RunView([j \in 1..n |-> Plus(p, j - 1)], p, n)
<1> DEFINE T == [j \in 1..n |-> Plus(p, j - 1)]
<1>0. p.i \in Nat /\ p.a \in {PHYSICAL, LINEAR} /\ LASTPAGE \in Nat
  BY PtrFacts, LastNat DEF PHYSICAL, LINEAR
<1>1. \A j \in 1..n : T[j] = Ptr(p.i + (j - 1), p.a)
  BY DEF Plus
<1>2. \A j \in 1..n : p.i + (j - 1) \in 0..LASTPAGE
  BY <1>0
<1>3. \A j \in 1..n : T[j] \in PtrType
  BY <1>0, <1>1, <1>2, PtrIn
<1>4. T \in Seq(PtrType) /\ Len(T) = n
  <2>1. T \in [1..n -> PtrType]
    BY <1>3
  <2> HIDE DEF T
  <2>. QED  BY <2>1
<1>5. \A j \in 1..n : T[j].i = p.i + (j - 1) /\ T[j].a = p.a
  BY <1>1, PtrEq
<1>. QED  BY <1>1, <1>4, <1>5 DEF RunView

(* free_page() on the list. *)
PutListView(N, s, p, n) ==
  /\ ListOK(N) /\ Len(N) = Len(s) + n
  /\ \A x : In(N, x) <=> In(s, x) \/ x \in p.i..(p.i + n - 1)
  /\ \A x, a : At(N, x, a) <=> At(s, x, a) \/ (p.a = a /\ x \in p.i..(p.i + n - 1))

LEMMA PutList ==
  ASSUME NEW s, ListOK(s), NEW p \in PtrType, NEW n \in Nat \ {0}, p.i + n <= LASTPAGE,
         \A x \in p.i..(p.i + n - 1) : ~In(s, x),
         NEW k, PositionView(k, s, p), NEW T, RunView(T, p, n), NEW N, InsertView(N, s, k, T)
  PROVE  PutListView(N, s, p, n)
<1>0. /\ s \in Seq(PtrType) /\ Len(s) \in Nat /\ Len(s) > 0 /\ k \in 1..Len(s) /\ k \in Nat
      /\ k >= 1 /\ k <= Len(s) /\ n \in Nat /\ n > 0 /\ p.i \in Nat /\ p.a \in Nat
      /\ T \in Seq(PtrType) /\ Len(T) = n /\ N \in Seq(PtrType) /\ Len(N) = Len(s) + n
  BY PtrFacts DEF ListOK, PositionView, RunView, InsertView
<1>1. \A j \in 1..Len(s) : s[j] \in PtrType /\ s[j].i \in Nat /\ s[j].a \in Nat
  BY <1>0, PtrFacts
<1>2. \A j \in 1..n : T[j].i = p.i + (j - 1) /\ T[j].a = p.a /\ T[j].i \in p.i..(p.i + n - 1)
                      /\ T[j].i \in Nat
  <2>1. \A j \in 1..n : p.i + (j - 1) \in p.i..(p.i + n - 1) /\ p.i + (j - 1) \in Nat
    BY <1>0
  <2>. QED  BY <2>1 DEF RunView
<1>3. \A j \in 1..Len(N) :
        \/ j \in 1..(k - 1) /\ j \in 1..(Len(s) - 1) /\ N[j] = s[j]
        \/ j - (k - 1) \in 1..n /\ N[j] = T[j - (k - 1)]
        \/ /\ j - n \in k..Len(s) /\ j - n \in 1..Len(s) /\ N[j] = s[j - n]
           /\ j \in 1..(Len(N) - 1) => j - n \in k..(Len(s) - 1) /\ j - n \in 1..(Len(s) - 1)
  <2>1. InsertIndexed(N, s, k, T)
    BY <1>0, InsertIndex
  <2>2. Len(T) = n
    BY <1>0
  <2>. QED  BY <2>1, <2>2 DEF InsertIndexed
<1>4. \A j \in 1..Len(s), m \in 1..n : s[j].i # T[m].i /\ s[j].i # p.i
  <2>1. p.i \in p.i..(p.i + n - 1)
    BY <1>0
  <2>. QED  BY <1>2, <2>1 DEF In
<1>5. ASSUME NEW m \in 1..n, NEW j \in 1..(k - 1)  PROVE Above(T[m], s[j])
  <2>1. j \in 1..Len(s)
    BY <1>0
  <2>2. ~Above(s[j], p) /\ s[j].i # p.i
    BY <1>4, <2>1 DEF PositionView
  <2>3. T[m].a = p.a /\ T[m].i >= p.i /\ T[m].i \in Nat
    BY <1>0, <1>2
  <2>4. s[j].i \in Nat /\ s[j].a \in Nat /\ p.i \in Nat /\ p.a \in Nat
    BY <1>0, <1>1, <2>1
  <2>. QED  BY <2>2, <2>3, <2>4 DEF Above
<1>6. ASSUME NEW m \in 1..n, NEW j \in k..(Len(s) - 1)  PROVE Above(s[j], T[m])
  <2>1. j \in 1..Len(s)
    BY <1>0
  <2>2. Above(s[j], p)
    BY DEF PositionView
  <2>3. T[m].a = p.a /\ T[m].i <= p.i + n - 1 /\ T[m].i \in Nat
    BY <1>0, <1>2
  <2>4. s[j].i \notin p.i..(p.i + n - 1) /\ s[j].i \in Nat /\ s[j].a \in Nat
    BY <1>1, <2>1 DEF In
  <2>5. s[j].i > p.i => s[j].i > T[m].i
    <3> DEFINE x == s[j].i
               y == T[m].i
               z == p.i
    <3>1. x \in Nat /\ x \notin z..(z + n - 1) /\ y \in Nat /\ y <= z + n - 1 /\ z \in Nat
      BY <1>0, <2>3, <2>4
    <3> HIDE DEF x, y, z
    <3>2. x > z => x > y
      BY <1>0, <3>1
    <3>. QED  BY <3>2 DEF x, y, z
  <2>. QED  BY <2>2, <2>3, <2>5 DEF Above
<1>7. ASSUME NEW j \in 1..(Len(N) - 1), NEW m \in 1..(Len(N) - 1), j < m
      PROVE  Above(N[m], N[j])
  <2>0. j \in 1..Len(N) /\ m \in 1..Len(N) /\ j \in Nat /\ m \in Nat
    BY <1>0
  <2>1. CASE j \in 1..(k - 1) /\ j \in 1..(Len(s) - 1) /\ N[j] = s[j]
    <3>1. CASE m \in 1..(k - 1) /\ m \in 1..(Len(s) - 1) /\ N[m] = s[m]
      BY <1>7, <2>1, <3>1 DEF ListOK
    <3>2. CASE m - (k - 1) \in 1..n /\ N[m] = T[m - (k - 1)]
      BY <1>5, <2>1, <3>2
    <3>3. CASE m - n \in k..(Len(s) - 1) /\ m - n \in 1..(Len(s) - 1) /\ N[m] = s[m - n]
      <4>1. j < m - n
        BY <1>0, <2>0, <2>1, <3>3
      <4>. QED  BY <2>1, <3>3, <4>1 DEF ListOK
    <3>. QED  BY <1>3, <1>7, <2>0, <3>1, <3>2, <3>3
  <2>2. CASE j - (k - 1) \in 1..n /\ N[j] = T[j - (k - 1)]
    <3>1. ~(m \in 1..(k - 1))
      BY <1>0, <1>7, <2>0, <2>2
    <3>2. CASE m - (k - 1) \in 1..n /\ N[m] = T[m - (k - 1)]
      <4>1. j - (k - 1) < m - (k - 1)
        BY <1>0, <1>7, <2>0
      <4> DEFINE u == j - (k - 1)
                 v == m - (k - 1)
      <4>2. u \in 1..n /\ v \in 1..n /\ u < v /\ N[j] = T[u] /\ N[m] = T[v]
        BY <2>2, <3>2, <4>1
      <4> HIDE DEF u, v
      <4>3. T[u].i < T[v].i /\ T[u].a = T[v].a
        <5>1. T[u].i = p.i + (u - 1) /\ T[v].i = p.i + (v - 1) /\ T[u].a = T[v].a
          BY <1>2, <4>2
        <5>2. p.i + (u - 1) < p.i + (v - 1)
          BY <1>0, <4>2
        <5>. QED  BY <5>1, <5>2
      <4>4. T[u].i \in Nat /\ T[v].i \in Nat
        BY <1>2, <4>2
      <4>. QED  BY <4>2, <4>3, <4>4 DEF Above
    <3>3. CASE m - n \in k..(Len(s) - 1) /\ m - n \in 1..(Len(s) - 1) /\ N[m] = s[m - n]
      BY <1>6, <2>2, <3>3
    <3>. QED  BY <1>3, <1>7, <2>0, <3>1, <3>2, <3>3
  <2>3. CASE j - n \in k..(Len(s) - 1) /\ j - n \in 1..(Len(s) - 1) /\ N[j] = s[j - n]
    <3>1. ~(m \in 1..(k - 1)) /\ ~(m - (k - 1) \in 1..n)
      <4>1. k \in Nat /\ n \in Nat /\ j \in Nat /\ m \in Nat /\ j < m /\ k <= j - n
        BY <1>0, <1>7, <2>0, <2>3
      <4>. QED  BY <4>1
    <3>2. m - n \in 1..(Len(s) - 1) /\ N[m] = s[m - n]
      BY <1>3, <1>7, <2>0, <3>1
    <3>3. j - n < m - n
      BY <1>0, <1>7, <2>0
    <3>. QED  BY <2>3, <3>2, <3>3 DEF ListOK
  <2>. QED  BY <1>3, <1>7, <2>0, <2>1, <2>2, <2>3
<1>8. ASSUME NEW j \in 1..Len(N), NEW m \in 1..Len(N), j < m
      PROVE  N[j].i # N[m].i
  <2>0. j \in Nat /\ m \in Nat
    BY <1>0
  <2>1. CASE j \in 1..(k - 1) /\ j \in 1..(Len(s) - 1) /\ N[j] = s[j]
    <3>0. j \in 1..Len(s)
      BY <1>0, <2>1
    <3>1. CASE m \in 1..(k - 1) /\ m \in 1..(Len(s) - 1) /\ N[m] = s[m]
      <4>1. m \in 1..Len(s) /\ j # m
        BY <1>0, <1>8, <3>1
      <4>. QED  BY <2>1, <3>0, <3>1, <4>1 DEF ListOK
    <3>2. CASE m - (k - 1) \in 1..n /\ N[m] = T[m - (k - 1)]
      BY <1>4, <2>1, <3>0, <3>2
    <3>3. CASE m - n \in k..Len(s) /\ m - n \in 1..Len(s) /\ N[m] = s[m - n]
      <4>1. j # m - n
        BY <1>0, <2>0, <2>1, <3>3
      <4>. QED  BY <2>1, <3>0, <3>3, <4>1 DEF ListOK
    <3>. QED  BY <1>3, <3>1, <3>2, <3>3
  <2>2. CASE j - (k - 1) \in 1..n /\ N[j] = T[j - (k - 1)]
    <3>1. ~(m \in 1..(k - 1))
      BY <1>0, <1>8, <2>0, <2>2
    <3>2. CASE m - (k - 1) \in 1..n /\ N[m] = T[m - (k - 1)]
      <4> DEFINE u == j - (k - 1)
                 v == m - (k - 1)
      <4>1. u < v
        BY <1>0, <1>8, <2>0
      <4>2. u \in 1..n /\ v \in 1..n /\ N[j] = T[u] /\ N[m] = T[v]
        BY <2>2, <3>2
      <4> HIDE DEF u, v
      <4>3. T[u].i = p.i + (u - 1) /\ T[v].i = p.i + (v - 1)
        BY <1>2, <4>2
      <4>4. p.i + (u - 1) # p.i + (v - 1)
        BY <1>0, <4>1, <4>2
      <4>. QED  BY <4>2, <4>3, <4>4
    <3>3. CASE m - n \in k..Len(s) /\ m - n \in 1..Len(s) /\ N[m] = s[m - n]
      BY <1>4, <2>2, <3>3
    <3>. QED  BY <1>3, <3>1, <3>2, <3>3
  <2>3. CASE j - n \in k..Len(s) /\ j - n \in 1..Len(s) /\ N[j] = s[j - n]
    <3>1. ~(m \in 1..(k - 1)) /\ ~(m - (k - 1) \in 1..n)
      <4>1. k \in Nat /\ n \in Nat /\ j \in Nat /\ m \in Nat /\ j < m /\ k <= j - n
        BY <1>0, <1>8, <2>0, <2>3
      <4>. QED  BY <4>1
    <3>2. m - n \in 1..Len(s) /\ N[m] = s[m - n]
      BY <1>3, <3>1
    <3>3. j - n # m - n
      BY <1>0, <1>8, <2>0
    <3>. QED  BY <2>3, <3>2, <3>3 DEF ListOK
  <2>. QED  BY <1>3, <2>1, <2>2, <2>3
<1>9. Len(N) > 0 /\ N[Len(N)] = s[Len(s)] /\ n + Len(s) = Len(N) /\ Len(s) \in k..Len(s)
  <2>1. Len(N) > 0 /\ n + Len(s) = Len(N) /\ Len(s) \in k..Len(s)
    BY <1>0
  <2>2. N[n + Len(s)] = s[Len(s)]
    BY <1>0, <2>1 DEF InsertView
  <2>. QED  BY <2>1, <2>2
<1>10. ListOK(N)
  <2>1. \A j, m \in 1..Len(N) : j # m => N[j].i # N[m].i
    <3>1. \A j, m \in 1..Len(N) : j # m => j < m \/ m < j
      BY <1>0
    <3>. QED  BY <1>8, <3>1
  <2>2. N[Len(N)] = Ptr(LASTPAGE, PHYSICAL)
    BY <1>9 DEF ListOK
  <2>. QED  BY <1>0, <1>7, <1>9, <2>1, <2>2 DEF ListOK
(* What is in the list. *)
<1>11. \A j \in 1..Len(s) : \/ j \in 1..Len(N) /\ N[j] = s[j] /\ (j \in 1..(Len(s) - 1) => j \in 1..(Len(N) - 1))
                            \/ /\ n + j \in 1..Len(N) /\ N[n + j] = s[j]
                               /\ j \in 1..(Len(s) - 1) => n + j \in 1..(Len(N) - 1)
  <2>1. \A j \in 1..Len(s) :
          \/ j \in 1..Len(N) /\ j \in 1..(k - 1) /\ (j \in 1..(Len(s) - 1) => j \in 1..(Len(N) - 1))
          \/ n + j \in 1..Len(N) /\ j \in k..Len(s) /\ (j \in 1..(Len(s) - 1) => n + j \in 1..(Len(N) - 1))
    BY <1>0
  <2>2. /\ \A j \in 1..(k - 1) : N[j] = s[j]
        /\ \A j \in k..Len(s) : N[n + j] = s[j]
    BY <1>0 DEF InsertView
  <2>. QED  BY <2>1, <2>2
<1>12. \A x \in p.i..(p.i + n - 1) : \E j \in 1..(Len(N) - 1) : j \in 1..Len(N) /\ N[j] = Ptr(x, p.a)
  <2> TAKE x \in p.i..(p.i + n - 1)
  <2> DEFINE u == x - p.i + 1
  <2>1. u \in 1..n /\ p.i + (u - 1) = x
    BY <1>0
  <2> HIDE DEF u
  <2>2. N[k - 1 + u] = T[u] /\ T[u] = Ptr(x, p.a)
    BY <1>0, <2>1 DEF InsertView, RunView
  <2>3. k - 1 + u \in 1..(Len(N) - 1) /\ k - 1 + u \in 1..Len(N)
    BY <1>0, <2>1
  <2>. QED  BY <2>2, <2>3
<1>13. ASSUME NEW x  PROVE In(N, x) <=> In(s, x) \/ x \in p.i..(p.i + n - 1)
  <2>1. ASSUME In(N, x)  PROVE In(s, x) \/ x \in p.i..(p.i + n - 1)
    <3>1. PICK j \in 1..Len(N) : N[j].i = x
      BY <2>1 DEF In
    <3>2. CASE j \in 1..(k - 1) /\ j \in 1..(Len(s) - 1) /\ N[j] = s[j]
      <4>1. j \in 1..Len(s)
        BY <1>0, <3>2
      <4>. QED  BY <3>1, <3>2, <4>1 DEF In
    <3>3. CASE j - (k - 1) \in 1..n /\ N[j] = T[j - (k - 1)]
      BY <1>2, <3>1, <3>3
    <3>4. CASE j - n \in 1..Len(s) /\ N[j] = s[j - n]
      BY <3>1, <3>4 DEF In
    <3>. QED  BY <1>3, <3>2, <3>3, <3>4
  <2>2. ASSUME In(s, x)  PROVE In(N, x)
    BY <1>11, <2>2 DEF In
  <2>3. ASSUME x \in p.i..(p.i + n - 1)  PROVE In(N, x)
    BY <1>12, <2>3, PtrEq DEF In
  <2>. QED  BY <2>1, <2>2, <2>3
<1>14. ASSUME NEW x, NEW a  PROVE At(N, x, a) <=> At(s, x, a) \/ (p.a = a /\ x \in p.i..(p.i + n - 1))
  <2>1. ASSUME At(N, x, a)  PROVE At(s, x, a) \/ (p.a = a /\ x \in p.i..(p.i + n - 1))
    <3>1. PICK j \in 1..(Len(N) - 1) : N[j] = Ptr(x, a)
      BY <2>1 DEF At
    <3>2. j \in 1..Len(N) /\ N[j].i = x /\ N[j].a = a
      BY <1>0, <3>1, PtrEq
    <3>3. CASE j \in 1..(k - 1) /\ j \in 1..(Len(s) - 1) /\ N[j] = s[j]
      BY <3>1, <3>3 DEF At
    <3>4. CASE j - (k - 1) \in 1..n /\ N[j] = T[j - (k - 1)]
      BY <1>2, <3>2, <3>4
    <3>5. CASE j - n \in 1..(Len(s) - 1) /\ N[j] = s[j - n]
      BY <3>1, <3>5 DEF At
    <3>. QED  BY <1>3, <3>2, <3>3, <3>4, <3>5
  <2>2. ASSUME At(s, x, a)  PROVE At(N, x, a)
    <3>1. PICK j \in 1..(Len(s) - 1) : s[j] = Ptr(x, a)
      BY <2>2 DEF At
    <3>2. j \in 1..Len(s)
      BY <1>0
    <3>. QED  BY <1>11, <3>1, <3>2 DEF At
  <2>3. ASSUME x \in p.i..(p.i + n - 1), p.a = a  PROVE At(N, x, a)
    BY <1>12, <2>3 DEF At
  <2>. QED  BY <2>1, <2>2, <2>3
<1>. QED  BY <1>0, <1>10, <1>13, <1>14 DEF PutListView

-----------------------------------------------------------------------------
(* The block counts. *)
Member(s, p) == \E m \in 1..Len(s) : s[m] = p

LEMMA AtIn ==
  ASSUME NEW s, ListOK(s), NEW x, NEW a, At(s, x, a)
  PROVE  In(s, x) /\ x \in 0..(LASTPAGE - 1) /\ x \in Nat /\ x < LASTPAGE /\ x \in 0..LASTPAGE
<1>0. s \in Seq(PtrType) /\ Len(s) \in Nat /\ s[Len(s)] = Ptr(LASTPAGE, PHYSICAL) /\ Len(s) > 0
  BY DEF ListOK
<1>1. PICK k \in 1..(Len(s) - 1) : s[k] = Ptr(x, a)
  BY DEF At
<1>2. k \in 1..Len(s) /\ Len(s) \in 1..Len(s) /\ k # Len(s)
  BY <1>0
<1>3. s[k].i = x /\ s[Len(s)].i = LASTPAGE
  BY <1>0, <1>1, PtrEq
<1>4. x # LASTPAGE
  BY <1>2, <1>3 DEF ListOK
<1>5. x \in 0..LASTPAGE
  BY <1>0, <1>2, <1>3, PtrFacts
<1>. QED  BY <1>2, <1>3, <1>4, <1>5, LastNat DEF In

LEMMA MemberIs ==
  ASSUME NEW s, ListOK(s), NEW p, Member(s, p)
  PROVE  /\ p \in PtrType /\ In(s, p.i)
         /\ p.i # LASTPAGE => At(s, p.i, p.a)
         /\ p.i = LASTPAGE => p.a = PHYSICAL
         /\ \A a : At(s, p.i, a) => a = p.a
<1>0. s \in Seq(PtrType) /\ Len(s) \in Nat /\ Len(s) > 0 /\ s[Len(s)] = Ptr(LASTPAGE, PHYSICAL)
  BY DEF ListOK
<1>1. PICK m \in 1..Len(s) : s[m] = p
  BY DEF Member
<1>2. p \in PtrType /\ In(s, p.i)
  BY <1>0, <1>1 DEF In
<1>3. ASSUME p.i # LASTPAGE  PROVE At(s, p.i, p.a)
  <2>1. m # Len(s)
    BY <1>0, <1>1, <1>3, PtrEq
  <2>2. m \in 1..(Len(s) - 1)
    BY <1>0, <2>1
  <2>3. p = Ptr(p.i, p.a)
    BY <1>2, PtrIs
  <2>. QED  BY <1>1, <2>2, <2>3 DEF At
<1>4. ASSUME p.i = LASTPAGE  PROVE p.a = PHYSICAL
  <2>1. Len(s) \in 1..Len(s) /\ s[Len(s)].i = LASTPAGE /\ s[Len(s)].a = PHYSICAL
    BY <1>0, PtrEq
  <2>2. m = Len(s)
    BY <1>1, <1>4, <2>1 DEF ListOK
  <2>. QED  BY <1>1, <2>1, <2>2
<1>5. ASSUME NEW a, At(s, p.i, a)  PROVE a = p.a
  <2>1. PICK j \in 1..(Len(s) - 1) : s[j] = Ptr(p.i, a)
    BY <1>5 DEF At
  <2>2. j \in 1..Len(s)
    BY <1>0
  <2>3. s[j].i = p.i /\ s[j].a = a
    BY <2>1, PtrEq
  <2>4. j = m
    BY <1>1, <2>2, <2>3 DEF ListOK
  <2>. QED  BY <1>1, <2>3, <2>4
<1>. QED  BY <1>2, <1>3, <1>4, <1>5

(* The end of memory, or the last page when that one is in use. *)
IsTop(top) == top \in Nat /\ LASTPAGE <= top /\ top <= LASTPAGE + 1

CountsView(B, count, s, top) ==
  /\ B \in [0..LASTPAGE -> Nat]
  /\ RunsOK(s, B)
  /\ EndsOK(s, B, top)
  /\ \A x \in 0..LASTPAGE : ~In(s, x) => B[x] = count[x]

(* Joining two blocks that meet. *)
LEMMA AbsorbRuns ==
  ASSUME NEW s, ListOK(s), NEW top, IsTop(top),
         NEW count \in [0..LASTPAGE -> Nat], RunsOK(s, count), EndsOK(s, count, top),
         NEW p, Member(s, p), NEW q, Member(s, q), p.i # q.i, p.i # LASTPAGE
  PROVE  CountsView(Absorb(count, p, q), count, s, top)
<1> DEFINE B == Absorb(count, p, q)
           P == p.i
           Q == q.i
<1>0. /\ p \in PtrType /\ q \in PtrType /\ P \in 0..LASTPAGE /\ Q \in 0..LASTPAGE /\ P # Q
      /\ P \in Nat /\ Q \in Nat /\ P < LASTPAGE /\ LASTPAGE \in Nat
      /\ In(s, P) /\ In(s, Q)
  <2>1. p \in PtrType /\ q \in PtrType /\ In(s, P) /\ In(s, Q)
    BY MemberIs
  <2>2. P \in 0..LASTPAGE /\ Q \in 0..LASTPAGE
    BY <2>1, PtrFacts
  <2>. QED  BY <2>1, <2>2, LastNat
<1>1. CASE Plus(p, count[P]) # q
  <2>1. B = count
    BY <1>1 DEF Absorb
  <2>. QED  BY <2>1 DEF CountsView
<1>2. CASE Plus(p, count[P]) = q
  <2>1. Q = P + count[P] /\ p.a = q.a
    BY <1>2, PtrEq DEF Plus
  <2>2. B = [count EXCEPT ![P] = @ + count[Q], ![Q] = 0]
    BY <1>2 DEF Absorb
  <2>3. /\ At(s, P, p.a) /\ (Q # LASTPAGE => At(s, Q, p.a)) /\ (Q = LASTPAGE => p.a = PHYSICAL)
        /\ \A a : At(s, P, a) => a = p.a
        /\ \A a : At(s, Q, a) => a = p.a
    BY <1>0, <2>1, MemberIs
  <2>4. p.a \in {PHYSICAL, LINEAR}
    BY <1>0 DEF PtrType
  <2> DEFINE pa == p.a
  <2> HIDE DEF B, P, Q, pa
  <2>5. count[P] \in Nat /\ count[Q] \in Nat /\ count[P] > 0 /\ count[P] + count[Q] \in Nat
    BY <1>0, <2>1
  <2>6. /\ B \in [0..LASTPAGE -> Nat] /\ B[P] = count[P] + count[Q] /\ B[Q] = 0
        /\ \A x \in 0..LASTPAGE : x # P /\ x # Q => B[x] = count[x]
    BY <1>0, <2>2, <2>5
  <2>7. \A x \in 0..LASTPAGE : ~In(s, x) => B[x] = count[x]
    BY <1>0, <2>6
  <2>8. \A x \in 0..(LASTPAGE - 1) : x \in 0..LASTPAGE /\ x \in Nat /\ x # LASTPAGE /\ count[x] \in Nat
    BY <1>0
  <2>9. \A a \in {PHYSICAL, LINEAR} : \A x, y \in 0..(LASTPAGE - 1) :
          At(s, x, a) /\ x < y /\ y < x + count[x] => At(s, y, a) /\ count[y] = 0
    BY DEF RunsOK
  <2>10. ASSUME NEW a \in {PHYSICAL, LINEAR},
                NEW x \in 0..(LASTPAGE - 1), NEW y \in 0..(LASTPAGE - 1),
                At(s, x, a), x < y, y < x + B[x]
         PROVE  At(s, y, a) /\ B[y] = 0
    <3>1. x # Q
      BY <2>6, <2>8, <2>10
    <3>2. CASE x # P
      <4>1. At(s, y, a) /\ count[y] = 0
        BY <2>6, <2>8, <2>9, <2>10, <3>1, <3>2
      <4>2. y # P
        BY <2>5, <4>1
      <4>. QED  BY <2>6, <2>8, <4>1, <4>2
    <3>3. CASE x = P
      <4>0. a = pa
        BY <2>3, <2>10, <3>3 DEF pa
      <4>1. y < P + (count[P] + count[Q]) /\ P < y
        BY <2>6, <2>10, <3>3
      <4>2. y < Q \/ y = Q \/ (y > Q /\ y < Q + count[Q] /\ Q # LASTPAGE /\ Q \in 0..(LASTPAGE - 1))
        BY <1>0, <2>1, <2>5, <2>8, <4>1
      <4>3. CASE y < Q
        <5>1. At(s, y, a) /\ count[y] = 0
          BY <2>1, <2>9, <2>10, <3>3, <4>3
        <5>2. y # P /\ y # Q
          BY <1>0, <2>8, <4>1, <4>3
        <5>. QED  BY <2>6, <2>8, <5>1, <5>2
      <4>4. CASE y = Q
        BY <2>3, <2>6, <2>8, <4>0, <4>4 DEF pa
      <4>5. CASE y > Q /\ y < Q + count[Q] /\ Q # LASTPAGE /\ Q \in 0..(LASTPAGE - 1)
        <5>1. At(s, Q, a)
          BY <2>3, <4>0, <4>5 DEF pa
        <5>2. At(s, y, a) /\ count[y] = 0
          BY <2>8, <2>9, <4>5, <5>1
        <5>3. y # P /\ y # Q
          BY <1>0, <2>8, <4>1, <4>5
        <5>. QED  BY <2>6, <2>8, <5>2, <5>3
      <4>. QED  BY <4>2, <4>3, <4>4, <4>5
    <3>. QED  BY <3>2, <3>3
  <2>11. RunsOK(s, B)
    BY <2>10 DEF RunsOK
  <2>12. /\ \A x : At(s, x, PHYSICAL) => /\ x + count[x] <= top
                                         /\ LASTPAGE < x + count[x] => count[LASTPAGE] = 0
         /\ \A x : At(s, x, LINEAR) => x + count[x] <= LASTPAGE
         /\ LASTPAGE + count[LASTPAGE] <= top
         /\ top \in Nat /\ LASTPAGE <= top
    BY DEF EndsOK, IsTop
  <2>13. /\ LASTPAGE + B[LASTPAGE] <= top
         /\ B[LASTPAGE] = IF Q = LASTPAGE THEN 0 ELSE count[LASTPAGE]
    BY <1>0, <2>6, <2>12
  <2>14. ASSUME NEW x, At(s, x, PHYSICAL)
         PROVE  x + B[x] <= top /\ (LASTPAGE < x + B[x] => B[LASTPAGE] = 0)
    <3>0. x \in 0..LASTPAGE /\ x \in Nat /\ x < LASTPAGE
      BY <2>14, AtIn
    <3>1. CASE x = P
      <4>1. PHYSICAL = pa
        BY <2>3, <2>14, <3>1 DEF pa
      <4>2. CASE Q = LASTPAGE
        BY <1>0, <2>1, <2>5, <2>6, <2>12, <2>13, <3>1, <4>2
      <4>3. CASE Q # LASTPAGE
        <5>1. At(s, Q, PHYSICAL)
          BY <2>3, <4>1, <4>3 DEF pa
        <5>2. x + B[x] = Q + count[Q]
          BY <1>0, <2>1, <2>5, <2>6, <3>1
        <5>. QED  BY <2>12, <2>13, <4>3, <5>1, <5>2
      <4>. QED  BY <4>2, <4>3
    <3>2. CASE x = Q
      BY <1>0, <2>6, <2>12, <3>0, <3>2
    <3>3. CASE x # P /\ x # Q
      BY <2>6, <2>12, <2>13, <2>14, <3>0, <3>3
    <3>. QED  BY <3>1, <3>2, <3>3
  <2>15. ASSUME NEW x, At(s, x, LINEAR)  PROVE x + B[x] <= LASTPAGE
    <3>0. x \in 0..LASTPAGE /\ x \in Nat /\ x < LASTPAGE
      BY <2>15, AtIn
    <3>1. CASE x = P
      <4>1. LINEAR = pa
        BY <2>3, <2>15, <3>1 DEF pa
      <4>2. Q # LASTPAGE
        BY <2>3, <4>1 DEF pa, PHYSICAL, LINEAR
      <4>3. At(s, Q, LINEAR)
        BY <2>3, <4>1, <4>2 DEF pa
      <4>4. x + B[x] = Q + count[Q]
        BY <1>0, <2>1, <2>5, <2>6, <3>1
      <4>. QED  BY <2>12, <4>3, <4>4
    <3>2. CASE x = Q
      BY <1>0, <2>6, <3>0, <3>2
    <3>3. CASE x # P /\ x # Q
      BY <2>6, <2>12, <2>15, <3>0, <3>3
    <3>. QED  BY <3>1, <3>2, <3>3
  <2>16. EndsOK(s, B, top)
    BY <2>13, <2>14, <2>15 DEF EndsOK
  <2>. QED  BY <2>6, <2>7, <2>11, <2>16 DEF CountsView, B
<1>. QED  BY <1>1, <1>2

(* free_page(): the list and the counts. *)
PutView(B, A, p, n, top) ==
  /\ FreeOK(B, top)
  /\ \A x : In(B.head, x) <=> In(A.head, x) \/ x \in p.i..(p.i + n - 1)
  /\ \A x \in 0..LASTPAGE : ~In(B.head, x) => B.count[x] = A.count[x]

LEMMA PutCounts ==
  ASSUME NEW s, ListOK(s), NEW top, IsTop(top),
         NEW count \in [0..LASTPAGE -> Nat], RunsOK(s, count), EndsOK(s, count, top),
         NEW p \in PtrType, NEW n \in Nat \ {0}, p.i + n <= LASTPAGE,
         \A x \in p.i..(p.i + n - 1) : ~In(s, x),
         \A y \in (p.i + 1)..(p.i + n - 1) : count[y] = 0,
         NEW N, PutListView(N, s, p, n)
  PROVE  CountsView([count EXCEPT ![p.i] = n], count, N, top)
<1> DEFINE P == p.i
           B == [count EXCEPT ![P] = n]
<1>0. P \in 0..LASTPAGE /\ P \in Nat /\ P < LASTPAGE /\ LASTPAGE \in Nat /\ n \in Nat /\ n > 0
  BY PtrFacts, LastNat
<1>1. B \in [0..LASTPAGE -> Nat] /\ B[P] = n /\ \A x \in 0..LASTPAGE : x # P => B[x] = count[x]
  BY <1>0
<1>2. P \in P..(P + n - 1) /\ ~In(s, P)
  BY <1>0
<1>3. \A x \in P..(P + n - 1) : x = P \/ (x # P /\ x \in (P + 1)..(P + n - 1) /\ x \in 0..LASTPAGE)
  BY <1>0
<1>4. In(N, P)
  BY <1>2 DEF PutListView
<1> HIDE DEF B
<1>5. \A x \in 0..(LASTPAGE - 1) : x \in 0..LASTPAGE /\ x \in Nat
  BY <1>0
(* Only the first page of the new block has a count. *)
<1>6. \A x \in P..(P + n - 1) : x # P => B[x] = 0
  BY <1>1, <1>3
<1>7. ASSUME NEW a \in {PHYSICAL, LINEAR},
             NEW x \in 0..(LASTPAGE - 1), NEW y \in 0..(LASTPAGE - 1),
             At(N, x, a), x < y, y < x + B[x]
      PROVE  At(N, y, a) /\ B[y] = 0
  <2>1. CASE At(s, x, a)
    <3>1. x # P
      BY <1>2, <2>1, AtIn
    <3>2. At(s, y, a) /\ count[y] = 0
      BY <1>1, <1>5, <1>7, <2>1, <3>1 DEF RunsOK
    <3>3. y # P
      BY <1>2, <3>2, AtIn
    <3>. QED  BY <1>1, <1>5, <3>2, <3>3 DEF PutListView
  <2>2. CASE p.a = a /\ x \in P..(P + n - 1)
    <3>1. x = P
      BY <1>5, <1>6, <1>7, <2>2
    <3>2. y \in P..(P + n - 1) /\ y # P
      <4>1. P < y /\ y < P + n /\ y \in Nat
        BY <1>1, <1>5, <1>7, <3>1
      <4> HIDE DEF P
      <4>. QED  BY <1>0, <4>1
    <3>. QED  BY <1>6, <2>2, <3>2 DEF PutListView
  <2>. QED  BY <1>7, <2>1, <2>2 DEF PutListView
<1>8. RunsOK(N, B)
  BY <1>7 DEF RunsOK
<1>9. \A x \in 0..LASTPAGE : ~In(N, x) => B[x] = count[x]
  BY <1>1, <1>4
<1>10. /\ \A x : At(s, x, PHYSICAL) => /\ x + count[x] <= top
                                       /\ LASTPAGE < x + count[x] => count[LASTPAGE] = 0
       /\ \A x : At(s, x, LINEAR) => x + count[x] <= LASTPAGE
       /\ LASTPAGE + count[LASTPAGE] <= top
       /\ top \in Nat /\ LASTPAGE <= top
  BY DEF EndsOK, IsTop
<1>11. B[LASTPAGE] = count[LASTPAGE]
  BY <1>0, <1>1
<1>12. ASSUME NEW x, NEW a, At(N, x, a), ~At(s, x, a)  PROVE x + B[x] <= LASTPAGE /\ x \in Nat /\ B[x] \in Nat
  <2>1. x \in P..(P + n - 1)
    BY <1>12 DEF PutListView
  <2>2. x \in Nat /\ x <= LASTPAGE /\ P + n <= LASTPAGE
    BY <1>0, <2>1
  <2>3. x # P => B[x] = 0
    BY <1>6, <2>1
  <2> HIDE DEF P
  <2>4. CASE x = P
    BY <1>0, <1>1, <2>2, <2>4
  <2>5. CASE x # P
    BY <1>0, <2>2, <2>3, <2>5
  <2>. QED  BY <2>4, <2>5
<1>13. ASSUME NEW x, NEW a, At(s, x, a)  PROVE B[x] = count[x]
  <2>1. x \in 0..LASTPAGE /\ x # P
    BY <1>2, <1>13, AtIn
  <2>. QED  BY <1>1, <2>1
<1>14. ASSUME NEW x, At(N, x, PHYSICAL)
       PROVE  x + B[x] <= top /\ (LASTPAGE < x + B[x] => B[LASTPAGE] = 0)
  <2>1. CASE At(s, x, PHYSICAL)
    BY <1>10, <1>11, <1>13, <2>1
  <2>2. CASE ~At(s, x, PHYSICAL)
    BY <1>0, <1>10, <1>12, <1>14, <2>2
  <2>. QED  BY <2>1, <2>2
<1>15. ASSUME NEW x, At(N, x, LINEAR)  PROVE x + B[x] <= LASTPAGE
  BY <1>10, <1>12, <1>13, <1>15
<1>16. EndsOK(N, B, top)
  BY <1>10, <1>11, <1>14, <1>15 DEF EndsOK
<1>17. CountsView(B, count, N, top)
  BY <1>1, <1>8, <1>9, <1>16 DEF CountsView
<1>. QED  BY <1>17 DEF B

LEMMA PutKeeps ==
  ASSUME NEW A, NEW top, IsTop(top), FreeOK(A, top), A.head # <<>>, NEW p \in PtrType, NEW n \in Nat \ {0}, p.i + n <= LASTPAGE,
         \A x \in p.i..(p.i + n - 1) : ~In(A.head, x),
         \A y \in (p.i + 1)..(p.i + n - 1) : A.count[y] = 0
  PROVE  PutView(Put(A, p, n), A, p, n, top)
<1> DEFINE s == A.head
           count == A.count
           k == Position(A, p)
           T == [j \in 1..n |-> Plus(p, j - 1)]
           N == SubSeq(s, 1, k - 1) \o T \o SubSeq(s, k, Len(s))
           C0 == [count EXCEPT ![p.i] = n]
           C1 == Absorb(C0, p, s[k])
           C2 == IF k = 1 THEN C1 ELSE Absorb(C1, s[k - 1], p)
           B == Put(A, p, n)
<1>0. /\ ListOK(s) /\ A.num = Len(s) /\ count \in [0..LASTPAGE -> Nat] /\ RunsOK(s, count) /\ EndsOK(s, count, top)
      /\ s \in Seq(PtrType) /\ Len(s) \in Nat /\ Len(s) > 0 /\ n \in Nat /\ n > 0
      /\ p.i \in Nat /\ LASTPAGE \in Nat
  <2>1. ListOK(s) /\ A.num = Len(s) /\ count \in [0..LASTPAGE -> Nat] /\ RunsOK(s, count) /\ EndsOK(s, count, top)
    BY DEF FreeOK
  <2>2. p.i \in Nat /\ LASTPAGE \in Nat /\ n \in Nat /\ n > 0
    BY PtrFacts, LastNat
  <2> HIDE DEF s
  <2>3. s \in Seq(PtrType) /\ Len(s) \in Nat /\ Len(s) > 0
    BY <2>1 DEF ListOK
  <2>. QED  BY <2>1, <2>2, <2>3
<1>1. B = [head |-> N, num |-> A.num + n, count |-> C2]
  <2>1. s # <<>>
    BY <1>0
  <2>. QED  BY <2>1, Zenon DEF Put
<1>2. B.head = N /\ B.num = A.num + n /\ B.count = C2
  <2> HIDE DEF B, N, C2
  <2>. QED  BY <1>1
<1>3. PositionView(k, s, p)
  BY <1>0, PositionIs
<1>4. RunView(T, p, n)
  BY <1>0, RunIs
<1>5. k \in 1..Len(s) /\ k \in Nat /\ k >= 1 /\ k <= Len(s)
  BY <1>0, <1>3 DEF PositionView
<1>6. T \in Seq(PtrType) /\ Len(T) = n /\ T[1] = Ptr(p.i + (1 - 1), p.a)
  <2>1. 1 \in 1..n
    BY <1>0
  <2> HIDE DEF T
  <2>. QED  BY <1>4, <2>1 DEF RunView
<1> HIDE DEF B, T, k, s, count
<1>7. InsertView(N, s, k, T)
  BY <1>0, <1>5, <1>6, InsertParts
<1> HIDE DEF N
<1>8. PutListView(N, s, p, n)
  BY <1>0, <1>3, <1>4, <1>7, PutList DEF s
<1>9. ListOK(N) /\ Len(N) = Len(s) + n
  BY <1>8 DEF PutListView
<1>10. CountsView(C0, count, N, top)
  BY <1>0, <1>8, PutCounts DEF s, count
<1> HIDE DEF C0
(* The pages whose blocks are joined are in the new list. *)
<1>11. Member(N, p)
  <2>1. p = Ptr(p.i + (1 - 1), p.a)
    BY <1>0, PtrIs
  <2>2. 1 \in 1..Len(T) /\ k - 1 + 1 \in 1..Len(N)
    BY <1>0, <1>5, <1>6, <1>9
  <2>3. N[k - 1 + 1] = T[1]
    BY <1>7, <2>2 DEF InsertView
  <2>. QED  BY <1>6, <2>1, <2>2, <2>3 DEF Member
<1>12. Member(N, s[k]) /\ s[k].i # p.i
  <2>1. k \in k..Len(s) /\ n + k \in 1..Len(N)
    BY <1>0, <1>5, <1>9
  <2>2. N[n + k] = s[k]
    BY <1>6, <1>7, <2>1 DEF InsertView
  <2>3. p.i \in p.i..(p.i + n - 1) /\ In(s, s[k].i)
    BY <1>0, <1>5 DEF In
  <2>. QED  BY <2>1, <2>2, <2>3 DEF Member, s
<1>13. ASSUME k # 1  PROVE Member(N, s[k - 1]) /\ s[k - 1].i # p.i /\ s[k - 1].i # LASTPAGE
  <2>1. /\ k - 1 \in 1..(k - 1) /\ k - 1 \in 1..Len(N) /\ k - 1 \in 1..Len(s) /\ k - 1 # Len(s)
        /\ Len(s) \in 1..Len(s)
    BY <1>0, <1>5, <1>9, <1>13
  <2>2. N[k - 1] = s[k - 1]
    BY <1>7, <2>1 DEF InsertView
  <2>3. p.i \in p.i..(p.i + n - 1) /\ In(s, s[k - 1].i)
    <3>1. p.i \in p.i..(p.i + n - 1)
      BY <1>0
    <3>2. In(s, s[k - 1].i)
      BY <2>1, Zenon DEF In
    <3>. QED  BY <3>1, <3>2
  <2>4. s[k - 1].i # s[Len(s)].i /\ s[Len(s)].i = LASTPAGE
    <3>1. \A j, m \in 1..Len(s) : j # m => s[j].i # s[m].i
      BY <1>0 DEF ListOK
    <3>2. s[Len(s)] = Ptr(LASTPAGE, PHYSICAL)
      BY <1>0 DEF ListOK
    <3>3. s[k - 1].i # s[Len(s)].i
      BY <2>1, <3>1, Zenon
    <3>. QED  BY <3>2, <3>3, PtrEq
  <2>. QED  BY <2>1, <2>2, <2>3, <2>4 DEF Member, s
<1>14. p.i # LASTPAGE
  BY <1>0
<1>15. C0 \in [0..LASTPAGE -> Nat] /\ RunsOK(N, C0) /\ EndsOK(N, C0, top)
  BY <1>10 DEF CountsView
<1>16. CountsView(C1, C0, N, top)
  BY <1>9, <1>11, <1>12, <1>14, <1>15, AbsorbRuns
<1> HIDE DEF C1
<1>17. C1 \in [0..LASTPAGE -> Nat] /\ RunsOK(N, C1) /\ EndsOK(N, C1, top)
  BY <1>16 DEF CountsView
<1>18. CountsView(C2, C1, N, top)
  <2>1. CASE k = 1
    BY <1>17, <2>1 DEF CountsView
  <2>2. CASE k # 1
    <3>1. CountsView(Absorb(C1, s[k - 1], p), C1, N, top)
      BY <1>9, <1>11, <1>13, <1>17, <2>2, AbsorbRuns
    <3>. QED  BY <2>2, <3>1
  <2>. QED  BY <2>1, <2>2
<1> HIDE DEF C2
<1>19. /\ C2 \in [0..LASTPAGE -> Nat] /\ RunsOK(N, C2) /\ EndsOK(N, C2, top)
       /\ \A x \in 0..LASTPAGE : ~In(N, x) => C2[x] = count[x]
  BY <1>10, <1>16, <1>18 DEF CountsView
<1>20. FreeOK(B, top)
  <2>1. N \in Seq(PtrType) /\ N # <<>>
    BY <1>9 DEF ListOK
  <2>. QED  BY <1>0, <1>2, <1>9, <1>19, <2>1 DEF FreeOK
<1>21. \A x : In(N, x) <=> In(s, x) \/ x \in p.i..(p.i + n - 1)
  BY <1>8 DEF PutListView
<1>. QED  BY <1>2, <1>19, <1>20, <1>21 DEF PutView, B, s, count

-----------------------------------------------------------------------------
(* alloc_page(): the first elements of the list are neighbours in memory,   *)
(* as far as the first count says so.  The first one that were not would    *)

-----------------------------------------------------------------------------
(* alloc_page(): the first elements of the list are neighbours in memory,   *)
(* as far as the first count says so.  The first one that were not would    *)
(* have to stand between two neighbours.                                    *)
FirstView(s, h, n, a) ==
  \A j \in 1..n : j \in 1..(Len(s) - 1) /\ s[j] = Ptr(h + (j - 1), a)

LEMMA FirstPages ==
  ASSUME NEW s, ListOK(s), NEW count \in [0..LASTPAGE -> Nat], RunsOK(s, count),
         NEW n \in Nat, n > 0, NEW h,
         NEW a \in {PHYSICAL, LINEAR}, s[1] = Ptr(h, a), h + n <= LASTPAGE, n <= count[h]
  PROVE  FirstView(s, h, n, a)
<1> DEFINE Good(j) == j \in 1..(Len(s) - 1) /\ s[j] = Ptr(h + (j - 1), a)
           Bad == {j \in 1..n : ~Good(j)}
<1>0. /\ s \in Seq(PtrType) /\ Len(s) \in Nat /\ Len(s) > 0 /\ s[Len(s)] = Ptr(LASTPAGE, PHYSICAL)
      /\ \A j, k \in 1..(Len(s) - 1) : j < k => Above(s[k], s[j])
      /\ LASTPAGE \in Nat
  <2>1. /\ s \in Seq(PtrType) /\ Len(s) > 0 /\ s[Len(s)] = Ptr(LASTPAGE, PHYSICAL)
        /\ \A j, k \in 1..(Len(s) - 1) : j < k => Above(s[k], s[j])
    BY DEF ListOK
  <2>2. Len(s) \in Nat
    BY <2>1
  <2>. QED  BY <2>1, <2>2, LastNat
<1>1. \A j \in 1..(Len(s) - 1) : s[j] \in PtrType /\ s[j].i \in Nat /\ s[j].a \in Nat
  <2>1. \A j \in 1..(Len(s) - 1) : j \in 1..Len(s)
    BY <1>0
  <2>. QED  BY <1>0, <2>1, PtrFacts
<1>2. h \in Nat /\ s[1] \in PtrType /\ h < LASTPAGE /\ s[1].i = h
  <2>1. s[1] \in PtrType /\ s[1].i = h
    BY <1>0, PtrEq
  <2>2. h \in Nat
    BY <2>1, PtrFacts
  <2>. QED  BY <1>0, <2>1, <2>2
<1>3. Good(1)
  <2>1. s[1].i # LASTPAGE
    BY <1>0, <1>2
  <2>2. Len(s) # 1
    BY <1>0, <2>1, PtrEq
  <2>3. 1 \in 1..(Len(s) - 1)
    <3>1. Len(s) \in Nat /\ Len(s) > 0
      BY <1>0
    <3>2. \A l \in Nat : l > 0 /\ l # 1 => 1 \in 1..(l - 1)
      OBVIOUS
    <3>. QED  BY <2>2, <3>1, <3>2, Zenon
  <2>4. h + (1 - 1) = h
    BY <1>2
  <2>. QED  BY <2>3, <2>4
<1> SUFFICES ASSUME Bad # {}  PROVE FALSE
  BY DEF FirstView
<1>4. PICK j \in Bad : \A m \in Bad : j <= m
  <2>1. Bad \subseteq Nat
    OBVIOUS
  <2> HIDE DEF Bad
  <2>. QED  BY <2>1, Least
<1>5. j \in 1..n /\ ~Good(j) /\ j # 1
  BY <1>3, <1>4
<1>6. j - 1 \in 1..n /\ j \in Nat /\ j >= 2 /\ ~(j <= j - 1) /\ j - 1 \in Nat /\ j <= n
  BY <1>5
<1>7. Good(j - 1)
  BY <1>4, <1>6
<1> DEFINE x == h + (j - 1)
<1>8. x \in 0..(LASTPAGE - 1) /\ h \in 0..(LASTPAGE - 1) /\ h < x /\ x < h + count[h] /\ x \in Nat
  <2>1. h \in 0..LASTPAGE /\ count[h] \in Nat
    BY <1>0, <1>2
  <2>. QED  BY <1>0, <1>2, <1>6, <2>1
<1>9. At(s, x, a)
  <2>1. At(s, h, a)
    <3>1. h + (1 - 1) = h
      BY <1>2
    <3>. QED  BY <1>3, <3>1 DEF At
  <2> HIDE DEF x
  <2>. QED  BY <1>8, <2>1 DEF RunsOK
<1>10. PICK m \in 1..(Len(s) - 1) : s[m] = Ptr(x, a)
  BY <1>9 DEF At
<1>11. s[m].i = x /\ s[m].a = a /\ s[j - 1].i = x - 1 /\ s[j - 1].a = a /\ j - 1 \in 1..(Len(s) - 1)
  <2>1. h + ((j - 1) - 1) = x - 1
    BY <1>2, <1>6
  <2>2. s[j - 1] = Ptr(x - 1, a) /\ j - 1 \in 1..(Len(s) - 1)
    BY <1>7, <2>1
  <2> HIDE DEF x
  <2>. QED  BY <1>10, <2>2, PtrEq
<1> HIDE DEF x
<1>12. m # j - 1
  <2>1. x # x - 1
    BY <1>8
  <2>. QED  BY <1>11, <2>1, Zenon
<1>13. ~(m < j - 1)
  <2>1. ~Above(s[j - 1], s[m])
    BY <1>8, <1>11 DEF Above, PHYSICAL, LINEAR
  <2>. QED  BY <1>0, <1>11, <2>1
<1>14. j \in 1..(Len(s) - 1) /\ j <= m /\ j - 1 < j
  <2>1. m \in Nat /\ m <= Len(s) - 1 /\ j <= m
    BY <1>0, <1>6, <1>12, <1>13
  <2>. QED  BY <1>0, <1>6, <2>1
<1>15. m # j
  BY <1>5, <1>10, <1>14 DEF x
<1>16. j < m
  BY <1>14, <1>15
<1>17. Above(s[m], s[j]) /\ Above(s[j], s[j - 1])
  BY <1>0, <1>11, <1>14, <1>16
<1>18. s[j].i \in Nat /\ s[j].a \in Nat /\ a \in Nat
  BY <1>1, <1>14 DEF PHYSICAL, LINEAR
<1>19. s[j].a = a /\ s[j].i < x /\ s[j].i > x - 1
  BY <1>11, <1>17, <1>18 DEF Above
<1>. QED  BY <1>8, <1>18, <1>19

(* What is left of the list when its first n elements are unlinked. *)
SuffixView(N, s, n) ==
  /\ ListOK(N) /\ Len(N) = Len(s) - n /\ N[1] = s[n + 1] /\ In(N, s[n + 1].i)
  /\ \A x : In(N, x) => In(s, x)
  /\ \A x : In(s, x) => In(N, x) \/ \E m \in 1..n : s[m].i = x
  /\ \A m \in 1..n : ~In(N, s[m].i)
  /\ \A x, a : At(N, x, a) => At(s, x, a)
  /\ \A x, a : At(N, x, a) /\ At(s, s[1].i, a) => x > s[1].i
  /\ \A x, y, a : At(N, x, a) /\ At(s, y, a) /\ x < y => At(N, y, a)
  /\ \A x, a : At(N, x, a) /\ At(N, s[n + 1].i, a) => s[n + 1].i <= x
  /\ s[n + 1].i = LASTPAGE => \A x, a : ~At(N, x, a)

LEMMA SuffixList ==
  ASSUME NEW s, ListOK(s), NEW n \in Nat, n > 0, n < Len(s)
  PROVE  SuffixView(SubSeq(s, n + 1, Len(s)), s, n)
<1> DEFINE N == SubSeq(s, n + 1, Len(s))
<1>0. /\ s \in Seq(PtrType) /\ Len(s) \in Nat /\ Len(s) > 0
      /\ \A j, k \in 1..(Len(s) - 1) : j < k => Above(s[k], s[j])
      /\ \A j, k \in 1..Len(s) : j # k => s[j].i # s[k].i
  BY DEF ListOK
<1>1. n + 1 <= Len(s)
  BY <1>0
<1>2. /\ N \in Seq(PtrType) /\ Len(N) = Len(s) - n
      /\ \A j \in 1..(Len(s) - n) : N[j] = s[n + j]
  <2>1. N \in Seq(PtrType) /\ Len(N) = Len(s) - n
    BY <1>0, <1>1
  <2>2. \A j \in 1..(Len(s) - n) : N[j] = s[(n + 1) + j - 1] /\ (n + 1) + j - 1 = n + j
    BY <1>0, <1>1
  <2>. QED  BY <2>1, <2>2
<1> HIDE DEF N
<1>3. \A j \in 1..Len(s) : s[j] \in PtrType /\ s[j].i \in Nat /\ s[j].a \in Nat
  BY <1>0, PtrFacts
<1>4. /\ \A j \in 1..Len(N) : n + j \in 1..Len(s) /\ N[j] = s[n + j] /\ ~(n + j \in 1..n)
      /\ \A j \in 1..(Len(N) - 1) : /\ j \in 1..Len(N) /\ n + j \in 1..(Len(s) - 1) /\ n < n + j
                                    /\ n + j \in (n + 1)..(Len(s) - 1)
  <2>1. /\ \A j \in 1..Len(N) : n + j \in 1..Len(s) /\ j \in 1..(Len(s) - n) /\ ~(n + j \in 1..n)
        /\ \A j \in 1..(Len(N) - 1) : /\ j \in 1..Len(N) /\ n + j \in 1..(Len(s) - 1) /\ n < n + j
                                      /\ n + j \in (n + 1)..(Len(s) - 1)
    BY <1>0, <1>1, <1>2
  <2>. QED  BY <1>2, <2>1
<1>5. \A m \in 1..Len(s) : m \in 1..n \/ (m - n \in 1..Len(N) /\ N[m - n] = s[m])
  <2>1. \A m \in 1..Len(s) : m \in 1..n \/ (/\ m - n \in 1..Len(N) /\ m - n \in 1..(Len(s) - n)
                                            /\ n + (m - n) = m)
    BY <1>0, <1>1, <1>2
  <2>. QED  BY <1>2, <2>1
<1>6. ListOK(N)
  <2>1. Len(N) > 0 /\ Len(N) \in 1..(Len(s) - n) /\ n + Len(N) = Len(s)
    BY <1>0, <1>1, <1>2
  <2>2. N[Len(N)] = Ptr(LASTPAGE, PHYSICAL)
    BY <1>2, <2>1 DEF ListOK
  <2>3. ASSUME NEW j \in 1..(Len(N) - 1), NEW k \in 1..(Len(N) - 1), j < k
        PROVE  Above(N[k], N[j])
    <3>1. n + j < n + k
      BY <2>3
    <3>. QED  BY <1>0, <1>4, <3>1
  <2>4. ASSUME NEW j \in 1..Len(N), NEW k \in 1..Len(N), j # k
        PROVE  N[j].i # N[k].i
    <3>1. n + j # n + k
      BY <2>4
    <3>2. n + j \in 1..Len(s) /\ n + k \in 1..Len(s) /\ N[j] = s[n + j] /\ N[k] = s[n + k]
      BY <1>4
    <3> DEFINE u == n + j
               v == n + k
    <3>3. u \in 1..Len(s) /\ v \in 1..Len(s) /\ N[j] = s[u] /\ N[k] = s[v] /\ u # v
      BY <3>1, <3>2
    <3> HIDE DEF u, v
    <3>. QED  BY <1>0, <3>3
  <2>. QED  BY <1>2, <2>1, <2>2, <2>3, <2>4 DEF ListOK
<1>7. \A m \in 1..n : m \in 1..Len(s)
  BY <1>0, <1>1
<1>8. \A x : In(N, x) => In(s, x)
  BY <1>4 DEF In
<1>9. \A x : In(s, x) => In(N, x) \/ \E m \in 1..n : s[m].i = x
  BY <1>5 DEF In
<1>10. \A m \in 1..n : ~In(N, s[m].i)
  <2> SUFFICES ASSUME NEW m \in 1..n, NEW j \in 1..Len(N), N[j].i = s[m].i  PROVE FALSE
    BY DEF In
  <2> DEFINE v == n + j
  <2>1. v \in 1..Len(s) /\ N[j] = s[v] /\ v # m /\ m \in 1..Len(s)
    BY <1>4, <1>7
  <2> HIDE DEF v
  <2>. QED  BY <1>0, <2>1
(* The elements before the last, by their places in the old list. *)
<1>11. \A x, a : At(N, x, a) <=> \E m \in (n + 1)..(Len(s) - 1) : s[m] = Ptr(x, a)
  <2>1. ASSUME NEW x, NEW a, At(N, x, a)
        PROVE  \E m \in (n + 1)..(Len(s) - 1) : s[m] = Ptr(x, a)
    BY <1>4, <2>1 DEF At
  <2>2. ASSUME NEW x, NEW a, NEW m \in (n + 1)..(Len(s) - 1), s[m] = Ptr(x, a)  PROVE At(N, x, a)
    <3>1. m \in 1..Len(s) /\ m \notin 1..n /\ m - n \in 1..(Len(N) - 1)
      BY <1>0, <1>1, <1>2
    <3>2. N[m - n] = s[m]
      BY <1>5, <3>1
    <3>. QED  BY <2>2, <3>1, <3>2 DEF At
  <2>. QED  BY <2>1, <2>2
<1>12. \A m \in (n + 1)..(Len(s) - 1) : m \in 1..(Len(s) - 1) /\ m \in 1..Len(s) /\ m # 1 /\ 1 < m
                                       /\ 1 \in 1..(Len(s) - 1)
  BY <1>0, <1>1
<1>13. \A x, a : At(N, x, a) => At(s, x, a)
  BY <1>11, <1>12 DEF At
(* In the order of the list, pages of the same kind grow. *)
<1>14. ASSUME NEW j \in 1..(Len(s) - 1), NEW m \in 1..(Len(s) - 1),
              NEW x, NEW y, NEW a, s[j] = Ptr(x, a), s[m] = Ptr(y, a)
       PROVE  x \in Nat /\ y \in Nat /\ (j < m => x < y) /\ (x < y => j < m)
  <2>1. /\ s[j].i = x /\ s[j].a = a /\ s[m].i = y /\ s[m].a = a
        /\ j \in 1..Len(s) /\ m \in 1..Len(s) /\ j \in Nat /\ m \in Nat
    BY <1>0, <1>14, PtrEq
  <2>2. x \in Nat /\ y \in Nat /\ a \in Nat
    BY <1>3, <2>1
  <2>3. j < m => x < y
    <3>1. j < m => Above(s[m], s[j])
      BY <1>0
    <3>. QED  BY <2>1, <2>2, <3>1 DEF Above
  <2>4. m < j => y < x
    <3>1. m < j => Above(s[j], s[m])
      BY <1>0
    <3>. QED  BY <2>1, <2>2, <3>1 DEF Above
  <2>5. m = j => x = y
    BY <2>1
  <2>. QED  BY <2>1, <2>2, <2>3, <2>4, <2>5
<1>15. ASSUME NEW x, NEW y, NEW a, At(N, x, a), At(s, y, a), x < y  PROVE At(N, y, a)
  <2>1. PICK j \in (n + 1)..(Len(s) - 1) : s[j] = Ptr(x, a)
    BY <1>11, <1>15
  <2>2. PICK m \in 1..(Len(s) - 1) : s[m] = Ptr(y, a)
    BY <1>15 DEF At
  <2>3. j < m
    BY <1>12, <1>14, <1>15, <2>1, <2>2
  <2>4. m \in (n + 1)..(Len(s) - 1)
    BY <1>0, <2>3
  <2>. QED  BY <1>11, <2>2, <2>4
<1>16. ASSUME NEW x, NEW a, At(N, x, a), At(s, s[1].i, a)  PROVE x > s[1].i
  <2>1. PICK j \in (n + 1)..(Len(s) - 1) : s[j] = Ptr(x, a)
    BY <1>11, <1>16
  <2>2. PICK m \in 1..(Len(s) - 1) : s[m] = Ptr(s[1].i, a)
    BY <1>16 DEF At
  <2>3. m = 1
    <3>1. s[m].i = s[1].i /\ m \in 1..Len(s) /\ 1 \in 1..Len(s)
      BY <1>0, <2>2, PtrEq
    <3>. QED  BY <1>0, <3>1
  <2>4. s[1].i \in Nat /\ x \in Nat /\ s[1].i < x
    BY <1>12, <1>14, <2>1, <2>2, <2>3
  <2>. QED  BY <2>4
<1>17. N[1] = s[n + 1] /\ 1 \in 1..Len(N)
  <2>1. 1 \in 1..(Len(s) - n) /\ 1 \in 1..Len(N)
    BY <1>0, <1>1, <1>2
  <2>. QED  BY <1>2, <2>1
<1>18. ASSUME NEW x, NEW a, At(N, x, a), At(N, s[n + 1].i, a)  PROVE s[n + 1].i <= x
  <2>1. PICK j \in (n + 1)..(Len(s) - 1) : s[j] = Ptr(x, a)
    BY <1>11, <1>18
  <2>2. PICK m \in (n + 1)..(Len(s) - 1) : s[m] = Ptr(s[n + 1].i, a)
    BY <1>11, <1>18
  <2>3. m = n + 1
    <3>1. s[m].i = s[n + 1].i /\ m \in 1..Len(s) /\ n + 1 \in 1..Len(s)
      BY <1>0, <1>1, <1>12, <2>2, PtrEq
    <3>. QED  BY <1>0, <3>1
  <2>4. m <= j
    BY <1>0, <2>3
  <2>5. s[n + 1].i \in Nat /\ x \in Nat /\ (m < j => s[n + 1].i < x)
    BY <1>12, <1>14, <2>1, <2>2
  <2>6. m = j => s[n + 1].i = x
    BY <2>1, <2>2, PtrEq
  <2>. QED  BY <2>4, <2>5, <2>6
<1>19. ASSUME s[n + 1].i = LASTPAGE, NEW x, NEW a, At(N, x, a)  PROVE FALSE
  <2>1. PICK j \in (n + 1)..(Len(s) - 1) : s[j] = Ptr(x, a)
    BY <1>11, <1>19
  <2>2. n + 1 \in 1..Len(s) /\ Len(s) \in 1..Len(s) /\ n + 1 # Len(s)
    BY <1>0, <1>1, <2>1
  <2>3. s[Len(s)].i = LASTPAGE
    BY PtrEq DEF ListOK
  <2>. QED  BY <1>0, <1>19, <2>2, <2>3
<1>20. In(N, s[n + 1].i)
  BY <1>17 DEF In
<1>. QED  BY <1>2, <1>6, <1>8, <1>9, <1>10, <1>13, <1>15, <1>16, <1>17, <1>18, <1>19, <1>20
          DEF SuffixView, N

(* How far the first block reaches. *)
ReachView(s, count, top, h, a) ==
  /\ h \in Nat /\ h \in 0..LASTPAGE /\ count[h] \in Nat
  /\ h + count[h] <= top
  /\ a = LINEAR => h + count[h] <= LASTPAGE
  /\ Len(s) = 1 => h = LASTPAGE
  /\ Len(s) > 1 => /\ At(s, h, a) /\ h < LASTPAGE /\ h \in 0..(LASTPAGE - 1)
                   /\ LASTPAGE < h + count[h] => count[LASTPAGE] = 0

LEMMA Reach ==
  ASSUME NEW s, ListOK(s), NEW top, IsTop(top),
         NEW count \in [0..LASTPAGE -> Nat], EndsOK(s, count, top),
         NEW h, NEW a \in {PHYSICAL, LINEAR}, s[1] = Ptr(h, a)
  PROVE  ReachView(s, count, top, h, a)
<1>0. s \in Seq(PtrType) /\ Len(s) \in Nat /\ Len(s) > 0 /\ s[Len(s)] = Ptr(LASTPAGE, PHYSICAL)
  BY DEF ListOK
<1>1. s[1] \in PtrType /\ s[1].i = h /\ s[1].a = a
  BY <1>0, PtrEq
<1>2. h \in Nat /\ h \in 0..LASTPAGE /\ count[h] \in Nat /\ LASTPAGE \in Nat /\ count[LASTPAGE] \in Nat
  <2>1. h \in 0..LASTPAGE /\ h \in Nat
    BY <1>1, PtrFacts
  <2>2. LASTPAGE \in Nat /\ LASTPAGE \in 0..LASTPAGE
    BY LastNat
  <2>. QED  BY <2>1, <2>2
<1>3. /\ \A x : At(s, x, PHYSICAL) => /\ x + count[x] <= top
                                      /\ LASTPAGE < x + count[x] => count[LASTPAGE] = 0
      /\ \A x : At(s, x, LINEAR) => x + count[x] <= LASTPAGE
      /\ LASTPAGE + count[LASTPAGE] <= top
      /\ top \in Nat /\ LASTPAGE <= top
  BY DEF EndsOK, IsTop
<1>4. CASE Len(s) = 1
  <2>1. h = LASTPAGE /\ a = PHYSICAL
    BY <1>0, <1>1, <1>4, PtrEq
  <2>. QED  BY <1>2, <1>3, <1>4, <2>1 DEF ReachView, PHYSICAL, LINEAR
<1>5. CASE Len(s) # 1
  <2>1. 1 \in 1..(Len(s) - 1)
    <3>1. \A k \in Nat : k > 0 /\ k # 1 => 1 \in 1..(k - 1)
      OBVIOUS
    <3>. QED  BY <1>0, <1>5, <3>1, Zenon
  <2>2. At(s, h, a)
    BY <2>1 DEF At
  <2>3. h < LASTPAGE /\ h \in 0..(LASTPAGE - 1)
    BY <2>2, AtIn
  <2>4. CASE a = PHYSICAL
    BY <1>2, <1>3, <1>5, <2>2, <2>3, <2>4 DEF ReachView, PHYSICAL, LINEAR
  <2>5. CASE a = LINEAR
    <3>1. h + count[h] <= LASTPAGE
      BY <1>3, <2>2, <2>5
    <3>2. h + count[h] <= top /\ ~(LASTPAGE < h + count[h])
      BY <1>2, <1>3, <3>1
    <3>. QED  BY <1>2, <1>5, <2>2, <2>3, <3>1, <3>2 DEF ReachView
  <2>. QED  BY <2>4, <2>5
<1>. QED  BY <1>4, <1>5

(* The first page out of bounds when pages h .. h + n - 1 have been handed  *)
(* out.                                                                     *)
TopAfter(top, h, n) == IF h + n = NPages THEN LASTPAGE ELSE top

LEMMA TakeCounts ==
  ASSUME NEW s, ListOK(s), NEW top, IsTop(top),
         NEW count \in [0..LASTPAGE -> Nat], RunsOK(s, count), EndsOK(s, count, top),
         NEW n \in Nat, n > 0, n < Len(s), NEW h, NEW a \in {PHYSICAL, LINEAR},
         s[1] = Ptr(h, a), n <= count[h],
         NEW N, SuffixView(N, s, n)
  PROVE  CountsView([count EXCEPT ![s[n + 1].i] = count[h] - n], count, N, TopAfter(top, h, n))
<1> DEFINE l == s[n + 1].i
           r == count[h] - n
           B == [count EXCEPT ![l] = r]
<1>0. ListOK(N) /\ Len(N) = Len(s) - n /\ N[1] = s[n + 1] /\ In(N, l)
  BY DEF SuffixView
<1>1. LASTPAGE \in Nat /\ NPages = LASTPAGE + 1 /\ s \in Seq(PtrType) /\ Len(s) \in Nat
      /\ top \in Nat /\ LASTPAGE <= top /\ top <= LASTPAGE + 1
  BY LastNat DEF ListOK, IsTop
<1>2. /\ \A x, b : At(N, x, b) => At(s, x, b)
      /\ \A x, b : At(N, x, b) /\ At(s, s[1].i, b) => x > s[1].i
      /\ \A x, y, b : At(N, x, b) /\ At(s, y, b) /\ x < y => At(N, y, b)
      /\ \A x, b : At(N, x, b) /\ At(N, l, b) => l <= x
      /\ l = LASTPAGE => \A x, b : ~At(N, x, b)
      /\ \A m \in 1..n : ~In(N, s[m].i)
  BY DEF SuffixView
<1>3. /\ At(s, h, a) /\ h \in Nat /\ h < LASTPAGE /\ h \in 0..LASTPAGE /\ h \in 0..(LASTPAGE - 1)
      /\ count[h] \in Nat /\ h + count[h] <= top /\ (a = LINEAR => h + count[h] <= LASTPAGE)
      /\ LASTPAGE < h + count[h] => count[LASTPAGE] = 0
  <2>1. Len(s) > 1
    BY <1>1
  <2>2. ReachView(s, count, top, h, a)
    BY Reach
  <2>. QED  BY <2>1, <2>2 DEF ReachView
<1>4. l \in 0..LASTPAGE /\ l \in Nat
  <2>1. N[1] \in PtrType
    BY <1>0 DEF ListOK
  <2>. QED  BY <1>0, <2>1, PtrFacts
<1>5. r \in Nat /\ count[h] = n + r
  BY <1>3
<1>6. B \in [0..LASTPAGE -> Nat] /\ B[l] = r /\ \A x \in 0..LASTPAGE : x # l => B[x] = count[x]
  BY <1>4, <1>5
<1>7. s[1].i = h
  BY PtrEq
(* The rest of the block, if it goes on below the last page, comes next.    *)
<1>8. h + n + 1 <= LASTPAGE /\ r > 0 => l = h + n /\ s[n + 1].a = a
  <2> SUFFICES ASSUME h + n + 1 <= LASTPAGE, r > 0  PROVE l = h + n /\ s[n + 1].a = a
    OBVIOUS
  <2>1. h + (n + 1) <= LASTPAGE /\ n + 1 <= count[h] /\ n + 1 \in Nat /\ n + 1 > 0 /\ n + 1 \in 1..(n + 1)
    BY <1>1, <1>3, <1>5
  <2>2. FirstView(s, h, n + 1, a)
    BY <2>1, FirstPages
  <2>3. s[n + 1] = Ptr(h + ((n + 1) - 1), a)
    BY <2>1, <2>2 DEF FirstView
  <2>4. h + ((n + 1) - 1) = h + n
    BY <1>3
  <2>. QED  BY <2>3, <2>4, PtrEq
(* At the last page one is left at most. *)
<1>9. ~(h + n + 1 <= LASTPAGE) => r <= 1 /\ (r = 1 => h + n = LASTPAGE /\ top = LASTPAGE + 1)
  <2> DEFINE c == count[h]
             t == top
             z == LASTPAGE
  <2>1. /\ c \in Nat /\ r \in Nat /\ c = n + r /\ h \in Nat /\ h + c <= t /\ t <= z + 1 /\ t \in Nat
        /\ z \in Nat
    BY <1>1, <1>3, <1>5
  <2> HIDE DEF c, t, z, r
  <2>2. ~(h + n + 1 <= z) => r <= 1 /\ (r = 1 => h + n = z /\ t = z + 1)
    BY <2>1
  <2>. QED  BY <2>2 DEF t, z
<1>10. \A x, b : At(N, x, b) => x \in 0..LASTPAGE /\ x \in Nat /\ x < LASTPAGE
  BY <1>0, AtIn
<1>11. \A b : At(N, l, b) => b = s[n + 1].a
  <2>1. Member(N, s[n + 1])
    <3>1. 1 \in 1..Len(N)
      BY <1>0 DEF ListOK
    <3>. QED  BY <1>0, <3>1 DEF Member
  <2>. QED  BY <1>0, <2>1, MemberIs
<1> DEFINE la == s[n + 1].a
<1> HIDE DEF B, l, r, la
<1>12. \A x \in 0..(LASTPAGE - 1) : x \in 0..LASTPAGE /\ x \in Nat /\ count[x] \in Nat
  BY <1>1
<1>13. \A b \in {PHYSICAL, LINEAR} : \A x, y \in 0..(LASTPAGE - 1) :
         At(s, x, b) /\ x < y /\ y < x + count[x] => At(s, y, b) /\ count[y] = 0
  BY DEF RunsOK
<1>14. ASSUME NEW b \in {PHYSICAL, LINEAR},
              NEW x \in 0..(LASTPAGE - 1), NEW y \in 0..(LASTPAGE - 1),
              At(N, x, b), x < y, y < x + B[x]
       PROVE  At(N, y, b) /\ B[y] = 0
  <2>1. CASE x # l
    <3>1. B[x] = count[x]
      BY <1>6, <1>12, <2>1
    <3>2. At(s, y, b) /\ count[y] = 0
      BY <1>2, <1>13, <1>14, <3>1
    <3>3. At(N, y, b)
      BY <1>2, <1>14, <3>2
    <3>4. y # l
      BY <1>2, <1>12, <1>14, <3>3
    <3>. QED  BY <1>6, <1>12, <3>2, <3>3, <3>4
  <2>2. CASE x = l
    <3>1. r > 1 /\ y < l + r
      BY <1>4, <1>5, <1>6, <1>12, <1>14, <2>2
    <3>2. l = h + n /\ la = a
      BY <1>5, <1>8, <1>9, <3>1 DEF la
    <3>3. b = a
      BY <1>11, <1>14, <2>2, <3>2 DEF la
    <3>4. h < y /\ y < h + count[h] /\ y # l
      BY <1>3, <1>5, <1>12, <1>14, <2>2, <3>1, <3>2
    <3>5. At(s, y, a) /\ count[y] = 0
      BY <1>3, <1>13, <3>4
    <3>6. At(N, y, b)
      BY <1>2, <1>14, <3>3, <3>5
    <3>. QED  BY <1>6, <1>12, <3>4, <3>5, <3>6
  <2>. QED  BY <2>1, <2>2
<1>15. RunsOK(N, B)
  BY <1>14 DEF RunsOK
<1>16. \A x \in 0..LASTPAGE : ~In(N, x) => B[x] = count[x]
  BY <1>0, <1>6 DEF l
<1> DEFINE after == TopAfter(top, h, n)
<1>17. after = IF h + n = LASTPAGE + 1 THEN LASTPAGE ELSE top
  BY <1>1 DEF TopAfter
<1> HIDE DEF after
<1>18. /\ \A x : At(s, x, PHYSICAL) => /\ x + count[x] <= top
                                       /\ LASTPAGE < x + count[x] => count[LASTPAGE] = 0
       /\ \A x : At(s, x, LINEAR) => x + count[x] <= LASTPAGE
       /\ LASTPAGE + count[LASTPAGE] <= top
  BY DEF EndsOK
<1>19. count[LASTPAGE] \in Nat
  BY <1>1
<1>20. LASTPAGE + B[LASTPAGE] <= after
  <2>1. CASE l # LASTPAGE
    <3>1. B[LASTPAGE] = count[LASTPAGE]
      BY <1>1, <1>6, <2>1
    <3>. QED  BY <1>1, <1>3, <1>5, <1>17, <1>18, <1>19, <3>1
  <2>2. CASE l = LASTPAGE
    <3>1. B[LASTPAGE] = r
      BY <1>6, <2>2
    <3>2. r = 0 \/ (r = 1 /\ h + n = LASTPAGE /\ top = LASTPAGE + 1)
      BY <1>1, <1>3, <1>5, <1>8, <1>9, <2>2
    <3>. QED  BY <1>1, <1>17, <3>1, <3>2
  <2>. QED  BY <2>1, <2>2
(* When the last page is handed out no other physical one is left. *)
<1>21. h + n = LASTPAGE + 1 => \A x : ~At(N, x, PHYSICAL)
  <2> SUFFICES ASSUME h + n = LASTPAGE + 1, NEW x, At(N, x, PHYSICAL)  PROVE FALSE
    OBVIOUS
  <2>1. a = PHYSICAL
    BY <1>1, <1>3, <1>5
  <2>2. x \in Nat /\ x > h /\ x < LASTPAGE /\ In(N, x)
    BY <1>0, <1>2, <1>3, <1>7, <1>10, <2>1, AtIn
  <2> DEFINE m == n - 1
             j == x - h + 1
  <2>3. m \in Nat /\ m > 0 /\ h + m <= LASTPAGE /\ m <= count[h] /\ j \in 1..m /\ j \in 1..n /\ h + (j - 1) = x
    BY <1>1, <1>3, <1>5, <2>2
  <2> HIDE DEF m, j
  <2>4. FirstView(s, h, m, a)
    BY <2>3, FirstPages
  <2>5. s[j] = Ptr(x, a)
    BY <2>3, <2>4 DEF FirstView
  <2>6. s[j].i = x
    BY <2>5, PtrEq
  <2>. QED  BY <1>2, <2>2, <2>3, <2>6
<1>22. ASSUME NEW x, At(N, x, PHYSICAL)
       PROVE  x + B[x] <= after /\ (LASTPAGE < x + B[x] => B[LASTPAGE] = 0)
  <2>0. x \in 0..LASTPAGE /\ x \in Nat /\ x < LASTPAGE /\ l # LASTPAGE /\ after = top
    BY <1>2, <1>10, <1>17, <1>21, <1>22
  <2>1. B[LASTPAGE] = count[LASTPAGE]
    BY <1>1, <1>6, <2>0
  <2>2. CASE x # l
    BY <1>2, <1>6, <1>18, <1>22, <2>0, <2>1, <2>2
  <2>3. CASE x = l
    <3>1. B[x] = r
      BY <1>6, <2>3
    <3>2. CASE r = 0 \/ r = 1
      BY <1>1, <1>5, <2>0, <3>1, <3>2
    <3>3. CASE r > 1
      <4>1. l = h + n
        BY <1>5, <1>8, <1>9, <3>3
      <4>2. x + B[x] = h + count[h]
        BY <1>3, <1>5, <2>3, <3>1, <4>1
      <4>. QED  BY <1>3, <2>0, <2>1, <4>2
    <3>. QED  BY <1>5, <3>2, <3>3
  <2>. QED  BY <2>2, <2>3
<1>23. ASSUME NEW x, At(N, x, LINEAR)  PROVE x + B[x] <= LASTPAGE
  <2>0. x \in 0..LASTPAGE /\ x \in Nat /\ x < LASTPAGE
    BY <1>10, <1>23
  <2>1. CASE x # l
    BY <1>2, <1>6, <1>18, <1>23, <2>0, <2>1
  <2>2. CASE x = l
    <3>1. B[x] = r
      BY <1>6, <2>2
    <3>2. CASE r = 0 \/ r = 1
      BY <1>1, <1>5, <2>0, <3>1, <3>2
    <3>3. CASE r > 1
      <4>1. l = h + n /\ la = a
        BY <1>5, <1>8, <1>9, <3>3 DEF la
      <4>2. a = LINEAR
        BY <1>11, <1>23, <2>2, <4>1 DEF la
      <4>3. x + B[x] = h + count[h]
        BY <1>3, <1>5, <2>2, <3>1, <4>1
      <4>. QED  BY <1>3, <4>2, <4>3
    <3>. QED  BY <1>5, <3>2, <3>3
  <2>. QED  BY <2>1, <2>2
<1>24. EndsOK(N, B, after)
  BY <1>20, <1>22, <1>23 DEF EndsOK
<1>25. CountsView(B, count, N, after)
  BY <1>6, <1>15, <1>16, <1>24 DEF CountsView
<1>. QED  BY <1>25 DEF B, l, r, after

(* alloc_page(): the pages handed out were free, and are no longer in the   *)
(* list, the last page of memory aside; unless that one is among them, the  *)
(* list loses no other page.                                                *)
TakeView(B, A, h, n, top) ==
  /\ FreeOK(B, TopAfter(top, h, n)) /\ A.head # <<>>
  /\ h \in Nat /\ h + n <= top
  /\ \A x : In(B.head, x) => In(A.head, x)
  /\ \A x \in h..(h + n - 1) : In(A.head, x) /\ (In(B.head, x) => x = LASTPAGE)
  /\ h + n <= LASTPAGE => \A x : In(A.head, x) => In(B.head, x) \/ x \in h..(h + n - 1)
  /\ n = 1 => ~In(B.head, h)
  /\ \A x \in 0..LASTPAGE : ~In(B.head, x) => B.count[x] = A.count[x]
  /\ \A y \in (h + 1)..(h + n - 1) : y < LASTPAGE => B.count[y] = 0

LEMMA TakeKeeps ==
  ASSUME NEW A, NEW top, IsTop(top), FreeOK(A, top), NEW n \in Nat, n > 0, CanAlloc(A, n)
  PROVE  /\ TakeView(Take(A, n), A, A.head[1].i, n, top)
         /\ A.head[1].a \in {PHYSICAL, LINEAR}
<1> DEFINE s == A.head
           count == A.count
           h == A.head[1].i
           a == A.head[1].a
           N == SubSeq(s, n + 1, Len(s))
           B == Take(A, n)
           C == IF N = <<>> THEN count ELSE [count EXCEPT ![N[1].i] = count[h] - n]
<1>1. /\ s # <<>> /\ n <= A.num /\ count[h] >= n
  BY DEF CanAlloc
<1>2. /\ ListOK(s) /\ A.num = Len(s) /\ count \in [0..LASTPAGE -> Nat] /\ RunsOK(s, count)
      /\ EndsOK(s, count, top)
  BY <1>1 DEF FreeOK
<1>3. B = [head  |-> N, num |-> A.num - n, count |-> C]
  BY Zenon DEF Take
<1> HIDE DEF s, count, h, a, N, B, C
<1>4. B.head = N /\ B.num = A.num - n /\ B.count = C
  BY <1>3
<1>5. /\ s \in Seq(PtrType) /\ Len(s) \in Nat /\ Len(s) > 0 /\ s[Len(s)] = Ptr(LASTPAGE, PHYSICAL)
      /\ LASTPAGE \in Nat /\ NPages = LASTPAGE + 1
      /\ top \in Nat /\ LASTPAGE <= top /\ top <= LASTPAGE + 1
  <2>1. s \in Seq(PtrType) /\ Len(s) > 0 /\ s[Len(s)] = Ptr(LASTPAGE, PHYSICAL)
    BY <1>2 DEF ListOK
  <2>2. Len(s) \in Nat
    BY <2>1
  <2>3. LASTPAGE \in Nat /\ NPages = LASTPAGE + 1
    BY LastNat
  <2>. QED  BY <2>1, <2>2, <2>3 DEF IsTop
<1>6. s[1] \in PtrType /\ s[1] = Ptr(h, a) /\ h \in Nat /\ a \in {PHYSICAL, LINEAR} /\ s[1].i = h
  <2>1. s[1] \in PtrType
    BY <1>5
  <2>2. s[1] = Ptr(h, a) /\ s[1].i = h
    BY <2>1, PtrIs DEF s, h, a
  <2>3. a \in {PHYSICAL, LINEAR} /\ h \in Nat
    BY <2>1, PtrFacts DEF s, h, a, PHYSICAL, LINEAR
  <2>. QED  BY <2>1, <2>2, <2>3
<1>7. ReachView(s, count, top, h, a)
  BY <1>2, <1>6, Reach
<1>8. /\ h \in 0..LASTPAGE /\ count[h] \in Nat /\ h + count[h] <= top /\ h <= LASTPAGE
      /\ Len(s) = 1 => h = LASTPAGE
      /\ Len(s) > 1 => At(s, h, a) /\ h < LASTPAGE /\ h \in 0..(LASTPAGE - 1)
  BY <1>5, <1>7 DEF ReachView
<1>9. n <= count[h] /\ h + n <= top /\ n <= Len(s)
  BY <1>1, <1>2, <1>5, <1>6, <1>8
(* The pages below the last one are the first elements of the list. *)
<1>10. ASSUME NEW x \in h..(h + n - 1), x < LASTPAGE
       PROVE  \E j \in 1..n : j \in 1..(Len(s) - 1) /\ s[j].i = x
  <2> DEFINE j == x - h + 1
  <2>1. /\ j \in Nat /\ j > 0 /\ h + j <= LASTPAGE /\ j <= count[h] /\ j \in 1..j /\ j \in 1..n
        /\ h + (j - 1) = x
    BY <1>5, <1>6, <1>8, <1>9, <1>10
  <2> HIDE DEF j
  <2>2. FirstView(s, h, j, a)
    BY <1>2, <1>6, <2>1, FirstPages
  <2>3. j \in 1..(Len(s) - 1) /\ s[j] = Ptr(x, a)
    BY <2>1, <2>2 DEF FirstView
  <2>. QED  BY <2>1, <2>3, PtrEq
<1>11. \A x \in h..(h + n - 1) : x \in Nat /\ x <= LASTPAGE /\ (x = LASTPAGE \/ x < LASTPAGE)
                                 /\ x \in 0..LASTPAGE
  <2>1. h + n <= LASTPAGE + 1
    BY <1>5, <1>6, <1>9
  <2>. QED  BY <1>5, <1>6, <2>1
<1>12. \A x \in h..(h + n - 1) : In(s, x)
  <2>1. In(s, LASTPAGE)
    <3>1. Len(s) \in 1..Len(s) /\ s[Len(s)].i = LASTPAGE
      BY <1>5, PtrEq
    <3>. QED  BY <3>1 DEF In
  <2>2. \A j \in 1..(Len(s) - 1) : j \in 1..Len(s)
    BY <1>5
  <2>. QED  BY <1>10, <1>11, <2>1, <2>2 DEF In
<1>13. \A y \in (h + 1)..(h + n - 1) : y < LASTPAGE => y \in h..(h + n - 1) /\ count[y] = 0
  <2> SUFFICES ASSUME NEW y \in (h + 1)..(h + n - 1), y < LASTPAGE
               PROVE  y \in h..(h + n - 1) /\ count[y] = 0
    OBVIOUS
  <2>1. y \in h..(h + n - 1) /\ y \in 0..(LASTPAGE - 1) /\ h < y /\ y < h + count[h]
    <3>1. y \in h..(h + n - 1) /\ y \in Nat /\ h < y /\ y < h + n
      BY <1>6
    <3>2. h + n <= h + count[h] /\ h + count[h] \in Nat
      BY <1>6, <1>8, <1>9
    <3>. QED  BY <1>5, <1>6, <3>1, <3>2
  <2>2. Len(s) > 1
    <3>1. Len(s) # 1
      BY <1>5, <1>6, <1>8, <2>1
    <3>2. \A m \in Nat : m > 0 /\ m # 1 => m > 1
      OBVIOUS
    <3>. QED  BY <1>5, <3>1, <3>2, Zenon
  <2>. QED  BY <1>2, <1>6, <1>8, <2>1, <2>2 DEF RunsOK
<1>14. CASE n = Len(s)
  <2>1. N = <<>>
    BY <1>5, <1>14 DEF N
  <2>2. C = count
    BY <2>1 DEF C
  <2>3. FreeOK(B, TopAfter(top, h, n)) /\ \A x : ~In(B.head, x)
    <3>1. Len(N) = 0 /\ N \in Seq(PtrType) /\ A.num - n = 0
      BY <1>2, <1>5, <1>14, <2>1
    <3>. QED  BY <1>2, <1>4, <2>1, <2>2, <3>1 DEF FreeOK, In
  <2>4. ASSUME h + n <= LASTPAGE  PROVE FALSE
    <3>1. FirstView(s, h, n, a)
      BY <1>2, <1>6, <1>9, <2>4, FirstPages
    <3>2. n \in 1..n
      OBVIOUS
    <3>3. n \in 1..(Len(s) - 1)
      BY <3>1, <3>2 DEF FirstView
    <3>. QED  BY <1>5, <1>14, <3>3
  <2>5. TakeView(B, A, h, n, top)
    BY <1>1, <1>4, <1>6, <1>9, <1>12, <1>13, <2>2, <2>3, <2>4 DEF TakeView, s, count
  <2>. QED  BY <1>6, <2>5 DEF B, h, a
<1>15. CASE n # Len(s)
  <2>1. n < Len(s)
    BY <1>5, <1>9, <1>15
  <2>2. SuffixView(N, s, n)
    BY <1>2, <2>1, SuffixList DEF N
  <2>3. ListOK(N) /\ Len(N) = Len(s) - n /\ N[1] = s[n + 1] /\ N \in Seq(PtrType) /\ Len(N) > 0
    BY <2>2 DEF SuffixView, ListOK
  <2>4. N # <<>>
    BY <2>3
  <2>5. C = [count EXCEPT ![s[n + 1].i] = count[h] - n]
    BY <2>3, <2>4 DEF C
  <2>6. CountsView(C, count, N, TopAfter(top, h, n))
    BY <1>2, <1>6, <1>9, <2>1, <2>2, <2>5, TakeCounts
  <2>7. FreeOK(B, TopAfter(top, h, n))
    BY <1>2, <1>4, <2>3, <2>6 DEF FreeOK, CountsView
  <2>8. /\ \A x : In(N, x) => In(s, x)
        /\ \A x : In(s, x) => In(N, x) \/ \E m \in 1..n : s[m].i = x
        /\ \A m \in 1..n : ~In(N, s[m].i)
    BY <2>2 DEF SuffixView
  <2>9. \A x \in h..(h + n - 1) : In(N, x) => x = LASTPAGE
    BY <1>10, <1>11, <2>8
  <2>10. n = 1 => ~In(N, h)
    <3>1. 1 \in 1..n
      OBVIOUS
    <3>. QED  BY <1>6, <2>8, <3>1
  <2>11. ASSUME h + n <= LASTPAGE, NEW x, In(s, x), ~In(N, x)  PROVE x \in h..(h + n - 1)
    <3>1. PICK m \in 1..n : s[m].i = x
      BY <2>8, <2>11
    <3>2. FirstView(s, h, n, a)
      BY <1>2, <1>6, <1>9, <2>11, FirstPages
    <3>3. s[m] = Ptr(h + (m - 1), a)
      BY <3>2 DEF FirstView
    <3>4. x = h + (m - 1)
      BY <3>1, <3>3, PtrEq
    <3>. QED  BY <1>6, <3>4
  <2>12. \A x \in 0..LASTPAGE : ~In(N, x) => C[x] = count[x]
    BY <2>6 DEF CountsView
  <2>13. \A y \in (h + 1)..(h + n - 1) : y < LASTPAGE => C[y] = 0
    <3> SUFFICES ASSUME NEW y \in (h + 1)..(h + n - 1), y < LASTPAGE  PROVE C[y] = 0
      OBVIOUS
    <3>1. y \in h..(h + n - 1) /\ count[y] = 0
      BY <1>13
    <3>2. y \in 0..LASTPAGE /\ y # LASTPAGE
      BY <1>5, <1>11, <3>1
    <3>. QED  BY <2>9, <2>12, <3>1, <3>2
  <2>14. TakeView(B, A, h, n, top)
    BY <1>1, <1>4, <1>6, <1>9, <1>12, <2>7, <2>8, <2>9, <2>10, <2>11, <2>12, <2>13
       DEF TakeView, s, count
  <2>. QED  BY <1>6, <2>14 DEF B, h, a
<1>. QED  BY <1>14, <1>15


(* The list has as many elements as pages. *)
LEMMA ListCount ==
  ASSUME NEW s, ListOK(s)
  PROVE  Len(s) = Cardinality({s[k].i : k \in 1..Len(s)})
<1> DEFINE S == {s[k].i : k \in 1..Len(s)}
           f == [k \in 1..Len(s) |-> s[k].i]
<1>1. Len(s) \in Nat /\ \A j, k \in 1..Len(s) : j # k => s[j].i # s[k].i
  BY DEF ListOK
<1>2. f \in Bijection(1..Len(s), S)
  BY <1>1 DEF Bijection, Injection, Surjection, IsInjective
<1>3. ExistsBijection(1..Len(s), S)
  BY <1>2 DEF ExistsBijection
<1>4. IsFiniteSet(1..Len(s)) /\ Cardinality(1..Len(s)) = Len(s)
  <2> DEFINE m == Len(s)
  <2>1. m \in Nat /\ 1 \in Int /\ m \in Int
    BY <1>1
  <2> HIDE DEF m
  <2>2. IsFiniteSet(1..m) /\ Cardinality(1..m) = IF 1 > m THEN 0 ELSE m - 1 + 1
    BY <2>1, FS_Interval
  <2>3. IsFiniteSet(1..m) /\ Cardinality(1..m) = m
    BY <2>1, <2>2
  <2>. QED  BY <2>3 DEF m
<1>. QED  BY <1>3, <1>4, FS_Bijection

-----------------------------------------------------------------------------
(* PagesOnce in terms of the list and of the pages in the hands of callers. *)

(* The free list is empty or ends with the last page of memory. *)
LEMMA HasLast ==
  ASSUME NEW A, NEW top, FreeOK(A, top), A.head # <<>>
  PROVE  In(A.head, LASTPAGE)
<1> DEFINE s == A.head
<1>1. ListOK(s)
  BY DEF FreeOK
<1> HIDE DEF s
<1>2. Len(s) \in 1..Len(s) /\ s[Len(s)].i = LASTPAGE
  <2>1. Len(s) \in Nat /\ Len(s) > 0 /\ s[Len(s)] = Ptr(LASTPAGE, PHYSICAL)
    BY <1>1 DEF ListOK
  <2>. QED  BY <2>1, PtrEq
<1>3. In(s, LASTPAGE)
  BY <1>2 DEF In
<1>. QED  BY <1>3 DEF s

LEMMA EmptyList ==
  ASSUME NEW s, s = <<>>
  PROVE  Len(s) = 0 /\ s \in Seq(PtrType) /\ \A x : ~In(s, x)
  BY DEF In

-----------------------------------------------------------------------------
(* PagesOnce in terms of the list. *)
InFifo(q, x) == \E k \in 1..Len(q) : q[k].i = x
BlocksApart(u) == \A b, c \in u : b # c => b.p.i + b.n <= c.p.i \/ c.p.i + c.n <= b.p.i

PagesOK(A, u, q) ==
  /\ FreeOK(A, Top(u))
  /\ \A b \in u : BlockOK(b, A.count)
  /\ q = <<>> \/ \E x \in 0..LASTPAGE : q = <<Ptr(x, LINEAR)>>
  /\ \A x : In(A.head, x) /\ HeldBy(u, x) => x = LASTPAGE
  /\ \A x : ~(In(A.head, x) /\ InFifo(q, x))
  /\ \A x : ~(HeldBy(u, x) /\ InFifo(q, x))
  /\ BlocksApart(u)
  /\ A.head # <<>> /\ ~HeldBy(u, LASTPAGE) =>
       \A x : x \in 0..LASTPAGE <=> In(A.head, x) \/ HeldBy(u, x) \/ InFifo(q, x)

LEMMA TopIs == \A u : IsTop(Top(u))
<1>1. \A u : Top(u) = LASTPAGE \/ Top(u) = LASTPAGE + 1
  BY LastNat DEF Top
<1>2. LASTPAGE \in Nat
  BY LastNat
<1> SUFFICES ASSUME NEW u  PROVE IsTop(Top(u))
  OBVIOUS
<1> DEFINE t == Top(u)
<1>3. t = LASTPAGE \/ t = LASTPAGE + 1
  BY <1>1
<1> HIDE DEF t
<1>4. IsTop(t)
  BY <1>2, <1>3 DEF IsTop
<1>. QED  BY <1>4 DEF t

LEMMA IInvAsPages ==
  PageIInv <=> /\ is_vmm_inited \in BOOLEAN /\ panicked \in BOOLEAN
               /\ PagesOK(free_pages, used, vm_fifo)
<1>1. /\ \A x : x \in Listed <=> In(free_pages.head, x)
      /\ \A x : x \in Held <=> HeldBy(used, x)
      /\ \A x : x \in Resident <=> InFifo(vm_fifo, x)
  BY DEF Listed, In, Held, HeldBy, Resident, InFifo
<1>2. FreeOK(free_pages, Top(used)) => Len(free_pages.head) = Cardinality(Listed)
  <2>1. CASE free_pages.head = <<>>
    <3>1. Len(free_pages.head) = 0 /\ \A x : ~In(free_pages.head, x)
      BY <2>1, EmptyList
    <3>2. Listed = {}
      BY <1>1, <3>1
    <3>. QED  BY <3>1, <3>2, FS_EmptySet
  <2>2. CASE free_pages.head # <<>>
    BY <2>2, ListCount DEF FreeOK, Listed
  <2>. QED  BY <2>1, <2>2
<1>3. FreeOK(free_pages, Top(used)) =>
        (PagesOnce <=> /\ \A x : x \in Listed /\ x \in Held => x = LASTPAGE
                       /\ \A x : ~(x \in Listed /\ x \in Resident)
                       /\ \A x : ~(x \in Held /\ x \in Resident)
                       /\ BlocksApart(used)
                       /\ free_pages.head # <<>> /\ LASTPAGE \notin Held =>
                            \A x : x \in 0..LASTPAGE <=> x \in Listed \/ x \in Held \/ x \in Resident)
  <2>1. (Listed \cup Held \cup Resident = 0..(NPages - 1))
          <=> \A x : x \in 0..LASTPAGE <=> x \in Listed \/ x \in Held \/ x \in Resident
    BY DEF LASTPAGE
  <2>2. (Listed \cap Held \subseteq {NPages - 1} <=> \A x : x \in Listed /\ x \in Held => x = LASTPAGE)
    BY DEF LASTPAGE
  <2>3. (Listed \cap Resident = {} <=> \A x : ~(x \in Listed /\ x \in Resident))
    OBVIOUS
  <2>4. (Held \cap Resident = {} <=> \A x : ~(x \in Held /\ x \in Resident))
    OBVIOUS
  <2>5. LastPageFree <=> free_pages.head # <<>> /\ LASTPAGE \notin Held
    BY DEF LastPageFree, LASTPAGE
  <2>. QED  BY <1>2, <2>1, <2>2, <2>3, <2>4, <2>5, Zenon DEF PagesOnce, BlocksApart
<1>4. FreeOK(free_pages, Top(used)) =>
        (PagesOnce <=> /\ \A x : In(free_pages.head, x) /\ HeldBy(used, x) => x = LASTPAGE
                       /\ \A x : ~(In(free_pages.head, x) /\ InFifo(vm_fifo, x))
                       /\ \A x : ~(HeldBy(used, x) /\ InFifo(vm_fifo, x))
                       /\ BlocksApart(used)
                       /\ free_pages.head # <<>> /\ ~HeldBy(used, LASTPAGE) =>
                            \A x : x \in 0..LASTPAGE <=> \/ In(free_pages.head, x) \/ HeldBy(used, x)
                                                         \/ InFifo(vm_fifo, x))
  BY <1>1, <1>3
<1>. QED  BY <1>4, Zenon DEF PageIInv, PagesOK

LEMMA Intervals ==
  ASSUME NEW i \in Nat, NEW n \in Nat, n > 0, NEW j \in Nat, NEW m \in Nat, m > 0
  PROVE  (i + n <= j \/ j + m <= i) <=> \A x : ~(x \in i..(i + n - 1) /\ x \in j..(j + m - 1))
<1>1. ASSUME i + n <= j \/ j + m <= i, NEW x, x \in i..(i + n - 1), x \in j..(j + m - 1)  PROVE FALSE
  BY <1>1
<1>2. ASSUME ~(i + n <= j \/ j + m <= i)
      PROVE  \/ i \in i..(i + n - 1) /\ i \in j..(j + m - 1)
             \/ j \in i..(i + n - 1) /\ j \in j..(j + m - 1)
  BY <1>2
<1>. QED  BY <1>1, <1>2

(* A block in use and the pages of the list. *)
(* A block in use and the pages of the list. *)
LEMMA BlockFacts ==
  ASSUME NEW A, NEW u, NEW q, PagesOK(A, u, q), NEW b \in u
  PROVE  /\ b.p.i \in Nat /\ b.n \in Nat /\ b.n > 0 /\ b.p.i + b.n <= NPages
         /\ \A y \in (b.p.i + 1)..(b.p.i + b.n - 1) : y < LASTPAGE => A.count[y] = 0
         /\ \A x \in b.p.i..(b.p.i + b.n - 1) :
              x \in 0..LASTPAGE /\ HeldBy(u, x) /\ (In(A.head, x) => x = LASTPAGE)
<1>1. b.p.i \in Nat /\ b.n \in Nat /\ b.n # 0 /\ b.p.i + b.n <= NPages
  BY DEF PagesOK, BlockOK
<1>2. \A y \in (b.p.i + 1)..(b.p.i + b.n - 1) : y < LASTPAGE => A.count[y] = 0
  BY DEF PagesOK, BlockOK
<1>3. \A x \in b.p.i..(b.p.i + b.n - 1) : HeldBy(u, x)
  BY Zenon DEF HeldBy
<1>4. \A x \in b.p.i..(b.p.i + b.n - 1) : In(A.head, x) => x = LASTPAGE
  BY <1>3, Zenon DEF PagesOK
<1>5. \A x \in b.p.i..(b.p.i + b.n - 1) : x \in 0..LASTPAGE
  <2> DEFINE i == b.p.i
             n == b.n
  <2>1. i \in Nat /\ n \in Nat /\ i + n <= LASTPAGE + 1 /\ LASTPAGE \in Nat
    BY <1>1, LastNat
  <2> HIDE DEF i, n
  <2>2. \A x \in i..(i + n - 1) : x \in 0..LASTPAGE
    BY <2>1
  <2>. QED  BY <2>2 DEF i, n
<1>6. b.n > 0
  BY <1>1
<1>. QED  BY <1>1, <1>2, <1>3, <1>4, <1>5, <1>6

(* A block stays in order if the counts of its pages do. *)
LEMMA BlockStays ==
  ASSUME NEW A, NEW u, NEW q, PagesOK(A, u, q), NEW b \in u, NEW B,
         \A x \in b.p.i..(b.p.i + b.n - 1) : In(B.head, x) => x = LASTPAGE,
         \A x \in 0..LASTPAGE : ~In(B.head, x) => B.count[x] = A.count[x]
  PROVE  BlockOK(b, B.count)
<1>1. b.p.i \in Nat /\ b.n \in Nat \ {0} /\ b.p.i + b.n <= NPages
  BY DEF PagesOK, BlockOK
<1>2. ASSUME NEW y \in (b.p.i + 1)..(b.p.i + b.n - 1), y < LASTPAGE  PROVE B.count[y] = 0
  <2>1. y \in b.p.i..(b.p.i + b.n - 1)
    BY <1>1
  <2>2. y \in 0..LASTPAGE /\ A.count[y] = 0
    BY <1>2, <2>1, BlockFacts
  <2>3. y # LASTPAGE
    BY <1>2, <2>2, LastNat
  <2>. QED  BY <2>1, <2>2, <2>3
<1>. QED  BY <1>1, <1>2 DEF BlockOK

(* alloc_page() for a caller that keeps the pages. *)
LEMMA TakeUsed ==
  ASSUME NEW A, NEW u, NEW q, PagesOK(A, u, q), NEW h, NEW a, NEW n \in Nat, n > 0,
         NEW B, TakeView(B, A, h, n, Top(u))
  PROVE  /\ PagesOK(B, u \cup {[p |-> Ptr(h, a), n |-> n]}, q)
         /\ [p |-> Ptr(h, a), n |-> n] \notin u
<1> DEFINE b == [p |-> Ptr(h, a), n |-> n]
           v == u \cup {b}
           Mine(x) == x \in h..(h + n - 1)
           top == Top(u)
<1>0. b.p.i = h /\ b.n = n
  BY PtrEq
<1> HIDE DEF b
<1>1. /\ FreeOK(B, TopAfter(top, h, n)) /\ A.head # <<>> /\ h \in Nat /\ h + n <= top
      /\ \A x : In(B.head, x) => In(A.head, x)
      /\ \A x : Mine(x) => In(A.head, x) /\ (In(B.head, x) => x = LASTPAGE)
      /\ h + n <= LASTPAGE => \A x : In(A.head, x) => In(B.head, x) \/ Mine(x)
      /\ \A x \in 0..LASTPAGE : ~In(B.head, x) => B.count[x] = A.count[x]
      /\ \A y \in (h + 1)..(h + n - 1) : y < LASTPAGE => B.count[y] = 0
  BY DEF TakeView
<1>2. \A x : HeldBy(v, x) <=> HeldBy(u, x) \/ Mine(x)
  BY <1>0, Zenon DEF HeldBy
<1>3. /\ q = <<>> \/ \E x \in 0..LASTPAGE : q = <<Ptr(x, LINEAR)>>
      /\ \A x : In(A.head, x) /\ HeldBy(u, x) => x = LASTPAGE
      /\ \A x : ~(In(A.head, x) /\ InFifo(q, x))
      /\ \A x : ~(HeldBy(u, x) /\ InFifo(q, x))
      /\ BlocksApart(u)
      /\ A.head # <<>> /\ ~HeldBy(u, LASTPAGE) =>
           \A x : x \in 0..LASTPAGE <=> In(A.head, x) \/ HeldBy(u, x) \/ InFifo(q, x)
  BY DEF PagesOK
<1>4. /\ LASTPAGE \in Nat /\ NPages = LASTPAGE + 1
      /\ top = IF HeldBy(u, LASTPAGE) THEN LASTPAGE ELSE LASTPAGE + 1
  BY LastNat DEF Top
<1> HIDE DEF top
<1>5. h + n <= LASTPAGE + 1 /\ (HeldBy(u, LASTPAGE) => h + n <= LASTPAGE)
  <2>1. CASE HeldBy(u, LASTPAGE)
    BY <1>1, <1>4, <2>1
  <2>2. CASE ~HeldBy(u, LASTPAGE)
    BY <1>1, <1>4, <2>2
  <2>. QED  BY <2>1, <2>2
<1>6. Mine(LASTPAGE) <=> h + n = LASTPAGE + 1
  BY <1>1, <1>4, <1>5
<1>7. \A x : Mine(x) => ~HeldBy(u, x) /\ x \in 0..LASTPAGE
  <2>1. h + n <= LASTPAGE => \A x : Mine(x) => x # LASTPAGE
    BY <1>1, <1>4
  <2>2. \A x : Mine(x) => x \in 0..LASTPAGE
    BY <1>1, <1>4, <1>5
  <2>. QED  BY <1>1, <1>3, <1>5, <2>1, <2>2
<1>8. BlockOK(b, B.count)
  BY <1>0, <1>1, <1>4, <1>5 DEF BlockOK
<1>9. ASSUME NEW c \in u  PROVE BlockOK(c, B.count)
  <2>1. \A x \in c.p.i..(c.p.i + c.n - 1) : In(B.head, x) => x = LASTPAGE
    BY <1>1, BlockFacts
  <2>. QED  BY <1>1, <2>1, BlockStays
<1>10. ASSUME NEW c \in u
       PROVE  (h + n <= c.p.i \/ c.p.i + c.n <= h) /\ c # b
  <2>1. \A x : ~(Mine(x) /\ x \in c.p.i..(c.p.i + c.n - 1))
    BY <1>7, BlockFacts
  <2>2. c.p.i \in Nat /\ c.n \in Nat /\ c.n > 0
    BY BlockFacts
  <2>3. h + n <= c.p.i \/ c.p.i + c.n <= h
    BY <1>1, <2>1, <2>2, Intervals
  <2>4. c # b
    BY <1>0, <1>1, <2>3
  <2>. QED  BY <2>3, <2>4
<1>11. BlocksApart(v)
  BY <1>0, <1>3, <1>10, Zenon DEF BlocksApart
<1>12. TopAfter(top, h, n) = Top(v)
  <2>1. CASE h + n = LASTPAGE + 1
    BY <1>2, <1>4, <1>6, <2>1 DEF TopAfter, Top
  <2>2. CASE h + n # LASTPAGE + 1
    <3>1. HeldBy(v, LASTPAGE) <=> HeldBy(u, LASTPAGE)
      BY <1>2, <1>6, <2>2
    <3>. QED  BY <1>4, <2>2, <3>1 DEF TopAfter, Top
  <2>. QED  BY <2>1, <2>2
<1>13. B.head # <<>> /\ ~HeldBy(v, LASTPAGE) =>
         \A x : x \in 0..LASTPAGE <=> In(B.head, x) \/ HeldBy(v, x) \/ InFifo(q, x)
  <2> SUFFICES ASSUME ~HeldBy(v, LASTPAGE)
               PROVE  \A x : x \in 0..LASTPAGE <=> In(B.head, x) \/ HeldBy(v, x) \/ InFifo(q, x)
    OBVIOUS
  <2>1. ~HeldBy(u, LASTPAGE) /\ ~Mine(LASTPAGE)
    BY <1>2
  <2>2. h + n <= LASTPAGE
    BY <1>1, <1>4, <1>5, <1>6, <2>1
  <2> HIDE DEF Mine
  <2>. QED  BY <1>1, <1>2, <1>3, <2>1, <2>2, Zenon
<1> HIDE DEF Mine, v
<1>14. /\ \A x : In(B.head, x) /\ HeldBy(v, x) => x = LASTPAGE
       /\ \A x : ~(In(B.head, x) /\ InFifo(q, x))
       /\ \A x : ~(HeldBy(v, x) /\ InFifo(q, x))
  BY <1>1, <1>2, <1>3, Zenon
<1>15. \A c \in v : BlockOK(c, B.count)
  BY <1>8, <1>9 DEF v
<1>16. FreeOK(B, Top(v))
  BY <1>1, <1>12
<1>17. PagesOK(B, v, q)
  BY <1>3, <1>11, <1>13, <1>14, <1>15, <1>16, Zenon DEF PagesOK
<1>18. b \notin u
  BY <1>10
<1>. QED  BY <1>17, <1>18 DEF b, v

(* free_page(): pages that nobody holds any more. *)
LEMMA PutAt ==
  ASSUME NEW A, NEW top, IsTop(top), FreeOK(A, top), A.head # <<>>,
         NEW h \in Nat, NEW n \in Nat, n > 0, h + n <= LASTPAGE,
         NEW a \in {PHYSICAL, LINEAR},
         \A x \in h..(h + n - 1) : ~In(A.head, x),
         \A y \in (h + 1)..(h + n - 1) : A.count[y] = 0
  PROVE  LET B == Put(A, Ptr(h, a), n)
         IN  /\ FreeOK(B, top)
             /\ \A x : In(B.head, x) <=> In(A.head, x) \/ x \in h..(h + n - 1)
             /\ \A x \in 0..LASTPAGE : ~In(B.head, x) => B.count[x] = A.count[x]
<1> DEFINE p == Ptr(h, a)
           B == Put(A, p, n)
<1>1. h \in 0..LASTPAGE /\ n \in Nat \ {0}
  BY LastNat
<1>2. p \in PtrType /\ p.i = h
  BY <1>1, PtrIn, PtrEq
<1> HIDE DEF p
<1>3. PutView(B, A, p, n, top)
  BY <1>1, <1>2, PutKeeps
<1> HIDE DEF B
<1>4. /\ FreeOK(B, top)
      /\ \A x : In(B.head, x) <=> In(A.head, x) \/ x \in h..(h + n - 1)
      /\ \A x \in 0..LASTPAGE : ~In(B.head, x) => B.count[x] = A.count[x]
  BY <1>2, <1>3 DEF PutView
<1>. QED  BY <1>4 DEF B, p

(* Nothing is put into an empty list. *)
LEMMA PutNothing ==
  ASSUME NEW A, A.head = <<>>, NEW p, NEW n
  PROVE  Put(A, p, n) = A
  BY DEF Put

LEMMA PutUsed ==
  ASSUME NEW A, NEW u, NEW q, PagesOK(A, u, q), NEW b \in u,
         \A x \in b.p.i..(b.p.i + b.n - 1) : ~In(A.head, x)
  PROVE  PagesOK(Put(A, Ptr(b.p.i, PHYSICAL), b.n), u \ {b}, q)
<1> DEFINE B == Put(A, Ptr(b.p.i, PHYSICAL), b.n)
           v == u \ {b}
           Mine(x) == x \in b.p.i..(b.p.i + b.n - 1)
<1>0. /\ b.p.i \in Nat /\ b.n \in Nat /\ b.n > 0 /\ b.p.i + b.n <= LASTPAGE + 1 /\ LASTPAGE \in Nat
      /\ \A y \in (b.p.i + 1)..(b.p.i + b.n - 1) : y < LASTPAGE => A.count[y] = 0
      /\ \A x \in b.p.i..(b.p.i + b.n - 1) : ~In(A.head, x) /\ HeldBy(u, x)
  BY BlockFacts, LastNat
<1>1. /\ q = <<>> \/ \E x \in 0..LASTPAGE : q = <<Ptr(x, LINEAR)>>
      /\ \A x : In(A.head, x) /\ HeldBy(u, x) => x = LASTPAGE
      /\ \A x : ~(In(A.head, x) /\ InFifo(q, x))
      /\ \A x : ~(HeldBy(u, x) /\ InFifo(q, x))
      /\ BlocksApart(u) /\ FreeOK(A, Top(u))
      /\ A.head # <<>> /\ ~HeldBy(u, LASTPAGE) =>
           \A x : x \in 0..LASTPAGE <=> In(A.head, x) \/ HeldBy(u, x) \/ InFifo(q, x)
  BY DEF PagesOK
<1>2. ASSUME NEW c \in v  PROVE \A x : ~(Mine(x) /\ x \in c.p.i..(c.p.i + c.n - 1))
  <2>1. c.p.i \in Nat /\ c.n \in Nat /\ c.n > 0
    BY BlockFacts
  <2>2. b.p.i + b.n <= c.p.i \/ c.p.i + c.n <= b.p.i
    BY <1>1, Zenon DEF BlocksApart
  <2> DEFINE h == b.p.i
             n == b.n
             j == c.p.i
             m == c.n
  <2>3. h \in Nat /\ n \in Nat /\ n > 0 /\ j \in Nat /\ m \in Nat /\ m > 0 /\ (h + n <= j \/ j + m <= h)
    BY <1>0, <2>1, <2>2
  <2> HIDE DEF h, n, j, m
  <2>4. \A x : ~(x \in h..(h + n - 1) /\ x \in j..(j + m - 1))
    BY <2>3, Intervals
  <2>. QED  BY <2>4 DEF h, n, j, m
<1>3. \A x : HeldBy(v, x) <=> HeldBy(u, x) /\ ~Mine(x)
  BY <1>2, Zenon DEF HeldBy
<1>4. BlocksApart(v)
  BY <1>1 DEF BlocksApart
<1>5. \A x : Mine(x) => ~In(A.head, x) /\ HeldBy(u, x)
  BY <1>0
<1>6. CASE A.head = <<>>
  <2>1. B = A
    BY <1>6, PutNothing
  <2>2. FreeOK(B, Top(v))
    BY <1>1, <1>6, <2>1 DEF FreeOK
  <2>3. \A c \in v : BlockOK(c, B.count)
    BY <2>1 DEF PagesOK
  <2> HIDE DEF B, v, Mine
  <2>. QED  BY <1>1, <1>3, <1>4, <1>6, <2>1, <2>2, <2>3, Zenon DEF PagesOK, B, v
<1>7. CASE A.head # <<>>
  <2>1. ~Mine(LASTPAGE)
    BY <1>1, <1>5, <1>7, HasLast
  <2> DEFINE h == b.p.i
             n == b.n
  <2>2. /\ h \in Nat /\ n \in Nat /\ n > 0 /\ h + n <= LASTPAGE + 1 /\ LASTPAGE \in Nat
        /\ ~(LASTPAGE \in h..(h + n - 1))
        /\ \A y \in (h + 1)..(h + n - 1) : y < LASTPAGE => A.count[y] = 0
        /\ \A x \in h..(h + n - 1) : ~In(A.head, x)
    BY <1>0, <2>1
  <2> HIDE DEF h, n
  <2>3. h + n <= LASTPAGE
    BY <2>2
  <2>4. \A y \in (h + 1)..(h + n - 1) : A.count[y] = 0
    BY <2>2, <2>3
  <2>5. LET C == Put(A, Ptr(h, PHYSICAL), n)
        IN  /\ FreeOK(C, Top(u))
            /\ \A x : In(C.head, x) <=> In(A.head, x) \/ x \in h..(h + n - 1)
            /\ \A x \in 0..LASTPAGE : ~In(C.head, x) => C.count[x] = A.count[x]
    BY <1>1, <1>7, <2>2, <2>3, <2>4, TopIs, PutAt
  <2>6. /\ FreeOK(B, Top(u))
        /\ \A x : In(B.head, x) <=> In(A.head, x) \/ Mine(x)
        /\ \A x \in 0..LASTPAGE : ~In(B.head, x) => B.count[x] = A.count[x]
    BY <2>5, Zenon DEF h, n
  <2> HIDE DEF B
  <2>7. Top(v) = Top(u)
    BY <1>3, <2>1 DEF Top
  <2>8. ASSUME NEW c \in v  PROVE BlockOK(c, B.count)
    <3>1. \A x \in c.p.i..(c.p.i + c.n - 1) : In(A.head, x) => x = LASTPAGE
      BY BlockFacts
    <3>2. \A x \in c.p.i..(c.p.i + c.n - 1) : In(B.head, x) => x = LASTPAGE
      BY <1>2, <2>6, <3>1, Zenon
    <3>. QED  BY <2>6, <3>2, BlockStays
  <2> HIDE DEF Mine, v
  <2>9. /\ \A x : In(B.head, x) /\ HeldBy(v, x) => x = LASTPAGE
        /\ \A x : ~(In(B.head, x) /\ InFifo(q, x))
        /\ \A x : ~(HeldBy(v, x) /\ InFifo(q, x))
    BY <1>1, <1>3, <1>5, <2>6, Zenon
  <2>10. ~HeldBy(v, LASTPAGE) =>
           \A x : x \in 0..LASTPAGE <=> In(B.head, x) \/ HeldBy(v, x) \/ InFifo(q, x)
    BY <1>1, <1>3, <1>5, <1>7, <2>1, <2>6, Zenon
  <2>11. FreeOK(B, Top(v))
    BY <2>6, <2>7
  <2>12. PagesOK(B, v, q)
    BY <1>1, <1>4, <2>8, <2>9, <2>10, <2>11, Zenon DEF PagesOK
  <2>. QED  BY <2>12 DEF B, v
<1>. QED  BY <1>6, <1>7

(* A list of one resident page, and of none. *)
LEMMA FifoIs ==
  /\ \A x : ~InFifo(<<>>, x)
  /\ \A i, x : InFifo(<<Ptr(i, LINEAR)>>, x) <=> x = i
<1>1. \A x : ~InFifo(<<>>, x)
  BY DEF InFifo
<1>2. ASSUME NEW i, NEW x  PROVE InFifo(<<Ptr(i, LINEAR)>>, x) <=> x = i
  <2> DEFINE p == Ptr(i, LINEAR)
  <2>1. p.i = i
    BY PtrEq
  <2> HIDE DEF p
  <2>2. Len(<<p>>) = 1 /\ <<p>>[1] = p
    OBVIOUS
  <2>3. InFifo(<<p>>, x) <=> p.i = x
    BY <2>2 DEF InFifo
  <2>. QED  BY <2>1, <2>3 DEF p
<1>. QED  BY <1>1, <1>2

(* swap_out(): the resident page goes back to the list. *)
LEMMA PutFifo ==
  ASSUME NEW A, NEW u, NEW i \in 0..LASTPAGE, PagesOK(A, u, <<Ptr(i, LINEAR)>>)
  PROVE  /\ PagesOK(Put(A, Ptr(i, LINEAR), 1), u, <<>>)
         /\ \A x : In(Put(A, Ptr(i, LINEAR), 1).head, x) => In(A.head, x) \/ x = i
<1> DEFINE B == Put(A, Ptr(i, LINEAR), 1)
           q == <<Ptr(i, LINEAR)>>
<1>1. /\ \A x : In(A.head, x) /\ HeldBy(u, x) => x = LASTPAGE
      /\ \A x : ~(In(A.head, x) /\ InFifo(q, x))
      /\ \A x : ~(HeldBy(u, x) /\ InFifo(q, x))
      /\ BlocksApart(u) /\ FreeOK(A, Top(u)) /\ \A c \in u : BlockOK(c, A.count)
      /\ A.head # <<>> /\ ~HeldBy(u, LASTPAGE) =>
           \A x : x \in 0..LASTPAGE <=> In(A.head, x) \/ HeldBy(u, x) \/ InFifo(q, x)
  BY DEF PagesOK
<1>2. /\ \A x : InFifo(q, x) <=> x = i
      /\ \A x : ~InFifo(<<>>, x)
  BY FifoIs
<1>3. CASE A.head = <<>>
  <2>1. B = A
    BY <1>3, PutNothing
  <2> HIDE DEF B
  <2>2. PagesOK(B, u, <<>>)
    BY <1>1, <1>2, <1>3, <2>1, Zenon DEF PagesOK
  <2>. QED  BY <2>1, <2>2 DEF B
<1>4. CASE A.head # <<>>
  <2>1. i # LASTPAGE
    BY <1>1, <1>2, <1>4, HasLast
  <2>2. /\ FreeOK(B, Top(u))
        /\ \A x : In(B.head, x) <=> In(A.head, x) \/ x = i
        /\ \A x \in 0..LASTPAGE : ~In(B.head, x) => B.count[x] = A.count[x]
    <3>1. LINEAR \in {PHYSICAL, LINEAR} /\ i \in Nat /\ 1 \in Nat /\ 1 > 0 /\ i + 1 <= LASTPAGE
      BY <2>1, LastNat
    <3>2. /\ \A x : x \in i..(i + 1 - 1) <=> x = i
          /\ \A y \in (i + 1)..(i + 1 - 1) : FALSE
      BY <3>1
    <3>3. /\ \A x \in i..(i + 1 - 1) : ~In(A.head, x)
          /\ \A y \in (i + 1)..(i + 1 - 1) : A.count[y] = 0
      BY <1>1, <1>2, <3>2, Zenon
    <3>4. /\ FreeOK(B, Top(u))
          /\ \A x : In(B.head, x) <=> In(A.head, x) \/ x \in i..(i + 1 - 1)
          /\ \A x \in 0..LASTPAGE : ~In(B.head, x) => B.count[x] = A.count[x]
      BY <1>1, <1>4, <3>1, <3>3, TopIs, PutAt
    <3>. QED  BY <3>2, <3>4, Zenon
  <2> HIDE DEF B, q
  <2>3. ASSUME NEW c \in u  PROVE BlockOK(c, B.count)
    <3>1. \A x \in c.p.i..(c.p.i + c.n - 1) : (In(A.head, x) => x = LASTPAGE) /\ HeldBy(u, x)
      BY BlockFacts
    <3>2. \A x \in c.p.i..(c.p.i + c.n - 1) : In(B.head, x) => x = LASTPAGE
      BY <1>1, <1>2, <2>2, <3>1, Zenon
    <3>. QED  BY <2>2, <3>2, BlockStays
  <2>4. /\ \A x : In(B.head, x) /\ HeldBy(u, x) => x = LASTPAGE
        /\ \A x : ~(In(B.head, x) /\ InFifo(<<>>, x))
        /\ \A x : ~(HeldBy(u, x) /\ InFifo(<<>>, x))
        /\ ~HeldBy(u, LASTPAGE) =>
             \A x : x \in 0..LASTPAGE <=> In(B.head, x) \/ HeldBy(u, x) \/ InFifo(<<>>, x)
    BY <1>1, <1>2, <1>4, <2>2, Zenon
  <2>5. PagesOK(B, u, <<>>)
    BY <1>1, <2>2, <2>3, <2>4, Zenon DEF PagesOK
  <2>. QED  BY <2>2, <2>5 DEF B
<1>. QED  BY <1>3, <1>4

(* swap_in() and do_swap(): the page that was allocated becomes resident.   *)
LEMMA MakeResident ==
  ASSUME NEW A, NEW u, NEW i, [p |-> Ptr(i, LINEAR), n |-> 1] \notin u, ~In(A.head, i),
         PagesOK(A, u \cup {[p |-> Ptr(i, LINEAR), n |-> 1]}, <<>>)
  PROVE  PagesOK(A, u, <<Ptr(i, LINEAR)>>)
<1> DEFINE b == [p |-> Ptr(i, LINEAR), n |-> 1]
           v == u \cup {b}
           q == <<Ptr(i, LINEAR)>>
<1>0. b.p.i = i /\ b.n = 1 /\ b \in v /\ b \notin u
  BY PtrEq
<1> HIDE DEF b
<1>1. /\ \A x : In(A.head, x) /\ HeldBy(v, x) => x = LASTPAGE
      /\ BlocksApart(v) /\ FreeOK(A, Top(v)) /\ \A c \in v : BlockOK(c, A.count)
      /\ A.head # <<>> /\ ~HeldBy(v, LASTPAGE) =>
           \A x : x \in 0..LASTPAGE <=> In(A.head, x) \/ HeldBy(v, x) \/ InFifo(<<>>, x)
  BY DEF PagesOK, b
<1>2. /\ \A x : InFifo(q, x) <=> x = i
      /\ \A x : ~InFifo(<<>>, x)
  BY FifoIs
<1>3. i \in Nat /\ i + 1 <= LASTPAGE + 1
  BY <1>0, <1>1, LastNat DEF BlockOK
<1>4. i \in 0..LASTPAGE /\ \A x : x \in i..(i + 1 - 1) <=> x = i
  BY <1>3, LastNat
<1>5. \A x : HeldBy(v, x) <=> HeldBy(u, x) \/ x = i
  BY <1>0, <1>4, Zenon DEF HeldBy
<1>6. ~HeldBy(u, i)
  <2> SUFFICES ASSUME NEW c \in u, i \in c.p.i..(c.p.i + c.n - 1)  PROVE FALSE
    BY DEF HeldBy
  <2>1. c.p.i \in Nat /\ c.n \in Nat \ {0}
    BY <1>1 DEF BlockOK
  <2>2. b.p.i + b.n <= c.p.i \/ c.p.i + c.n <= b.p.i
    BY <1>0, <1>1 DEF BlocksApart
  <2>. QED  BY <1>0, <1>3, <2>1, <2>2
<1> HIDE DEF q
<1>7. A.head # <<>> => i # LASTPAGE
  BY <1>1, HasLast
<1>8. FreeOK(A, Top(u))
  <2>1. CASE A.head = <<>>
    BY <1>1, <2>1 DEF FreeOK
  <2>2. CASE A.head # <<>>
    <3>1. Top(u) = Top(v)
      BY <1>5, <1>7, <2>2 DEF Top
    <3>. QED  BY <1>1, <3>1
  <2>. QED  BY <2>1, <2>2
<1>9. /\ \A x : In(A.head, x) /\ HeldBy(u, x) => x = LASTPAGE
      /\ \A x : ~(In(A.head, x) /\ InFifo(q, x))
      /\ \A x : ~(HeldBy(u, x) /\ InFifo(q, x))
      /\ A.head # <<>> /\ ~HeldBy(u, LASTPAGE) =>
           \A x : x \in 0..LASTPAGE <=> In(A.head, x) \/ HeldBy(u, x) \/ InFifo(q, x)
  BY <1>1, <1>2, <1>5, <1>6, <1>7, Zenon
<1>10. BlocksApart(u) /\ \A c \in u : BlockOK(c, A.count)
  BY <1>1 DEF BlocksApart
<1>11. q = <<>> \/ \E x \in 0..LASTPAGE : q = <<Ptr(x, LINEAR)>>
  BY <1>4 DEF q
<1>12. PagesOK(A, u, q)
  BY <1>8, <1>9, <1>10, <1>11, Zenon DEF PagesOK
<1>. QED  BY <1>12 DEF q

-----------------------------------------------------------------------------
LEMMA StartList ==
  ASSUME NEW s, s = [k \in 1..NPages |-> Ptr(k - 1, PHYSICAL)]
  PROVE  ListOK(s) /\ Len(s) = NPages /\ \A x : In(s, x) <=> x \in 0..LASTPAGE
<1>0. LASTPAGE \in Nat /\ NPages = LASTPAGE + 1 /\ NPages \in Nat /\ NPages > 0 /\ NPages - 1 = LASTPAGE
  BY LastNat
<1>1. \A k \in 1..NPages : /\ s[k] = Ptr(k - 1, PHYSICAL) /\ k - 1 \in 0..LASTPAGE
                           /\ s[k].i = k - 1 /\ s[k].a = 0
  <2>1. \A k \in 1..NPages : s[k] = Ptr(k - 1, PHYSICAL)
    OBVIOUS
  <2>2. \A k \in 1..NPages : k - 1 \in 0..LASTPAGE
    BY <1>0
  <2>. QED  BY <2>1, <2>2, PtrEq DEF PHYSICAL
<1>2. s \in Seq(PtrType) /\ Len(s) = NPages
  <2>1. \A k \in 1..NPages : Ptr(k - 1, PHYSICAL) \in PtrType
    BY <1>1, PtrIn
  <2>2. s \in [1..NPages -> PtrType]
    BY <2>1
  <2>. QED  BY <1>0, <2>2
<1>3. ASSUME NEW j \in 1..(Len(s) - 1), NEW k \in 1..(Len(s) - 1), j < k  PROVE Above(s[k], s[j])
  <2>1. j \in 1..NPages /\ k \in 1..NPages /\ k - 1 > j - 1
    BY <1>0, <1>2, <1>3
  <2>. QED  BY <1>1, <2>1 DEF Above
<1>4. ASSUME NEW j \in 1..Len(s), NEW k \in 1..Len(s), j # k  PROVE s[j].i # s[k].i
  <2>1. j - 1 # k - 1
    BY <1>2, <1>4
  <2>2. s[j].i = j - 1 /\ s[k].i = k - 1
    BY <1>1, <1>2
  <2>. QED  BY <2>1, <2>2
<1>5. s[Len(s)] = Ptr(LASTPAGE, PHYSICAL) /\ Len(s) > 0
  <2>1. NPages \in 1..NPages
    BY <1>0
  <2>. QED  BY <1>0, <1>1, <1>2, <2>1
<1>6. ListOK(s)
  BY <1>2, <1>3, <1>4, <1>5 DEF ListOK
<1>7. \A x \in 0..LASTPAGE : x + 1 \in 1..NPages /\ (x + 1) - 1 = x
  BY <1>0
<1>8. \A x : In(s, x) <=> x \in 0..LASTPAGE
  <2>1. \A x \in 0..LASTPAGE : In(s, x)
    <3> TAKE x \in 0..LASTPAGE
    <3>1. s[x + 1].i = x /\ x + 1 \in 1..Len(s)
      BY <1>1, <1>2, <1>7
    <3>. QED  BY <3>1 DEF In
  <2>2. \A x : In(s, x) => x \in 0..LASTPAGE
    BY <1>1, <1>2 DEF In
  <2>. QED  BY <2>1, <2>2
<1>. QED  BY <1>2, <1>6, <1>8

LEMMA PagesStart == page_init => PageIInv
<1> SUFFICES ASSUME page_init  PROVE PageIInv
  OBVIOUS
<1> DEFINE s == free_pages.head
           count == free_pages.count
<1>1. /\ s = [k \in 1..NPages |-> Ptr(k - 1, PHYSICAL)] /\ free_pages.num = NPages
      /\ count = [i \in 0..(NPages - 1) |-> IF i = 0 THEN NPages ELSE 0]
      /\ vm_fifo = <<>> /\ used = {} /\ is_vmm_inited = FALSE /\ panicked = FALSE
  BY DEF page_init
<1>2. ListOK(s) /\ Len(s) = NPages /\ \A x : In(s, x) <=> x \in 0..LASTPAGE
  BY <1>1, StartList
<1>3. /\ count \in [0..LASTPAGE -> Nat]
      /\ count[0] = NPages
      /\ \A i \in 0..LASTPAGE : i # 0 => count[i] = 0
  BY <1>1, PageAllocAssumption DEF LASTPAGE
<1> HIDE DEF s, count
<1>4. \A x, a : At(s, x, a) => x \in 0..LASTPAGE /\ x \in Nat /\ x < LASTPAGE /\ a = PHYSICAL
  <2> SUFFICES ASSUME NEW x, NEW a, At(s, x, a)
               PROVE  x \in 0..LASTPAGE /\ x \in Nat /\ x < LASTPAGE /\ a = PHYSICAL
    OBVIOUS
  <2>1. PICK k \in 1..(Len(s) - 1) : s[k] = Ptr(x, a)
    BY DEF At
  <2>2. k \in 1..NPages
    BY <1>2, PageAllocAssumption
  <2>3. s[k].a = a /\ s[k].a = PHYSICAL
    BY <1>1, <2>1, <2>2, PtrEq
  <2>. QED  BY <1>2, <2>3, AtIn
<1>5. ASSUME NEW y \in 0..LASTPAGE, y # LASTPAGE  PROVE At(s, y, PHYSICAL)
  <2>1. y + 1 \in 1..(Len(s) - 1) /\ y + 1 \in 1..NPages /\ (y + 1) - 1 = y
    BY <1>2, <1>5, LastNat
  <2>2. s[y + 1] = Ptr((y + 1) - 1, PHYSICAL)
    BY <1>1, <2>1
  <2>. QED  BY <2>1, <2>2 DEF At
<1>6. RunsOK(s, count)
  <2> SUFFICES ASSUME NEW a \in {PHYSICAL, LINEAR}, NEW x \in 0..(LASTPAGE - 1),
                      NEW y \in 0..(LASTPAGE - 1), At(s, x, a), x < y
               PROVE  At(s, y, a) /\ count[y] = 0
    BY DEF RunsOK
  <2>1. y \in 0..LASTPAGE /\ y # 0 /\ y # LASTPAGE
    BY LastNat
  <2>. QED  BY <1>3, <1>4, <1>5, <2>1
<1>7. EndsOK(s, count, NPages)
  <2>0. LASTPAGE \in Nat /\ NPages = LASTPAGE + 1
    BY LastNat
  <2>1. LASTPAGE + count[LASTPAGE] <= NPages /\ (LASTPAGE # 0 => count[LASTPAGE] = 0)
    <3>1. CASE LASTPAGE = 0
      BY <1>3, <2>0, <3>1
    <3>2. CASE LASTPAGE # 0
      BY <1>3, <2>0, <3>2
    <3>. QED  BY <3>1, <3>2
  <2>2. ASSUME NEW x, At(s, x, PHYSICAL)
        PROVE  x + count[x] <= NPages /\ (LASTPAGE < x + count[x] => count[LASTPAGE] = 0)
    <3>1. x \in 0..LASTPAGE /\ x \in Nat /\ x < LASTPAGE
      BY <1>4, <2>2
    <3>2. CASE x = 0
      BY <1>3, <2>0, <2>1, <3>1, <3>2
    <3>3. CASE x # 0
      BY <1>3, <2>0, <3>1, <3>3
    <3>. QED  BY <3>2, <3>3
  <2>3. \A x : ~At(s, x, LINEAR)
    BY <1>4 DEF PHYSICAL, LINEAR
  <2>. QED  BY <2>1, <2>2, <2>3 DEF EndsOK
<1>8. \A x : ~HeldBy(used, x) /\ ~InFifo(vm_fifo, x)
  BY <1>1, FifoIs DEF HeldBy
<1>9. FreeOK(free_pages, Top(used))
  <2>1. Top(used) = NPages
    BY <1>8 DEF Top
  <2>2. s \in Seq(PtrType)
    BY <1>2 DEF ListOK
  <2>. QED  BY <1>1, <1>2, <1>3, <1>6, <1>7, <2>1, <2>2 DEF FreeOK, s, count
<1>10. BlocksApart(used) /\ \A b \in used : BlockOK(b, free_pages.count)
  BY <1>1 DEF BlocksApart
<1>11. PagesOK(free_pages, used, vm_fifo)
  BY <1>1, <1>2, <1>8, <1>9, <1>10, Zenon DEF PagesOK, s
<1>. QED  BY <1>1, <1>11, IInvAsPages

(* alloc_page() with its swap; the pages go to a caller. *)
LEMMA AllocStep ==
  ASSUME PagesOK(free_pages, used, vm_fifo), NEW n \in Nat, n > 0,
         NEW i, NEW a, alloc_page(n, Ptr(i, a))
  PROVE  /\ PagesOK(free_pages', used \cup {[p |-> Ptr(i, a), n |-> n]}, Remaining(n))
         /\ [p |-> Ptr(i, a), n |-> n] \notin used
         /\ is_vmm_inited /\ n = 1 => Remaining(n) = <<>>
         /\ n = 1 => ~In(free_pages'.head, i)
<1> DEFINE b == [p |-> Ptr(i, a), n |-> n]
           B == Take(free_pages, n)
<1>1. i = free_pages.head[1].i
  BY PtrEq DEF alloc_page
<1>2. TakeView(B, free_pages, free_pages.head[1].i, n, Top(used))
  <2>1. FreeOK(free_pages, Top(used))
    BY DEF PagesOK
  <2>2. CanAlloc(free_pages, n)
    BY DEF alloc_page
  <2>. QED  BY <2>1, <2>2, TopIs, TakeKeeps
<1>3. TakeView(B, free_pages, i, n, Top(used))
  BY <1>1, <1>2
<1> HIDE DEF B
<1>4. PagesOK(B, used \cup {b}, vm_fifo) /\ b \notin used
  BY <1>3, TakeUsed
<1>5. (n = 1 => ~In(B.head, i)) /\ In(free_pages.head, i)
  <2>1. i \in Nat
    BY <1>3 DEF TakeView
  <2>2. i \in i..(i + n - 1)
    BY <2>1
  <2>. QED  BY <1>3, <2>2 DEF TakeView
<1> HIDE DEF b
<1>6. free_pages' = IF SwapsOut(n) THEN Put(B, vm_fifo[1], 1) ELSE B
  BY DEF alloc_page, B
<1>7. CASE SwapsOut(n)
  <2>1. PICK x \in 0..LASTPAGE : vm_fifo = <<Ptr(x, LINEAR)>>
    BY <1>7 DEF PagesOK, SwapsOut
  <2> DEFINE p == Ptr(x, LINEAR)
  <2>2. <<p>>[1] = p /\ Tail(<<p>>) = <<>>
    <3> HIDE DEF p
    <3>. QED  OBVIOUS
  <2>3. free_pages' = Put(B, Ptr(x, LINEAR), 1) /\ Remaining(n) = <<>>
    BY <1>6, <1>7, <2>1, <2>2 DEF Remaining
  <2>4. /\ PagesOK(Put(B, Ptr(x, LINEAR), 1), used \cup {b}, <<>>)
        /\ \A y : In(Put(B, Ptr(x, LINEAR), 1).head, y) => In(B.head, y) \/ y = x
    BY <1>4, <2>1, PutFifo
  <2>5. i # x
    <3>1. InFifo(vm_fifo, x)
      BY <2>1, FifoIs
    <3>. QED  BY <1>5, <3>1 DEF PagesOK
  <2>6. n = 1 => ~In(free_pages'.head, i)
    BY <1>5, <2>3, <2>4, <2>5
  <2>. QED  BY <1>4, <2>3, <2>4, <2>6 DEF b
<1>8. CASE ~SwapsOut(n)
  <2>1. free_pages' = B /\ Remaining(n) = vm_fifo
    BY <1>6, <1>8 DEF Remaining
  <2>2. is_vmm_inited /\ n = 1 => vm_fifo = <<>>
    BY <1>8 DEF SwapsOut
  <2>. QED  BY <1>4, <1>5, <2>1, <2>2 DEF b
<1>. QED  BY <1>7, <1>8

(* PageIInv with the values of the next state. *)
IInvNext ==
  is_vmm_inited' \in BOOLEAN /\ panicked' \in BOOLEAN /\ PagesOK(free_pages', used', vm_fifo')

LEMMA PagesKept == PageIInv /\ [PageNext]_pageVars => PageIInv'
<1> SUFFICES ASSUME PageIInv, [PageNext]_pageVars  PROVE PageIInv'
  OBVIOUS
<1>0. is_vmm_inited \in BOOLEAN /\ panicked \in BOOLEAN /\ PagesOK(free_pages, used, vm_fifo)
  BY IInvAsPages
<1> SUFFICES IInvNext
  <2>1. (PageIInv <=> /\ is_vmm_inited \in BOOLEAN /\ panicked \in BOOLEAN
                      /\ PagesOK(free_pages, used, vm_fifo))'
    BY IInvAsPages, PTL
  <2>2. (PagesOK(free_pages, used, vm_fifo))' = PagesOK(free_pages', used', vm_fifo')
    OBVIOUS
  <2>. QED  BY <2>1, <2>2 DEF IInvNext
<1>1. ASSUME NEW n \in 1..MaxBlock, AllocBlock(n)  PROVE IInvNext
  <2>1. PICK i \in 0..(NPages - 1), a \in {LINEAR, LINEAR + 1} :
          alloc_page(n, Ptr(i, a)) /\ used' = used \cup {[p |-> Ptr(i, a), n |-> n]}
    BY <1>1 DEF AllocBlock
  <2>2. vm_fifo' = Remaining(n) /\ is_vmm_inited' = is_vmm_inited /\ panicked' = panicked
    BY <1>1 DEF AllocBlock
  <2>3. n \in Nat /\ n > 0
    BY PageAllocAssumption
  <2>4. PagesOK(free_pages', used \cup {[p |-> Ptr(i, a), n |-> n]}, Remaining(n))
    BY <1>0, <2>1, <2>3, AllocStep
  <2>. QED  BY <1>0, <2>1, <2>2, <2>4, Zenon DEF IInvNext
<1>2. 1 \in Nat /\ 1 > 0
  OBVIOUS
<1>3. ASSUME AllocTable  PROVE IInvNext
  <2>1. PICK i \in 0..(NPages - 1), a \in {LINEAR, LINEAR + 1} :
          /\ alloc_page(1, Ptr(i, a)) /\ used' = used \cup {[p |-> Ptr(i, a), n |-> 1]}
          /\ panicked' = (a # LINEAR)
    BY <1>3 DEF AllocTable
  <2>2. vm_fifo' = Remaining(1) /\ is_vmm_inited' = is_vmm_inited
    BY <1>3 DEF AllocTable
  <2>3. PagesOK(free_pages', used \cup {[p |-> Ptr(i, a), n |-> 1]}, Remaining(1))
    BY <1>0, <1>2, <2>1, AllocStep
  <2>. QED  BY <1>0, <2>1, <2>2, <2>3, Zenon DEF IInvNext
<1>4. ASSUME AllocSwappable  PROVE IInvNext
  <2>1. PICK i \in 0..(NPages - 1), a \in {LINEAR, LINEAR + 1} :
          /\ alloc_page(1, Ptr(i, a))
          /\ IF a = LINEAR
             THEN vm_fifo' = Append(Remaining(1), Ptr(i, a)) /\ UNCHANGED used
             ELSE vm_fifo' = Remaining(1) /\ used' = used \cup {[p |-> Ptr(i, a), n |-> 1]}
          /\ panicked' = (a # LINEAR)
    BY <1>4 DEF AllocSwappable
  <2>2. is_vmm_inited /\ is_vmm_inited' = is_vmm_inited
    BY <1>4 DEF AllocSwappable
  <2>3. /\ PagesOK(free_pages', used \cup {[p |-> Ptr(i, a), n |-> 1]}, Remaining(1))
        /\ [p |-> Ptr(i, a), n |-> 1] \notin used
        /\ Remaining(1) = <<>> /\ ~In(free_pages'.head, i)
    BY <1>0, <1>2, <2>1, <2>2, AllocStep
  <2>4. CASE a = LINEAR
    <3>1. PagesOK(free_pages', used, <<Ptr(i, LINEAR)>>)
      BY <2>3, <2>4, MakeResident
    <3>2. vm_fifo' = <<Ptr(i, LINEAR)>> /\ used' = used
      <4> DEFINE p == Ptr(i, LINEAR)
      <4>1. vm_fifo' = Append(<<>>, p) /\ used' = used
        BY <2>1, <2>3, <2>4
      <4> HIDE DEF p
      <4>2. Append(<<>>, p) = <<p>>
        OBVIOUS
      <4>. QED  BY <4>1, <4>2 DEF p
    <3>. QED  BY <1>0, <2>1, <2>2, <3>1, <3>2, Zenon DEF IInvNext
  <2>5. CASE a # LINEAR
    BY <1>0, <2>1, <2>2, <2>3, <2>5, Zenon DEF IInvNext
  <2>. QED  BY <2>4, <2>5
<1>5. ASSUME NEW b \in used, free_page(b)  PROVE IInvNext
  <2>1. /\ free_pages' = Put(free_pages, Ptr(b.p.i, PHYSICAL), b.n) /\ used' = used \ {b}
        /\ vm_fifo' = vm_fifo /\ is_vmm_inited' = is_vmm_inited /\ panicked' = panicked
    BY <1>5 DEF free_page
  <2>2. \A x \in b.p.i..(b.p.i + b.n - 1) : ~In(free_pages.head, x)
    BY <1>5 DEF free_page, NotListed, Listed, In
  <2>3. PagesOK(Put(free_pages, Ptr(b.p.i, PHYSICAL), b.n), used \ {b}, vm_fifo)
    BY <1>0, <2>2, PutUsed
  <2>. QED  BY <1>0, <2>1, <2>3, Zenon DEF IInvNext
<1>6. ASSUME vmm_init  PROVE IInvNext
  BY <1>0, <1>6 DEF vmm_init, IInvNext
<1>7. ASSUME UNCHANGED pageVars  PROVE IInvNext
  BY <1>0, <1>7 DEF pageVars, IInvNext
<1>. QED  BY <1>1, <1>3, <1>4, <1>5, <1>6, <1>7 DEF PageNext

(* The inductive invariant of alloc_page() and free_page(): the order of    *)
(* the free list, the pages that the block counts promise, and how far they *)
(* reach.                                                                   *)
THEOREM PageInvariant == PageSpec => []PageIInv
<1>1. PageIInv /\ [PageNext]_pageVars => PageIInv'
  BY PagesKept
<1>. QED  BY <1>1, PagesStart, PTL DEF PageSpec

(* Whatever blocks are allocated, swapped out and freed, in whatever order, *)
(* alloc_page() hands out no page twice, and none that stays free but for   *)
(* the last page of memory; until that one is handed out no page is lost.   *)
THEOREM PagesInOneHand == PageSpec => []PagesOnce
<1>1. PageIInv => PagesOnce
  BY DEF PageIInv
<1>. QED  BY <1>1, PageInvariant, PTL

(* free_page_num is the length of the free list. *)
THEOREM PagesCounted == PageSpec => []FreeNumExact
<1>1. PageIInv => FreeNumExact
  BY DEF PageIInv, FreeOK, FreeNumExact
<1>. QED  BY <1>1, PageInvariant, PTL

(* At most one page is resident: every alloc_page(1) swaps one out first.   *)
THEOREM PagesOneResident == PageSpec => []OneResident
<1>1. PageIInv => OneResident
  <2> SUFFICES ASSUME PageIInv  PROVE OneResident
    OBVIOUS
  <2>1. CASE vm_fifo = <<>>
    BY <2>1 DEF OneResident
  <2>2. ASSUME NEW x, vm_fifo = <<Ptr(x, LINEAR)>>  PROVE OneResident
    <3> DEFINE p == Ptr(x, LINEAR)
    <3>1. Len(<<p>>) = 1
      <4> HIDE DEF p
      <4>. QED  OBVIOUS
    <3>. QED  BY <2>2, <3>1 DEF OneResident
  <2>. QED  BY <2>1, <2>2 DEF PageIInv
<1>. QED  BY <1>1, PageInvariant, PTL

(* The list holds pages, the block counts are numbers. *)
THEOREM PagesTyped == PageSpec => []PageTypeOK
<1>1. PageIInv => PageTypeOK
  <2> SUFFICES ASSUME PageIInv  PROVE PageTypeOK
    OBVIOUS
  <2> DEFINE s == free_pages.head
  <2>1. /\ s \in Seq(PtrType) /\ free_pages.num = Len(s)
        /\ free_pages.count \in [0..LASTPAGE -> Nat]
        /\ is_vmm_inited \in BOOLEAN /\ panicked \in BOOLEAN
    BY DEF PageIInv, FreeOK
  <2> HIDE DEF s
  <2>2. Len(s) \in Int
    BY <2>1
  <2>3. \A k \in 1..Len(s) : s[k].i \in 0..LASTPAGE
    BY <2>1, PtrFacts
  <2>. QED  BY <2>1, <2>2, <2>3 DEF PageTypeOK, s, LASTPAGE
<1>. QED  BY <1>1, PageInvariant, PTL
=============================================================================
