---------------------------- MODULE MallocProofs ----------------------------
(***************************************************************************)
(* Proofs about module Malloc, for any page size, header size, number of   *)
(* pages and sizes asked for: chunks never overlap and stay in the heap's  *)
(* pages, the allocated chunks are exactly the blocks the callers hold, no *)
(* memory is lost but the tail of a run of pages, and free neighbours are  *)
(* always joined.                                                          *)
(*                                                                         *)
(* The five invariants are inductive together.  The proofs talk of pages   *)
(* by the addresses they begin at, so that the only arithmetic that is not *)
(* linear is in the first lemmas; splitting and joining are described by   *)
(* what they do to each index of the list.                                 *)
(***************************************************************************)
EXTENDS Malloc, SequenceTheorems, TLAPS

(* Where page g begins. *)
Base(g) == g * PAGE_SIZE

LEMMA BaseFacts ==
  /\ \A g \in Nat : Base(g) \in Nat /\ Base(g + 1) = Base(g) + PAGE_SIZE
  /\ \A g, h \in Nat : g <= h => Base(g) <= Base(h)
<1>1. \A g \in Nat : Base(g) \in Nat /\ Base(g + 1) = Base(g) + PAGE_SIZE
  BY MallocAssumption DEF Base
<1>2. \A g, h \in Nat : g <= h => Base(g) <= Base(h)
  BY MallocAssumption DEF Base
<1>. QED  BY <1>1, <1>2

LEMMA BaseStep ==
  \A g \in Nat : g + 1 \in Nat /\ Base(g) \in Nat /\ Base(g + 1) \in Nat /\ Base(g) < Base(g + 1)
  BY BaseFacts, MallocAssumption

LEMMA BaseSum ==
  ASSUME NEW f \in Nat, NEW n \in Nat
  PROVE  f + n \in Nat /\ Base(f + n) = Base(f) + Base(n)
  BY MallocAssumption DEF Base

LEMMA PageOf ==
  ASSUME NEW a \in Nat, NEW g \in Nat
  PROVE  a \div PAGE_SIZE \in Nat /\ (g <= a \div PAGE_SIZE <=> Base(g) <= a)
<1> DEFINE d == a \div PAGE_SIZE
<1>1. d \in Nat /\ d * PAGE_SIZE <= a /\ a < d * PAGE_SIZE + PAGE_SIZE
  BY MallocAssumption
<1> HIDE DEF d
<1>2. d \in Nat /\ Base(d) <= a /\ a < Base(d + 1) /\ d + 1 \in Nat
  BY <1>1, MallocAssumption DEF Base
<1>3. g <= d => Base(g) <= a
  BY <1>2, BaseFacts
<1>4. ~(g <= d) => ~(Base(g) <= a)
  <2>1. ~(g <= d) => d + 1 <= g
    BY <1>2
  <2>2. ~(g <= d) => Base(d + 1) <= Base(g)
    BY <1>2, <2>1, BaseFacts
  <2>3. Base(g) \in Nat /\ Base(d + 1) \in Nat
    BY <1>2, BaseFacts
  <2>. QED  BY <1>2, <2>2, <2>3
<1>. QED  BY <1>2, <1>3, <1>4 DEF d

LEMMA EnoughPages ==
  ASSUME NEW total \in Nat, total > 0
  PROVE  need_page_num(total) \in Nat /\ need_page_num(total) > 0 /\ total <= Base(need_page_num(total))
<1> DEFINE d == total \div PAGE_SIZE
           m == total % PAGE_SIZE
<1>1. d \in Nat /\ m \in Nat /\ total = d * PAGE_SIZE + m /\ m < PAGE_SIZE
  BY MallocAssumption
<1>2. need_page_num(total) = d + (IF m > 0 THEN 1 ELSE 0)
  BY DEF need_page_num
<1> HIDE DEF d, m
<1>. QED  BY <1>1, <1>2, MallocAssumption DEF Base

-----------------------------------------------------------------------------
(* Chunks: whether two are apart, whether one lies in the pages pg (every   *)
(* page that it overlaps is one of them), and which bytes it holds.         *)
ChunkType == [addr : Nat, size : Nat, allocated : BOOLEAN]

Apart(c, d) == End(c) <= d.addr \/ End(d) <= c.addr
Within(c, pg) == \A g \in Nat : Base(g) < End(c) /\ c.addr < Base(g + 1) => g \in pg
Holds(c, a) == c.addr <= a /\ a < End(c)
Touch(c, d) == ~c.allocated /\ ~d.allocated /\ End(c) = d.addr

(* c and d together are what e is. *)
Halves(c, d, e) == c.addr = e.addr /\ End(c) = d.addr /\ End(d) = End(e)

LEMMA ChunkBytes ==
  ASSUME NEW c \in ChunkType
  PROVE  c.addr \in Nat /\ c.size \in Nat /\ End(c) \in Nat /\ c.addr < End(c)
<1>1. c.addr \in Nat /\ c.size \in Nat
  BY DEF ChunkType
<1>. QED  BY <1>1, MallocAssumption DEF End

LEMMA HalvesFacts ==
  ASSUME NEW c \in ChunkType, NEW d \in ChunkType, NEW e \in ChunkType, Halves(c, d, e)
  PROVE  /\ Apart(c, d) /\ Apart(d, c)
         /\ \A x \in ChunkType : Apart(e, x) <=> Apart(c, x) /\ Apart(d, x)
         /\ \A x \in ChunkType : Apart(x, e) <=> Apart(x, c) /\ Apart(x, d)
         /\ \A pg : Within(e, pg) <=> Within(c, pg) /\ Within(d, pg)
         /\ \A a \in Nat : Holds(e, a) <=> Holds(c, a) \/ Holds(d, a)
<1>1. /\ c.addr \in Nat /\ End(c) \in Nat /\ c.addr < End(c)
      /\ d.addr \in Nat /\ End(d) \in Nat /\ d.addr < End(d)
      /\ e.addr \in Nat /\ End(e) \in Nat
      /\ c.addr = e.addr /\ End(c) = d.addr /\ End(d) = End(e)
  BY ChunkBytes DEF Halves
<1>2. \A x \in ChunkType : x.addr \in Nat /\ End(x) \in Nat /\ x.addr < End(x)
  BY ChunkBytes
<1>3. Apart(c, d) /\ Apart(d, c)
  BY <1>1 DEF Apart
<1>4. \A x \in ChunkType : Apart(e, x) <=> Apart(c, x) /\ Apart(d, x)
  BY <1>1, <1>2 DEF Apart
<1>5. \A x \in ChunkType : Apart(x, e) <=> Apart(x, c) /\ Apart(x, d)
  BY <1>1, <1>2 DEF Apart
<1>6. ASSUME NEW pg  PROVE Within(e, pg) <=> Within(c, pg) /\ Within(d, pg)
  <2>1. \A g \in Nat : g + 1 \in Nat /\ Base(g) \in Nat /\ Base(g + 1) \in Nat /\ Base(g) < Base(g + 1)
    BY BaseStep
  <2>2. ASSUME NEW g \in Nat
        PROVE  Base(g) < End(e) /\ e.addr < Base(g + 1)
                 <=> \/ Base(g) < End(c) /\ c.addr < Base(g + 1)
                     \/ Base(g) < End(d) /\ d.addr < Base(g + 1)
    BY <1>1, <2>1
  <2>. QED  BY <2>2 DEF Within
<1>7. \A a \in Nat : Holds(e, a) <=> Holds(c, a) \/ Holds(d, a)
  BY <1>1 DEF Holds
<1>. QED  BY <1>3, <1>4, <1>5, <1>6, <1>7

-----------------------------------------------------------------------------
(* The list, the bytes it covers, and its allocated blocks. *)
ListOK(s, pg) ==
  /\ s \in Seq(ChunkType)
  /\ \A i, j \in 1..Len(s) : i # j => Apart(s[i], s[j])
  /\ \A i \in 1..Len(s) : Within(s[i], pg)

Covered(s, a) == \E i \in 1..Len(s) : Holds(s[i], a)

BlockOf(c) == [addr |-> c.addr + HDR, size |-> c.size]
Block(s, b) == \E i \in 1..Len(s) : s[i].allocated /\ b = BlockOf(s[i])

(* No neighbours but those at i that could be joined. *)
SeparateBut(s, P) == \A i \in 1..(Len(s) - 1) : i \notin P => ~Touch(s[i], s[i + 1])

ConcatView(N, L, T) ==
  /\ N \in Seq(ChunkType) /\ Len(N) = Len(L) + Len(T)
  /\ \A j \in 1..Len(L) : N[j] = L[j]
  /\ \A j \in 1..Len(T) : N[Len(L) + j] = T[j]

LEMMA ConcatAt ==
  ASSUME NEW L \in Seq(ChunkType), NEW T \in Seq(ChunkType)
  PROVE  ConcatView(L \o T, L, T)
<1> DEFINE m == Len(L)
           n == Len(T)
<1>0. m \in Nat /\ n \in Nat
  OBVIOUS
<1> HIDE DEF m, n
<1>1. /\ L \o T \in Seq(ChunkType) /\ Len(L \o T) = m + n
      /\ \A j \in 1..(m + n) : (L \o T)[j] = IF j <= m THEN L[j] ELSE T[j - m]
  BY ConcatProperties DEF m, n
<1> DEFINE N == L \o T
<1> HIDE DEF N
<1>2. \A j \in 1..(m + n) : N[j] = IF j <= m THEN L[j] ELSE T[j - m]
  BY <1>1 DEF N
<1>3. \A j \in 1..m : N[j] = L[j]
  BY <1>0, <1>2
<1>4. ASSUME NEW j \in 1..n  PROVE N[m + j] = T[j]
  <2>1. m + j \in 1..(m + n) /\ ~(m + j <= m) /\ (m + j) - m = j
    BY <1>0
  <2>. QED  BY <1>2, <2>1
<1>. QED  BY <1>1, <1>3, <1>4 DEF N, m, n, ConcatView

(* N is s with c and d in the place of element i. *)
SplitView(N, s, i, c, d) ==
  /\ N \in Seq(ChunkType) /\ Len(N) = Len(s) + 1
  /\ N[i] = c /\ N[i + 1] = d
  /\ \A j \in 1..(i - 1) : N[j] = s[j]
  /\ \A j \in (i + 1)..Len(s) : N[j + 1] = s[j]

LEMMA SplitParts ==
  ASSUME NEW s \in Seq(ChunkType), NEW i \in 1..Len(s), NEW c \in ChunkType, NEW d \in ChunkType
  PROVE  SplitView(ReplaceAt(InsertAt(s, i + 1, d), i, c), s, i, c, d)
<1> DEFINE L == SubSeq(s, 1, i)
           T == SubSeq(s, i + 1, Len(s))
           K == L \o <<d>>
           M == K \o T
           N == [M EXCEPT ![i] = c]
<1>0. Len(s) \in Nat /\ i \in Nat /\ i >= 1 /\ i <= Len(s)
  OBVIOUS
<1>1. ReplaceAt(InsertAt(s, i + 1, d), i, c) = N
  <2>1. (i + 1) - 1 = i
    BY <1>0
  <2>. QED  BY <2>1 DEF ReplaceAt, InsertAt
<1>2. L \in Seq(ChunkType) /\ Len(L) = i /\ \A j \in 1..i : L[j] = s[j]
  BY <1>0
<1>3. T \in Seq(ChunkType) /\ Len(T) = Len(s) - i /\ \A j \in 1..(Len(s) - i) : T[j] = s[i + j]
  BY <1>0
<1> HIDE DEF L, T
<1>4. /\ K \in Seq(ChunkType) /\ Len(K) = i + 1 /\ K[i + 1] = d
      /\ \A j \in 1..i : K[j] = L[j]
  BY <1>0, <1>2
<1> HIDE DEF K
<1>5. /\ M \in Seq(ChunkType) /\ Len(M) = Len(s) + 1
      /\ \A j \in 1..(i + 1) : M[j] = K[j]
      /\ \A j \in 1..(Len(s) - i) : M[i + 1 + j] = T[j]
  <2>1. i + 1 \in Nat /\ Len(s) - i \in Nat /\ i + 1 + (Len(s) - i) = Len(s) + 1
    BY <1>0
  <2>2. ConcatView(M, K, T)
    BY <1>3, <1>4, ConcatAt
  <2> HIDE DEF M
  <2>. QED  BY <1>3, <1>4, <2>1, <2>2 DEF ConcatView
<1> HIDE DEF M
<1>6. /\ N \in Seq(ChunkType) /\ Len(N) = Len(s) + 1 /\ N[i] = c
      /\ \A j \in 1..(Len(s) + 1) : j # i => N[j] = M[j]
  BY <1>0, <1>5
<1> HIDE DEF N
<1>7. N[i + 1] = d
  BY <1>0, <1>4, <1>5, <1>6
<1>8. \A j \in 1..(i - 1) : N[j] = s[j]
  BY <1>0, <1>2, <1>4, <1>5, <1>6
<1>9. ASSUME NEW j \in (i + 1)..Len(s)  PROVE N[j + 1] = s[j]
  <2>1. j + 1 # i /\ i + 1 + (j - i) = j + 1
    BY <1>0
  <2>2. j + 1 \in 1..(Len(s) + 1) /\ j - i \in 1..(Len(s) - i) /\ i + (j - i) = j
    BY <1>0
  <2>3. N[j + 1] = M[j + 1]
    BY <1>6, <2>1, <2>2
  <2>4. M[j + 1] = T[j - i]
    BY <1>5, <2>1, <2>2
  <2>5. T[j - i] = s[j]
    BY <1>3, <2>2
  <2>. QED  BY <2>3, <2>4, <2>5
<1>. QED  BY <1>1, <1>6, <1>7, <1>8, <1>9 DEF SplitView

(* N is s with c in the place of elements i and i + 1. *)
JoinView(N, s, i, c) ==
  /\ N \in Seq(ChunkType) /\ Len(N) = Len(s) - 1
  /\ N[i] = c
  /\ \A j \in 1..(i - 1) : N[j] = s[j]
  /\ \A j \in (i + 1)..(Len(s) - 1) : N[j] = s[j + 1]

Joined(s, i) == [s[i] EXCEPT !.size = @ + HDR + s[i + 1].size]

LEMMA JoinParts ==
  ASSUME NEW s \in Seq(ChunkType), NEW i, CanJoin(s, i)
  PROVE  /\ i \in 1..(Len(s) - 1) /\ Joined(s, i) \in ChunkType
         /\ Halves(s[i], s[i + 1], Joined(s, i))
         /\ Joined(s, i).allocated = s[i].allocated
         /\ JoinView(Join(s, i), s, i, Joined(s, i))
<1> DEFINE c == Joined(s, i)
           M == [s EXCEPT ![i] = c]
           L == SubSeq(M, 1, i)
           T == SubSeq(M, i + 2, Len(M))
           N == L \o T
<1>0. Len(s) \in Nat /\ i \in 1..(Len(s) - 1) /\ End(s[i]) = s[i + 1].addr
  BY DEF CanJoin
<1>1. i \in 1..Len(s) /\ i + 1 \in 1..Len(s) /\ i \in Nat /\ i >= 1 /\ i + 1 <= Len(s)
  BY <1>0
<1>2. s[i] \in ChunkType /\ s[i + 1] \in ChunkType
  BY <1>1
<1>3. /\ s[i].size \in Nat /\ s[i + 1].size \in Nat /\ s[i].addr \in Nat /\ s[i + 1].addr \in Nat
      /\ HDR \in Nat
  BY <1>2, MallocAssumption DEF ChunkType
<1>4. /\ c \in ChunkType /\ c.addr = s[i].addr /\ c.size = s[i].size + HDR + s[i + 1].size
      /\ c.allocated = s[i].allocated
  <2> DEFINE x == s[i]
             y == s[i].size + HDR + s[i + 1].size
  <2>1. c = [x EXCEPT !.size = y] /\ x \in ChunkType /\ y \in Nat
    BY <1>1, <1>2, <1>3 DEF Joined
  <2> HIDE DEF x, y, c
  <2>2. c \in ChunkType /\ c.addr = x.addr /\ c.size = y /\ c.allocated = x.allocated
    BY <2>1 DEF ChunkType
  <2>. QED  BY <2>2 DEF x, y
<1>5. Halves(s[i], s[i + 1], c)
  <2> HIDE DEF c
  <2>1. s[i + 1].addr = s[i].addr + HDR + s[i].size
    BY <1>0 DEF End
  <2>2. End(s[i + 1]) = End(c)
    <3> DEFINE a == s[i].addr
               m == s[i].size
               n == s[i + 1].size
    <3>1. a \in Nat /\ m \in Nat /\ n \in Nat /\ HDR \in Nat
      BY <1>3
    <3>2. c.addr = a /\ c.size = m + HDR + n
      BY <1>4
    <3>3. End(c) = a + HDR + (m + HDR + n)
      BY <3>2 DEF End
    <3>4. End(s[i + 1]) = (a + HDR + m) + HDR + n
      BY <2>1 DEF End
    <3> HIDE DEF a, m, n
    <3>. QED  BY <3>1, <3>3, <3>4
  <2>. QED  BY <1>0, <1>4, <2>2 DEF Halves
<1>6. Join(s, i) = N
  <2>1. (i + 1) - 1 = i /\ (i + 1) + 1 = i + 2
    BY <1>1
  <2>2. Join(s, i) = RemoveAt(M, i + 1)
    BY <1>1 DEF Join, Joined
  <2>. QED  BY <2>1, <2>2 DEF RemoveAt
<1> HIDE DEF c
<1>7. M \in Seq(ChunkType) /\ Len(M) = Len(s) /\ M[i] = c /\ \A j \in 1..Len(s) : j # i => M[j] = s[j]
  BY <1>1, <1>4
<1> HIDE DEF M
<1>8. L \in Seq(ChunkType) /\ Len(L) = i /\ \A j \in 1..i : L[j] = M[j]
  BY <1>1, <1>7
<1>9. /\ T \in Seq(ChunkType) /\ Len(T) = Len(s) - 1 - i
      /\ \A j \in 1..(Len(s) - 1 - i) : T[j] = M[i + 1 + j]
  BY <1>1, <1>7
<1> HIDE DEF L, T
<1>10. /\ N \in Seq(ChunkType) /\ Len(N) = Len(s) - 1
       /\ \A j \in 1..i : N[j] = L[j]
       /\ \A j \in 1..(Len(s) - 1 - i) : N[i + j] = T[j]
  <2>1. i \in Nat /\ Len(s) - 1 - i \in Nat /\ i + (Len(s) - 1 - i) = Len(s) - 1
    BY <1>0, <1>1
  <2>2. ConcatView(N, L, T)
    BY <1>8, <1>9, ConcatAt
  <2> HIDE DEF N
  <2>. QED  BY <1>8, <1>9, <2>1, <2>2 DEF ConcatView
<1> HIDE DEF N
<1>11. N[i] = c /\ \A j \in 1..(i - 1) : N[j] = s[j]
  <2>1. i \in 1..i /\ \A j \in 1..(i - 1) : j \in 1..i /\ j \in 1..Len(s) /\ j # i
    BY <1>1
  <2>. QED  BY <1>7, <1>8, <1>10, <2>1
<1>12. ASSUME NEW j \in (i + 1)..(Len(s) - 1)  PROVE N[j] = s[j + 1]
  <2>1. /\ j - i \in 1..(Len(s) - 1 - i) /\ i + 1 + (j - i) = j + 1 /\ i + (j - i) = j
        /\ j + 1 \in 1..Len(s) /\ j + 1 # i
    BY <1>0, <1>1
  <2>2. N[j] = T[j - i] /\ T[j - i] = M[j + 1]
    BY <1>9, <1>10, <2>1
  <2>. QED  BY <1>7, <2>1, <2>2
<1>. QED  BY <1>0, <1>4, <1>5, <1>6, <1>10, <1>11, <1>12 DEF JoinView, c

-----------------------------------------------------------------------------
(* Cutting a chunk of the list in two. *)
SplitIndexed(N, s, i, c, d) ==
  /\ \A j \in 1..Len(N) :
       \/ j \in 1..(i - 1) /\ j \in 1..Len(s) /\ j # i /\ N[j] = s[j]
       \/ j = i /\ N[j] = c
       \/ j = i + 1 /\ N[j] = d
       \/ j - 1 \in (i + 1)..Len(s) /\ j - 1 \in 1..Len(s) /\ j - 1 # i /\ N[j] = s[j - 1]
  /\ i \in 1..Len(N) /\ i + 1 \in 1..Len(N)
  /\ \A j \in 1..Len(s) : \/ j \in 1..Len(N) /\ N[j] = s[j]
                          \/ j = i
                          \/ j + 1 \in 1..Len(N) /\ N[j + 1] = s[j]

LEMMA SplitIndex ==
  ASSUME NEW s \in Seq(ChunkType), NEW i \in 1..Len(s), NEW c, NEW d, NEW N,
         SplitView(N, s, i, c, d)
  PROVE  SplitIndexed(N, s, i, c, d)
<1>0. Len(s) \in Nat /\ i \in Nat /\ i >= 1 /\ i <= Len(s) /\ Len(N) = Len(s) + 1
  BY DEF SplitView
<1>1. /\ N[i] = c /\ N[i + 1] = d
      /\ \A j \in 1..(i - 1) : N[j] = s[j]
      /\ \A j \in (i + 1)..Len(s) : N[j + 1] = s[j]
  BY DEF SplitView
<1>2. ASSUME NEW j \in 1..Len(N)
      PROVE  \/ j \in 1..(i - 1) /\ j \in 1..Len(s) /\ j # i
             \/ j = i
             \/ j = i + 1
             \/ j - 1 \in (i + 1)..Len(s) /\ j - 1 \in 1..Len(s) /\ j - 1 # i /\ (j - 1) + 1 = j
  BY <1>0
<1>3. i \in 1..Len(N) /\ i + 1 \in 1..Len(N)
  BY <1>0
<1>4. \A j \in 1..Len(s) : \/ j \in 1..Len(N) /\ j \in 1..(i - 1)
                           \/ j = i
                           \/ j + 1 \in 1..Len(N) /\ j \in (i + 1)..Len(s)
  BY <1>0
<1>5. ASSUME NEW j \in 1..Len(N), j - 1 \in (i + 1)..Len(s), (j - 1) + 1 = j
      PROVE  N[j] = s[j - 1]
  BY <1>1, <1>5
<1>. QED  BY <1>1, <1>2, <1>3, <1>4, <1>5 DEF SplitIndexed

LEMMA Parts ==
  ASSUME NEW x \in ChunkType, NEW y \in ChunkType, NEW X \in ChunkType, NEW Y \in ChunkType,
         Apart(X, Y), X.addr <= x.addr, End(x) <= End(X), Y.addr <= y.addr, End(y) <= End(Y)
  PROVE  Apart(x, y)
<1>1. \A z \in ChunkType : z.addr \in Nat /\ End(z) \in Nat
  BY ChunkBytes
<1>. QED  BY <1>1 DEF Apart

(* From(j) is the place in s from which element j of the longer list comes. *)
LEMMA SplitKeeps ==
  ASSUME NEW s, NEW pg, ListOK(s, pg), NEW i \in 1..Len(s),
         NEW c \in ChunkType, NEW d \in ChunkType, Halves(c, d, s[i]),
         NEW N, SplitView(N, s, i, c, d)
  PROVE  /\ ListOK(N, pg)
         /\ \A a \in Nat : Covered(s, a) => Covered(N, a)
<1> DEFINE From(j) == IF j <= i THEN j ELSE j - 1
<1>0. s \in Seq(ChunkType) /\ N \in Seq(ChunkType) /\ Len(s) \in Nat /\ i \in Nat /\ Len(N) \in Nat
  BY DEF ListOK, SplitView
<1>1. \A j \in 1..Len(s) : s[j] \in ChunkType
  BY <1>0
<1>2. \A j \in 1..Len(N) : N[j] \in ChunkType
  BY <1>0
<1>3. /\ \A j \in 1..Len(N) :
              \/ j \in 1..(i - 1) /\ j \in 1..Len(s) /\ j # i /\ N[j] = s[j]
              \/ j = i /\ N[j] = c
              \/ j = i + 1 /\ N[j] = d
              \/ j - 1 \in (i + 1)..Len(s) /\ j - 1 \in 1..Len(s) /\ j - 1 # i /\ N[j] = s[j - 1]
      /\ i \in 1..Len(N) /\ i + 1 \in 1..Len(N)
      /\ \A j \in 1..Len(s) : \/ j \in 1..Len(N) /\ N[j] = s[j]
                              \/ j = i
                              \/ j + 1 \in 1..Len(N) /\ N[j + 1] = s[j]
  <2>1. SplitIndexed(N, s, i, c, d)
    BY <1>0, SplitIndex
  <2>. QED  BY <2>1 DEF SplitIndexed
<1>4. /\ c.addr \in Nat /\ End(c) \in Nat /\ d.addr \in Nat /\ End(d) \in Nat
      /\ c.addr < End(c) /\ d.addr < End(d)
      /\ c.addr = s[i].addr /\ End(c) = d.addr /\ End(d) = End(s[i])
  BY ChunkBytes DEF Halves
<1>5. ASSUME NEW j \in 1..Len(N)
      PROVE  /\ From(j) \in 1..Len(s)
             /\ s[From(j)].addr <= N[j].addr /\ End(N[j]) <= End(s[From(j)])
  <2>1. CASE j \in 1..(i - 1) /\ j \in 1..Len(s) /\ N[j] = s[j]
    <3>1. From(j) = j
      BY <1>0, <2>1
    <3>. QED  BY <1>1, <2>1, <3>1, ChunkBytes
  <2>2. CASE j = i /\ N[j] = c
    <3>1. From(j) = i
      BY <1>0, <2>2
    <3>. QED  BY <1>4, <2>2, <3>1
  <2>3. CASE j = i + 1 /\ N[j] = d
    <3>1. From(j) = i
      BY <1>0, <2>3
    <3>. QED  BY <1>4, <2>3, <3>1
  <2>4. CASE j - 1 \in (i + 1)..Len(s) /\ j - 1 \in 1..Len(s) /\ N[j] = s[j - 1]
    <3>1. From(j) = j - 1
      BY <1>0, <2>4
    <3>. QED  BY <1>1, <2>4, <3>1, ChunkBytes
  <2>. QED  BY <1>3, <2>1, <2>2, <2>3, <2>4
<1>6. \A j, k \in 1..Len(N) : From(j) = From(k) /\ j # k =>
                                (j = i /\ k = i + 1) \/ (j = i + 1 /\ k = i)
  BY <1>0
<1>7. N[i] = c /\ N[i + 1] = d
  BY DEF SplitView
<1> HIDE DEF From
<1>8. ASSUME NEW j \in 1..Len(N), NEW k \in 1..Len(N), j # k  PROVE Apart(N[j], N[k])
  <2>1. CASE From(j) = From(k)
    BY <1>1, <1>6, <1>7, <1>8, <2>1, HalvesFacts
  <2>2. CASE From(j) # From(k)
    <3>1. Apart(s[From(j)], s[From(k)])
      BY <1>5, <2>2 DEF ListOK
    <3>. QED  BY <1>1, <1>2, <1>5, <3>1, Parts
  <2>. QED  BY <2>1, <2>2
<1>9. Within(c, pg) /\ Within(d, pg)
  BY <1>1, HalvesFacts DEF ListOK
<1>10. \A j \in 1..Len(N) : Within(N[j], pg)
  BY <1>3, <1>9 DEF ListOK
<1>11. ASSUME NEW a \in Nat, NEW j \in 1..Len(s), Holds(s[j], a)  PROVE Covered(N, a)
  <2>1. CASE j = i
    <3>1. Holds(c, a) \/ Holds(d, a)
      BY <1>1, <1>11, <2>1, HalvesFacts
    <3>. QED  BY <1>3, <1>7, <3>1 DEF Covered
  <2>2. CASE j # i
    BY <1>3, <1>11, <2>2 DEF Covered
  <2>. QED  BY <2>1, <2>2
<1>. QED  BY <1>0, <1>8, <1>10, <1>11 DEF ListOK, Covered

(* The blocks of the longer list, and its neighbours. *)
LEMMA SplitBlocks ==
  ASSUME NEW s, NEW pg, ListOK(s, pg), NEW i \in 1..Len(s),
         NEW c \in ChunkType, NEW d \in ChunkType, Halves(c, d, s[i]),
         ~s[i].allocated, c.allocated, ~d.allocated,
         NEW N, SplitView(N, s, i, c, d)
  PROVE  /\ \A b : Block(N, b) <=> Block(s, b) \/ b = BlockOf(c)
         /\ SeparateBut(s, {}) => SeparateBut(N, {})
<1>0. /\ s \in Seq(ChunkType) /\ N \in Seq(ChunkType) /\ Len(s) \in Nat /\ i \in Nat
      /\ Len(N) = Len(s) + 1 /\ i >= 1 /\ i <= Len(s)
  BY DEF ListOK, SplitView
<1>3. /\ \A j \in 1..Len(N) :
              \/ j \in 1..(i - 1) /\ j \in 1..Len(s) /\ j # i /\ N[j] = s[j]
              \/ j = i /\ N[j] = c
              \/ j = i + 1 /\ N[j] = d
              \/ j - 1 \in (i + 1)..Len(s) /\ j - 1 \in 1..Len(s) /\ j - 1 # i /\ N[j] = s[j - 1]
      /\ i \in 1..Len(N) /\ i + 1 \in 1..Len(N)
      /\ \A j \in 1..Len(s) : \/ j \in 1..Len(N) /\ N[j] = s[j]
                              \/ j = i
                              \/ j + 1 \in 1..Len(N) /\ N[j + 1] = s[j]
  <2>1. SplitIndexed(N, s, i, c, d)
    BY <1>0, SplitIndex
  <2>. QED  BY <2>1 DEF SplitIndexed
<1>4. N[i] = c /\ N[i + 1] = d
  BY DEF SplitView
<1>5. ASSUME NEW b  PROVE Block(N, b) <=> Block(s, b) \/ b = BlockOf(c)
  <2>1. ASSUME Block(N, b)  PROVE Block(s, b) \/ b = BlockOf(c)
    <3>1. PICK j \in 1..Len(N) : N[j].allocated /\ b = BlockOf(N[j])
      BY <2>1 DEF Block
    <3>. QED  BY <1>3, <3>1 DEF Block
  <2>2. ASSUME Block(s, b)  PROVE Block(N, b)
    <3>1. PICK j \in 1..Len(s) : s[j].allocated /\ b = BlockOf(s[j])
      BY <2>2 DEF Block
    <3>. QED  BY <1>3, <3>1 DEF Block
  <2>3. ASSUME b = BlockOf(c)  PROVE Block(N, b)
    BY <1>3, <1>4, <2>3 DEF Block
  <2>. QED  BY <2>1, <2>2, <2>3
<1>6. ASSUME SeparateBut(s, {}), NEW j \in 1..(Len(N) - 1)  PROVE ~Touch(N[j], N[j + 1])
  <2>0. \A k \in 1..(Len(s) - 1) : ~Touch(s[k], s[k + 1])
    BY <1>6 DEF SeparateBut
  <2>1. CASE j \in 1..(i - 2)
    <3>1. j \in 1..(i - 1) /\ j + 1 \in 1..(i - 1) /\ j \in 1..(Len(s) - 1)
      BY <1>0, <2>1
    <3>2. N[j] = s[j] /\ N[j + 1] = s[j + 1]
      BY <3>1 DEF SplitView
    <3>. QED  BY <2>0, <3>1, <3>2
  <2>2. CASE j = i - 1
    <3>1. j + 1 = i
      BY <1>0, <2>2
    <3>. QED  BY <1>4, <3>1 DEF Touch
  <2>3. CASE j = i
    BY <1>4, <2>3 DEF Touch
  <2>4. CASE j = i + 1
    <3>1. i + 1 \in (i + 1)..Len(s) /\ i \in 1..(Len(s) - 1)
      BY <1>0, <1>6, <2>4
    <3>2. N[j] = d /\ N[j + 1] = s[i + 1]
      BY <1>4, <2>4, <3>1 DEF SplitView
    <3>3. ~Touch(s[i], s[i + 1])
      BY <2>0, <3>1
    <3>. QED  BY <3>2, <3>3 DEF Touch, Halves
  <2>5. CASE j \in (i + 2)..Len(s)
    <3>1. /\ j - 1 \in (i + 1)..Len(s) /\ (j - 1) + 1 = j /\ j \in (i + 1)..Len(s)
          /\ j - 1 \in 1..(Len(s) - 1)
      BY <1>0, <2>5
    <3>2. N[j] = s[j - 1] /\ N[j + 1] = s[j]
      BY <3>1 DEF SplitView
    <3>3. ~Touch(s[j - 1], s[j])
      BY <2>0, <3>1
    <3>. QED  BY <3>2, <3>3
  <2>6. j \in 1..(i - 2) \/ j = i - 1 \/ j = i \/ j = i + 1 \/ j \in (i + 2)..Len(s)
    BY <1>0, <1>6
  <2>. QED  BY <2>1, <2>2, <2>3, <2>4, <2>5, <2>6
<1>. QED  BY <1>5, <1>6 DEF SeparateBut

-----------------------------------------------------------------------------
(* Joining elements i and i + 1. *)
JoinIndexed(N, s, i, c) ==
  /\ \A j \in 1..Len(N) :
       \/ j = i /\ N[j] = c
       \/ j \in 1..Len(s) /\ j # i /\ j # i + 1 /\ j < i /\ N[j] = s[j]
       \/ j + 1 \in 1..Len(s) /\ j + 1 # i /\ j + 1 # i + 1 /\ j > i /\ N[j] = s[j + 1]
  /\ i \in 1..Len(N) /\ i \in 1..Len(s) /\ i + 1 \in 1..Len(s)
  /\ \A j \in 1..Len(s) : \/ j \in 1..Len(N) /\ N[j] = s[j]
                          \/ j = i \/ j = i + 1
                          \/ j - 1 \in 1..Len(N) /\ N[j - 1] = s[j]

LEMMA JoinIndex ==
  ASSUME NEW s \in Seq(ChunkType), NEW i \in 1..(Len(s) - 1), NEW c, NEW N, JoinView(N, s, i, c)
  PROVE  JoinIndexed(N, s, i, c)
<1>0. Len(s) \in Nat /\ i \in Nat /\ i >= 1 /\ i <= Len(s) - 1 /\ Len(N) = Len(s) - 1
  BY DEF JoinView
<1>1. /\ N[i] = c
      /\ \A j \in 1..(i - 1) : N[j] = s[j]
      /\ \A j \in (i + 1)..(Len(s) - 1) : N[j] = s[j + 1]
  BY DEF JoinView
<1>2. \A j \in 1..Len(N) :
        \/ j = i
        \/ j \in 1..Len(s) /\ j # i /\ j # i + 1 /\ j < i /\ j \in 1..(i - 1)
        \/ /\ j + 1 \in 1..Len(s) /\ j + 1 # i /\ j + 1 # i + 1 /\ j > i
           /\ j \in (i + 1)..(Len(s) - 1)
  BY <1>0
<1>3. i \in 1..Len(N) /\ i \in 1..Len(s) /\ i + 1 \in 1..Len(s)
  BY <1>0
<1>4. \A j \in 1..Len(s) : \/ j \in 1..Len(N) /\ j \in 1..(i - 1)
                           \/ j = i \/ j = i + 1
                           \/ /\ j - 1 \in 1..Len(N) /\ j - 1 \in (i + 1)..(Len(s) - 1)
                              /\ (j - 1) + 1 = j
  BY <1>0
<1>5. ASSUME NEW j \in 1..Len(s), j - 1 \in (i + 1)..(Len(s) - 1), (j - 1) + 1 = j
      PROVE  N[j - 1] = s[j]
  BY <1>1, <1>5
<1>. QED  BY <1>1, <1>2, <1>3, <1>4, <1>5 DEF JoinIndexed

LEMMA JoinKeeps ==
  ASSUME NEW s, NEW pg, ListOK(s, pg), NEW i, CanJoin(s, i)
  PROVE  /\ ListOK(Join(s, i), pg)
         /\ \A a \in Nat : Covered(s, a) => Covered(Join(s, i), a)
         /\ \A b : Block(Join(s, i), b) <=> Block(s, b)
<1> DEFINE N == Join(s, i)
           e == Joined(s, i)
<1>0. s \in Seq(ChunkType)
  BY DEF ListOK
<1>1. /\ i \in 1..(Len(s) - 1) /\ e \in ChunkType /\ Halves(s[i], s[i + 1], e)
      /\ e.allocated = s[i].allocated /\ JoinView(N, s, i, e)
  BY <1>0, JoinParts
<1> HIDE DEF N, e
<1>2. JoinIndexed(N, s, i, e)
  BY <1>0, <1>1, JoinIndex
<1>3. /\ \A j \in 1..Len(N) :
           \/ j = i /\ N[j] = e
           \/ j \in 1..Len(s) /\ j # i /\ j # i + 1 /\ j < i /\ N[j] = s[j]
           \/ j + 1 \in 1..Len(s) /\ j + 1 # i /\ j + 1 # i + 1 /\ j > i /\ N[j] = s[j + 1]
      /\ i \in 1..Len(N) /\ i \in 1..Len(s) /\ i + 1 \in 1..Len(s)
      /\ \A j \in 1..Len(s) : \/ j \in 1..Len(N) /\ N[j] = s[j]
                              \/ j = i \/ j = i + 1
                              \/ j - 1 \in 1..Len(N) /\ N[j - 1] = s[j]
  BY <1>2 DEF JoinIndexed
<1>4. N \in Seq(ChunkType) /\ N[i] = e /\ Len(N) \in Nat /\ i \in Nat
  BY <1>1 DEF JoinView
<1>5. \A j \in 1..Len(s) : s[j] \in ChunkType
  BY <1>0
<1>6. /\ \A x \in ChunkType : Apart(e, x) <=> Apart(s[i], x) /\ Apart(s[i + 1], x)
      /\ \A x \in ChunkType : Apart(x, e) <=> Apart(x, s[i]) /\ Apart(x, s[i + 1])
      /\ Within(e, pg) <=> Within(s[i], pg) /\ Within(s[i + 1], pg)
      /\ \A a \in Nat : Holds(e, a) <=> Holds(s[i], a) \/ Holds(s[i + 1], a)
  BY <1>1, <1>3, <1>5, HalvesFacts
<1>7. \A j, k \in 1..Len(s) : j # k => Apart(s[j], s[k])
  BY DEF ListOK
<1> DEFINE From(j) == IF j < i THEN j ELSE j + 1
<1>8. ASSUME NEW j \in 1..Len(N), j # i
      PROVE  From(j) \in 1..Len(s) /\ From(j) # i /\ From(j) # i + 1 /\ N[j] = s[From(j)]
  <2>1. CASE j \in 1..Len(s) /\ j # i /\ j # i + 1 /\ j < i /\ N[j] = s[j]
    BY <2>1
  <2>2. CASE j + 1 \in 1..Len(s) /\ j + 1 # i /\ j + 1 # i + 1 /\ j > i /\ N[j] = s[j + 1]
    <3>1. ~(j < i)
      BY <1>4, <2>2
    <3>. QED  BY <2>2, <3>1
  <2>. QED  BY <1>3, <1>8, <2>1, <2>2
<1>9. \A j, k \in 1..Len(N) : j # i /\ k # i /\ From(j) = From(k) => j = k
  BY <1>4
<1> HIDE DEF From
<1>10. ASSUME NEW j \in 1..Len(N), NEW k \in 1..Len(N), j # k  PROVE Apart(N[j], N[k])
  <2>1. CASE j # i /\ k # i
    BY <1>7, <1>8, <1>9, <1>10, <2>1
  <2>2. CASE j = i
    <3>1. k # i /\ s[From(k)] \in ChunkType
      BY <1>5, <1>8, <1>10, <2>2
    <3>2. Apart(s[i], s[From(k)]) /\ Apart(s[i + 1], s[From(k)])
      BY <1>3, <1>7, <1>8, <3>1
    <3>. QED  BY <1>4, <1>6, <1>8, <2>2, <3>1, <3>2
  <2>3. CASE k = i
    <3>1. j # i /\ s[From(j)] \in ChunkType
      BY <1>5, <1>8, <1>10, <2>3
    <3>2. Apart(s[From(j)], s[i]) /\ Apart(s[From(j)], s[i + 1])
      BY <1>3, <1>7, <1>8, <3>1
    <3>. QED  BY <1>4, <1>6, <1>8, <2>3, <3>1, <3>2
  <2>. QED  BY <2>1, <2>2, <2>3
<1>11. \A j \in 1..Len(N) : Within(N[j], pg)
  BY <1>3, <1>6 DEF ListOK
<1>12. ASSUME NEW a \in Nat, NEW j \in 1..Len(s), Holds(s[j], a)  PROVE Covered(N, a)
  BY <1>3, <1>4, <1>6, <1>12 DEF Covered
<1>13. ~s[i].allocated /\ ~s[i + 1].allocated /\ ~e.allocated
  BY <1>1 DEF CanJoin
<1>14. ASSUME NEW b  PROVE Block(N, b) <=> Block(s, b)
  <2>1. ASSUME Block(N, b)  PROVE Block(s, b)
    <3>1. PICK j \in 1..Len(N) : N[j].allocated /\ b = BlockOf(N[j])
      BY <2>1 DEF Block
    <3>. QED  BY <1>3, <1>13, <3>1 DEF Block
  <2>2. ASSUME Block(s, b)  PROVE Block(N, b)
    <3>1. PICK j \in 1..Len(s) : s[j].allocated /\ b = BlockOf(s[j])
      BY <2>2 DEF Block
    <3>. QED  BY <1>3, <1>13, <3>1 DEF Block
  <2>. QED  BY <2>1, <2>2
<1>. QED  BY <1>4, <1>10, <1>11, <1>12, <1>14 DEF ListOK, Covered, N

(* Joining at i takes i off the places at which neighbours may touch; the   *)
(* place behind it moves up.                                                *)
LEMMA JoinSeparates ==
  ASSUME NEW s \in Seq(ChunkType), NEW i, CanJoin(s, i)
  PROVE  /\ SeparateBut(s, {i, i + 1}) => SeparateBut(Join(s, i), {i})
         /\ SeparateBut(s, {i}) => SeparateBut(Join(s, i), {})
<1> DEFINE N == Join(s, i)
           e == Joined(s, i)
<1>1. /\ i \in 1..(Len(s) - 1) /\ e.allocated = s[i].allocated
      /\ Halves(s[i], s[i + 1], e) /\ JoinView(N, s, i, e)
  BY JoinParts
<1>2. ~s[i].allocated /\ ~s[i + 1].allocated /\ ~e.allocated
  BY <1>1 DEF CanJoin
<1>3. Len(s) \in Nat /\ i \in Nat /\ i >= 1 /\ i <= Len(s) - 1 /\ Len(N) = Len(s) - 1
  BY <1>1 DEF JoinView
<1>4. e.addr = s[i].addr /\ End(e) = End(s[i + 1])
  BY <1>1 DEF Halves
<1> HIDE DEF N, e
<1>5. /\ N[i] = e
      /\ \A j \in 1..(i - 1) : N[j] = s[j]
      /\ \A j \in (i + 1)..(Len(s) - 1) : N[j] = s[j + 1]
  BY <1>1 DEF JoinView
<1>6. ASSUME NEW j \in 1..(Len(N) - 1), j # i,
             \A k \in 1..(Len(s) - 1) : k # i /\ k # i + 1 => ~Touch(s[k], s[k + 1])
      PROVE  ~Touch(N[j], N[j + 1])
  <2>1. CASE j \in 1..(i - 2)
    <3>1. /\ j \in 1..(i - 1) /\ j + 1 \in 1..(i - 1)
          /\ j \in 1..(Len(s) - 1) /\ j # i /\ j # i + 1
      BY <1>3, <2>1
    <3>. QED  BY <1>5, <1>6, <3>1
  <2>2. CASE j = i - 1
    <3>1. j + 1 = i /\ j \in 1..(i - 1) /\ j \in 1..(Len(s) - 1) /\ j # i /\ j # i + 1
      BY <1>3, <1>6, <2>2
    <3>2. N[j] = s[j] /\ N[j + 1] = e /\ ~Touch(s[j], s[i])
      BY <1>5, <1>6, <3>1
    <3>. QED  BY <1>2, <1>4, <3>2 DEF Touch
  <2>3. CASE j \in (i + 1)..(Len(s) - 2)
    <3>1. /\ j \in (i + 1)..(Len(s) - 1) /\ j + 1 \in (i + 1)..(Len(s) - 1)
          /\ j + 1 \in 1..(Len(s) - 1) /\ j + 1 # i /\ j + 1 # i + 1
      BY <1>3, <2>3
    <3>. QED  BY <1>5, <1>6, <3>1
  <2>4. j \in 1..(i - 2) \/ j = i - 1 \/ j \in (i + 1)..(Len(s) - 2)
    BY <1>3, <1>6
  <2>. QED  BY <2>1, <2>2, <2>3, <2>4
<1>7. ASSUME i \in 1..(Len(N) - 1), \A k \in 1..(Len(s) - 1) : k # i => ~Touch(s[k], s[k + 1])
      PROVE  ~Touch(N[i], N[i + 1])
  <2>1. /\ i + 1 \in (i + 1)..(Len(s) - 1) /\ i + 1 \in 1..(Len(s) - 1) /\ i + 1 # i
    BY <1>3, <1>7
  <2>2. N[i] = e /\ N[i + 1] = s[(i + 1) + 1] /\ ~Touch(s[i + 1], s[(i + 1) + 1])
    BY <1>5, <1>7, <2>1
  <2>. QED  BY <1>2, <1>4, <2>2 DEF Touch
<1>8. SeparateBut(s, {i, i + 1}) => SeparateBut(N, {i})
  BY <1>6 DEF SeparateBut
<1>9. SeparateBut(s, {i}) => SeparateBut(N, {})
  BY <1>6, <1>7 DEF SeparateBut
<1>. QED  BY <1>8, <1>9 DEF N

LEMMA NoJoin ==
  ASSUME NEW s, NEW i, ~CanJoin(s, i), NEW P, SeparateBut(s, {i} \cup P)
  PROVE  SeparateBut(s, P)
<1>1. i \in 1..(Len(s) - 1) => ~Touch(s[i], s[i + 1])
  BY DEF CanJoin, Touch
<1>. QED  BY <1>1 DEF SeparateBut

-----------------------------------------------------------------------------
(* free(): the chunk is marked, then joined with its neighbours. *)
Freed(s, i) == [s EXCEPT ![i].allocated = FALSE]

LEMMA FreedKeeps ==
  ASSUME NEW s, NEW pg, ListOK(s, pg), NEW i \in 1..Len(s), s[i].allocated
  PROVE  /\ ListOK(Freed(s, i), pg)
         /\ \A a \in Nat : Covered(s, a) => Covered(Freed(s, i), a)
         /\ \A b : Block(Freed(s, i), b) <=> Block(s, b) /\ b # BlockOf(s[i])
         /\ SeparateBut(s, {}) => SeparateBut(Freed(s, i), {i - 1, i})
<1> DEFINE N == Freed(s, i)
           c == [s[i] EXCEPT !.allocated = FALSE]
<1>0. s \in Seq(ChunkType) /\ Len(s) \in Nat /\ i \in Nat
  BY DEF ListOK
<1>1. \A j \in 1..Len(s) : s[j] \in ChunkType
  BY <1>0
<1>2. /\ c \in ChunkType /\ c.addr = s[i].addr /\ c.size = s[i].size
      /\ ~c.allocated
  BY <1>1 DEF ChunkType
<1>3. N = [s EXCEPT ![i] = c]
  BY DEF Freed
<1> HIDE DEF N, c
<1>4. N \in Seq(ChunkType) /\ Len(N) = Len(s) /\ N[i] = c /\ \A j \in 1..Len(s) : j # i => N[j] = s[j]
  BY <1>0, <1>2, <1>3
<1>5. \A j \in 1..Len(s) : N[j].addr = s[j].addr /\ N[j].size = s[j].size /\ End(N[j]) = End(s[j])
  BY <1>2, <1>4 DEF End
<1>6. ListOK(N, pg)
  <2>1. \A j, k \in 1..Len(N) : j # k => Apart(N[j], N[k])
    BY <1>4, <1>5 DEF ListOK, Apart
  <2>2. \A j \in 1..Len(N) : Within(N[j], pg)
    BY <1>4, <1>5 DEF ListOK, Within
  <2>. QED  BY <1>4, <2>1, <2>2 DEF ListOK
<1>7. \A a \in Nat : Covered(s, a) => Covered(N, a)
  BY <1>4, <1>5 DEF Covered, Holds
<1>8. ASSUME NEW j \in 1..Len(s), j # i  PROVE BlockOf(s[j]) # BlockOf(s[i])
  <2>1. /\ s[j].addr \in Nat /\ s[i].addr \in Nat /\ s[j].addr < End(s[j]) /\ s[i].addr < End(s[i])
        /\ End(s[i]) \in Nat /\ End(s[j]) \in Nat
    BY <1>1, ChunkBytes
  <2>2. s[j].addr # s[i].addr
    BY <1>8, <2>1 DEF ListOK, Apart
  <2>3. s[j].addr + HDR # s[i].addr + HDR
    BY <2>1, <2>2, MallocAssumption
  <2>. QED  BY <2>3 DEF BlockOf
<1>9. ASSUME NEW b  PROVE Block(N, b) <=> Block(s, b) /\ b # BlockOf(s[i])
  <2>1. ASSUME Block(N, b)  PROVE Block(s, b) /\ b # BlockOf(s[i])
    <3>1. PICK j \in 1..Len(s) : N[j].allocated /\ b = BlockOf(N[j])
      BY <1>4, <2>1 DEF Block
    <3>2. j # i /\ N[j] = s[j]
      BY <1>2, <1>4, <3>1
    <3>. QED  BY <1>8, <3>1, <3>2 DEF Block
  <2>2. ASSUME Block(s, b), b # BlockOf(s[i])  PROVE Block(N, b)
    BY <1>4, <2>2 DEF Block
  <2>. QED  BY <2>1, <2>2
<1>10. ASSUME SeparateBut(s, {}), NEW j \in 1..(Len(N) - 1), j # i - 1, j # i
       PROVE  ~Touch(N[j], N[j + 1])
  <2>1. j \in 1..Len(s) /\ j + 1 \in 1..Len(s) /\ j + 1 # i /\ j \in 1..(Len(s) - 1)
    BY <1>0, <1>4, <1>10
  <2>. QED  BY <1>4, <1>10, <2>1 DEF SeparateBut
<1>. QED  BY <1>6, <1>7, <1>9, <1>10 DEF N, SeparateBut

(* The list that free() leaves. *)
Settled(N, s, pg) ==
  /\ ListOK(N, pg) /\ SeparateBut(N, {})
  /\ \A a \in Nat : Covered(s, a) => Covered(N, a)
  /\ \A b : Block(N, b) <=> Block(s, b)

LEMMA JoinSettles ==
  ASSUME NEW s, NEW pg, ListOK(s, pg), NEW i, SeparateBut(s, {i})
  PROVE  Settled(Join(s, i), s, pg)
<1>0. s \in Seq(ChunkType)
  BY DEF ListOK
<1>1. CASE CanJoin(s, i)
  BY <1>0, <1>1, JoinKeeps, JoinSeparates DEF Settled
<1>2. CASE ~CanJoin(s, i)
  <2>1. Join(s, i) = s
    BY <1>2 DEF Join
  <2>2. SeparateBut(s, {i} \cup {})
    OBVIOUS
  <2>3. SeparateBut(s, {})
    BY <1>2, <2>2, NoJoin
  <2>. QED  BY <2>1, <2>3 DEF Settled
<1>. QED  BY <1>1, <1>2

LEMMA FreeSettles ==
  ASSUME NEW s, NEW pg, ListOK(s, pg), NEW i \in Int, SeparateBut(s, {i - 1, i})
  PROVE  Settled(Join(Join(s, i - 1), IF CanJoin(s, i - 1) THEN i - 1 ELSE i), s, pg)
<1>0. s \in Seq(ChunkType)
  BY DEF ListOK
<1>1. CASE CanJoin(s, i - 1)
  <2> DEFINE J == Join(s, i - 1)
  <2>1. (i - 1) + 1 = i
    OBVIOUS
  <2>2. SeparateBut(s, {i - 1, (i - 1) + 1})
    BY <2>1
  <2>3. SeparateBut(J, {i - 1})
    BY <1>0, <1>1, <2>2, JoinSeparates
  <2>4. /\ ListOK(J, pg) /\ \A a \in Nat : Covered(s, a) => Covered(J, a)
        /\ \A b : Block(J, b) <=> Block(s, b)
    BY <1>1, JoinKeeps
  <2> HIDE DEF J
  <2>5. Settled(Join(J, i - 1), J, pg)
    BY <2>3, <2>4, JoinSettles
  <2>6. Settled(Join(J, i - 1), s, pg)
    BY <2>4, <2>5 DEF Settled
  <2>. QED  BY <1>1, <2>6 DEF J
<1>2. CASE ~CanJoin(s, i - 1)
  <2>1. Join(s, i - 1) = s
    BY <1>2 DEF Join
  <2>2. SeparateBut(s, {i - 1} \cup {i})
    <3>1. {i - 1} \cup {i} = {i - 1, i}
      OBVIOUS
    <3>. QED  BY <3>1
  <2>3. SeparateBut(s, {i})
    BY <1>2, <2>2, NoJoin
  <2>4. Settled(Join(s, i), s, pg)
    BY <2>3, JoinSettles
  <2>. QED  BY <1>2, <2>1, <2>4
<1>. QED  BY <1>1, <1>2

-----------------------------------------------------------------------------
(* A chunk at the end of the list. *)
Extended(N, s, c, pg) ==
  /\ ListOK(N, pg) /\ Len(N) = Len(s) + 1 /\ N[Len(N)] = c
  /\ \A j \in 1..Len(N) : (j \in 1..Len(s) /\ N[j] = s[j]) \/ N[j] = c
  /\ \A a \in Nat : Covered(N, a) <=> Covered(s, a) \/ Holds(c, a)
  /\ \A b : Block(N, b) <=> Block(s, b) \/ (c.allocated /\ b = BlockOf(c))
  /\ SeparateBut(s, {}) /\ (c.allocated \/ (s # <<>> /\ s[Len(s)].allocated))
       => SeparateBut(N, {})

LEMMA AppendKeeps ==
  ASSUME NEW s, NEW pg, ListOK(s, pg), NEW more, pg \subseteq more,
         NEW c \in ChunkType, Within(c, more),
         \A j \in 1..Len(s) : Apart(s[j], c)
  PROVE  Extended(Append(s, c), s, c, more)
<1> DEFINE N == Append(s, c)
<1>0. s \in Seq(ChunkType) /\ Len(s) \in Nat
  BY DEF ListOK
<1>1. /\ N \in Seq(ChunkType) /\ Len(N) = Len(s) + 1 /\ N[Len(s) + 1] = c
      /\ \A j \in 1..Len(s) : N[j] = s[j]
  BY <1>0
<1> HIDE DEF N
<1>2. \A j \in 1..Len(N) : (j \in 1..Len(s) /\ N[j] = s[j]) \/ (j = Len(s) + 1 /\ N[j] = c)
  <2>1. \A j \in 1..Len(N) : j \in 1..Len(s) \/ j = Len(s) + 1
    BY <1>0, <1>1
  <2>. QED  BY <1>1, <2>1
<1>3. /\ Len(s) + 1 \in 1..Len(N)
      /\ \A j \in 1..Len(s) : j \in 1..Len(N)
  BY <1>0, <1>1
<1>4. ASSUME NEW j \in 1..Len(N), NEW k \in 1..Len(N), j # k  PROVE Apart(N[j], N[k])
  <2>1. \A i \in 1..Len(s) : Apart(s[i], c) /\ Apart(c, s[i])
    BY DEF Apart
  <2>. QED  BY <1>2, <1>4, <2>1 DEF ListOK
<1>5. ASSUME NEW j \in 1..Len(N)  PROVE Within(N[j], more)
  <2>1. \A i \in 1..Len(s) : Within(s[i], more)
    BY DEF ListOK, Within
  <2>. QED  BY <1>2, <2>1
<1>6. ListOK(N, more)
  BY <1>1, <1>4, <1>5 DEF ListOK
<1>7. \A a \in Nat : Covered(N, a) <=> Covered(s, a) \/ Holds(c, a)
  BY <1>1, <1>2, <1>3 DEF Covered
<1>8. \A b : Block(N, b) <=> Block(s, b) \/ (c.allocated /\ b = BlockOf(c))
  BY <1>1, <1>2, <1>3 DEF Block
<1>9. ASSUME SeparateBut(s, {}), c.allocated \/ (s # <<>> /\ s[Len(s)].allocated),
             NEW j \in 1..(Len(N) - 1)
      PROVE  ~Touch(N[j], N[j + 1])
  <2>1. CASE j \in 1..(Len(s) - 1)
    <3>1. j \in 1..Len(s) /\ j + 1 \in 1..Len(s)
      BY <1>0, <2>1
    <3>. QED  BY <1>1, <1>9, <2>1, <3>1 DEF SeparateBut
  <2>2. CASE j = Len(s)
    <3>1. j \in 1..Len(s)
      BY <1>0, <1>1, <1>9, <2>2
    <3>2. N[j] = s[Len(s)] /\ N[j + 1] = c
      BY <1>1, <2>2, <3>1
    <3>. QED  BY <1>9, <3>2 DEF Touch
  <2>. QED  BY <1>0, <1>1, <1>9, <2>1, <2>2
<1>10. N[Len(N)] = c
  BY <1>1
<1>. QED  BY <1>1, <1>2, <1>6, <1>7, <1>8, <1>9, <1>10 DEF Extended, SeparateBut, N

(* Pages that are not the heap's hold no byte of a chunk. *)
LEMMA FreshPages ==
  ASSUME NEW s, NEW pg, ListOK(s, pg), NEW f \in Nat, NEW n \in Nat, n > 0,
         \A g \in f..(f + n - 1) : g \notin pg,
         NEW c \in ChunkType, Base(f) <= c.addr, End(c) <= Base(f + n)
  PROVE  /\ \A j \in 1..Len(s) : Apart(s[j], c)
         /\ Within(c, pg \cup f..(f + n - 1))
<1>0. f + n \in Nat /\ c.addr \in Nat /\ End(c) \in Nat
  BY ChunkBytes
<1>1. \A g \in Nat : g + 1 \in Nat /\ Base(g) \in Nat /\ Base(g + 1) \in Nat /\ Base(g) < Base(g + 1)
  BY BaseStep
<1>2. ASSUME NEW j \in 1..Len(s)  PROVE Apart(s[j], c)
  <2> DEFINE x == s[j]
  <2>1. x \in ChunkType
    BY DEF ListOK
  <2>2. x.addr \in Nat /\ End(x) \in Nat /\ x.addr < End(x)
    BY <2>1, ChunkBytes
  <2>3. \A g \in Nat : Base(g) < End(x) /\ x.addr < Base(g + 1) => g \in pg
    BY DEF ListOK, Within
  <2> HIDE DEF x
  <2>4. SUFFICES ASSUME Base(f) < End(x), x.addr < Base(f + n)  PROVE FALSE
    <3>1. Base(f) \in Nat /\ Base(f + n) \in Nat
      BY <1>0, <1>1
    <3>. QED  BY <1>0, <2>2, <3>1 DEF Apart, x
  <2> DEFINE d == x.addr \div PAGE_SIZE
  <2>5. d \in Nat /\ \A g \in Nat : g <= d <=> Base(g) <= x.addr
    BY <2>2, PageOf
  <2> HIDE DEF d
  <2>6. Base(d) <= x.addr /\ x.addr < Base(d + 1)
    <3>1. d + 1 \in Nat /\ ~(d + 1 <= d) /\ d <= d
      BY <2>5
    <3>2. Base(d) <= x.addr /\ ~(Base(d + 1) <= x.addr)
      BY <2>5, <3>1
    <3>3. Base(d + 1) \in Nat
      BY <1>1, <3>1
    <3>. QED  BY <2>2, <3>2, <3>3
  <2>7. d < f + n
    <3>1. Base(f + n) \in Nat
      BY <1>0, <1>1
    <3>2. ~(Base(f + n) <= x.addr)
      BY <2>2, <2>4, <3>1
    <3>3. ~(f + n <= d)
      BY <1>0, <2>5, <3>2
    <3>. QED  BY <1>0, <2>5, <3>3
  <2>8. CASE f <= d
    <3>1. d \in f..(f + n - 1)
      BY <2>5, <2>7, <2>8
    <3>2. Base(d) < End(x)
      <4>1. Base(d) \in Nat
        BY <1>1, <2>5
      <4>. QED  BY <2>2, <2>6, <4>1
    <3>. QED  BY <2>3, <2>5, <2>6, <3>1, <3>2
  <2>9. CASE ~(f <= d)
    <3>1. f \in f..(f + n - 1)
      OBVIOUS
    <3>2. ~(Base(f) <= x.addr)
      BY <2>5, <2>9
    <3>3. x.addr < Base(f + 1)
      <4>1. Base(f) \in Nat /\ Base(f + 1) \in Nat /\ Base(f) < Base(f + 1)
        BY <1>1
      <4>. QED  BY <2>2, <3>2, <4>1
    <3>. QED  BY <2>3, <2>4, <3>1, <3>3
  <2>. QED  BY <2>8, <2>9
<1>3. ASSUME NEW g \in Nat, Base(g) < End(c), c.addr < Base(g + 1)
      PROVE  g \in f..(f + n - 1)
  <2>0. /\ Base(f) \in Nat /\ Base(f + n) \in Nat /\ Base(g) \in Nat /\ Base(g + 1) \in Nat
        /\ g + 1 \in Nat
    BY <1>0, <1>1
  <2>1. Base(g) < Base(f + n) /\ Base(f) < Base(g + 1)
    BY <1>0, <1>3, <2>0
  <2>2. ~(f + n <= g)
    BY <1>0, <2>0, <2>1, BaseFacts
  <2>3. ~(g + 1 <= f)
    BY <2>0, <2>1, BaseFacts
  <2>. QED  BY <1>0, <2>2, <2>3
<1>. QED  BY <1>2, <1>3 DEF Within

-----------------------------------------------------------------------------
(* The heap as the proofs see it. *)
NoLeakIn(s, pg) == \A g \in pg : \A a \in Base(g)..(Base(g + 1) - 1 - HDR) : Covered(s, a)

HeapOK(s, pg, lv) ==
  /\ ListOK(s, pg) /\ SeparateBut(s, {})
  /\ pg \subseteq 0..(NPages - 1)
  /\ \A b : b \in lv <=> Block(s, b)
  /\ \A b \in lv : b.size \in Sizes
  /\ NoLeakIn(s, pg)

(* The inductive invariant: the five invariants together, and that the list *)
(* is a list of chunks.                                                     *)
MallocIInv ==
  /\ chunks \in Seq(ChunkType)
  /\ MallocTypeOK
  /\ ChunksDisjoint
  /\ BlocksKept
  /\ NoLeak
  /\ Coalesced

LEMMA PageRange ==
  ASSUME NEW c \in ChunkType, NEW pg, pg \subseteq Nat
  PROVE  ((c.addr \div PAGE_SIZE)..((End(c) - 1) \div PAGE_SIZE) \subseteq pg) <=> Within(c, pg)
<1> DEFINE lo == c.addr \div PAGE_SIZE
           hi == (End(c) - 1) \div PAGE_SIZE
<1>0. c.addr \in Nat /\ End(c) \in Nat /\ c.addr < End(c) /\ End(c) - 1 \in Nat
  BY ChunkBytes
<1>1. /\ lo \in Nat /\ \A g \in Nat : g <= lo <=> Base(g) <= c.addr
      /\ hi \in Nat /\ \A g \in Nat : g <= hi <=> Base(g) <= End(c) - 1
  BY <1>0, PageOf
<1> HIDE DEF lo, hi
<1>2. ASSUME NEW g \in Nat
      PROVE  g \in lo..hi <=> Base(g) < End(c) /\ c.addr < Base(g + 1)
  <2>1. Base(g) \in Nat /\ Base(g + 1) \in Nat /\ g + 1 \in Nat
    BY BaseFacts
  <2>2. g <= hi <=> Base(g) < End(c)
    BY <1>0, <1>1, <2>1
  <2>3. g + 1 <= lo <=> Base(g + 1) <= c.addr
    BY <1>1, <2>1
  <2>. QED  BY <1>0, <1>1, <2>1, <2>2, <2>3
<1>3. \A g \in lo..hi : g \in Nat
  BY <1>1
<1>4. (lo..hi \subseteq pg) <=> Within(c, pg)
  BY <1>2, <1>3 DEF Within
<1>. QED  BY <1>4 DEF lo, hi

LEMMA IInvAsHeap == MallocIInv <=> HeapOK(chunks, pages, live)
<1> SUFFICES ASSUME chunks \in Seq(ChunkType), pages \subseteq 0..(NPages - 1)
             PROVE  MallocIInv <=> HeapOK(chunks, pages, live)
  BY DEF MallocIInv, HeapOK, ListOK, MallocTypeOK
<1>0. /\ Len(chunks) \in Nat /\ pages \subseteq Nat
      /\ \A i \in 1..Len(chunks) : chunks[i] \in ChunkType
  BY MallocAssumption
<1>1. ChunksDisjoint <=> ListOK(chunks, pages)
  <2>1. \A i \in 1..Len(chunks) :
          ((chunks[i].addr \div PAGE_SIZE)..((End(chunks[i]) - 1) \div PAGE_SIZE) \subseteq pages)
             <=> Within(chunks[i], pages)
    BY <1>0, PageRange
  <2>. QED  BY <2>1, Zenon DEF ChunksDisjoint, ListOK, Apart
<1>2. BlocksKept <=> \A b : b \in live <=> Block(chunks, b)
  BY DEF BlocksKept, Block, BlockOf
<1>3. NoLeak <=> NoLeakIn(chunks, pages)
  BY DEF NoLeak, NoLeakIn, Covered, Holds, Base
<1>4. Coalesced <=> SeparateBut(chunks, {})
  BY DEF Coalesced, SeparateBut, CanJoin, Touch
<1>5. (\A b : b \in live <=> Block(chunks, b))
        => (MallocTypeOK <=> \A b \in live : b.size \in Sizes)
  <2>1. ASSUME \A b : b \in live <=> Block(chunks, b), NEW b \in live  PROVE b.addr \in Nat
    <3>1. PICK i \in 1..Len(chunks) : b = BlockOf(chunks[i])
      BY <2>1 DEF Block
    <3>2. b.addr = chunks[i].addr + HDR
      BY <3>1 DEF BlockOf
    <3>3. chunks[i].addr \in Nat
      BY <1>0, ChunkBytes
    <3>. QED  BY <3>2, <3>3, MallocAssumption
  <2>2. \A i \in 1..Len(chunks) :
          chunks[i].addr \in Nat /\ chunks[i].size \in Nat /\ chunks[i].allocated \in BOOLEAN
    BY <1>0 DEF ChunkType
  <2>. QED  BY <2>1, <2>2 DEF MallocTypeOK
<1>. QED  BY <1>1, <1>2, <1>3, <1>4, <1>5, Zenon DEF MallocIInv, HeapOK

(* A step from one heap to another, and the state after it. *)
LEMMA HeapMoves ==
  ASSUME MallocIInv, HeapOK(chunks, pages, live) => HeapOK(chunks', pages', live')
  PROVE  MallocIInv'
<1>1. (MallocIInv <=> HeapOK(chunks, pages, live))'
  BY IInvAsHeap, PTL
<1>2. (HeapOK(chunks, pages, live))' = HeapOK(chunks', pages', live')
  OBVIOUS
<1>. QED  BY <1>1, <1>2, IInvAsHeap

-----------------------------------------------------------------------------
(* What each operation leaves. *)
LEMMA NoLeakKept ==
  ASSUME NEW s, NEW N, NEW pg, pg \subseteq Nat, NoLeakIn(s, pg),
         \A a \in Nat : Covered(s, a) => Covered(N, a)
  PROVE  NoLeakIn(N, pg)
<1> SUFFICES ASSUME NEW g \in pg, NEW a \in Base(g)..(Base(g + 1) - 1 - HDR)
             PROVE  Covered(N, a)
  BY DEF NoLeakIn
<1>1. Base(g) \in Nat
  BY BaseStep
<1>2. a \in Nat
  BY <1>1
<1>. QED  BY <1>2 DEF NoLeakIn

LEMMA NewChunk ==
  ASSUME NEW addr \in Nat, NEW size \in Nat, NEW al \in BOOLEAN
  PROVE  /\ Chunk(addr, size, al) \in ChunkType
         /\ Chunk(addr, size, al).addr = addr /\ Chunk(addr, size, al).size = size
         /\ Chunk(addr, size, al).allocated = al
         /\ End(Chunk(addr, size, al)) = addr + HDR + size
  BY DEF Chunk, ChunkType, End

(* malloc() in a free chunk that is large enough. *)
SplitList(s, i, size) ==
  ReplaceAt(InsertAt(s, i + 1, Chunk(s[i].addr + HDR + size, s[i].size - (HDR + size), FALSE)),
            i, Chunk(s[i].addr, size, TRUE))

LEMMA SplitHeap ==
  ASSUME NEW s, NEW pg, NEW lv, HeapOK(s, pg, lv), NEW size \in Sizes,
         NEW i \in 1..Len(s), Fits(s[i], size)
  PROVE  HeapOK(SplitList(s, i, size), pg, lv \cup {[addr |-> s[i].addr + HDR, size |-> size]})
<1> DEFINE c == Chunk(s[i].addr, size, TRUE)
           d == Chunk(s[i].addr + HDR + size, s[i].size - (HDR + size), FALSE)
           N == SplitList(s, i, size)
           b == [addr |-> s[i].addr + HDR, size |-> size]
<1>0. s \in Seq(ChunkType) /\ ListOK(s, pg) /\ pg \subseteq Nat
  BY MallocAssumption DEF HeapOK, ListOK
<1>1. s[i].addr \in Nat /\ s[i].size \in Nat /\ s[i] \in ChunkType
  <2>1. s[i] \in ChunkType
    BY <1>0
  <2>. QED  BY <2>1, ChunkBytes
<1>2. /\ size \in Nat /\ HDR \in Nat /\ s[i].size - (HDR + size) \in Nat
      /\ s[i].addr + HDR + size \in Nat /\ ~s[i].allocated
  <2> DEFINE a == s[i].addr
             m == s[i].size
  <2>1. a \in Nat /\ m \in Nat /\ size \in Nat /\ HDR \in Nat
    BY <1>1, MallocAssumption
  <2>2. ~s[i].allocated /\ m >= HDR + size
    BY DEF Fits
  <2> HIDE DEF a, m
  <2>3. m - (HDR + size) \in Nat /\ a + HDR + size \in Nat
    BY <2>1, <2>2
  <2>. QED  BY <2>1, <2>2, <2>3 DEF a, m
<1>3. /\ c \in ChunkType /\ c.addr = s[i].addr /\ c.size = size /\ c.allocated
      /\ End(c) = s[i].addr + HDR + size
  <2>1. size \in Nat /\ s[i].addr \in Nat /\ TRUE \in BOOLEAN
    BY <1>1, <1>2
  <2>. QED  BY <2>1, NewChunk, Zenon
<1>4. /\ d \in ChunkType /\ d.addr = s[i].addr + HDR + size /\ ~d.allocated
      /\ End(d) = (s[i].addr + HDR + size) + HDR + (s[i].size - (HDR + size))
  <2>1. FALSE \in BOOLEAN
    OBVIOUS
  <2>. QED  BY <1>2, <2>1, NewChunk, Zenon
<1>5. N = ReplaceAt(InsertAt(s, i + 1, d), i, c)
  BY DEF SplitList
<1> HIDE DEF c, d, N
<1>6. Halves(c, d, s[i])
  <2> DEFINE a == s[i].addr
             m == s[i].size
  <2>1. a \in Nat /\ m \in Nat
    BY <1>1
  <2>2. End(d) = (a + HDR + size) + HDR + (m - (HDR + size)) /\ End(s[i]) = a + HDR + m
    BY <1>4 DEF End
  <2> HIDE DEF a, m
  <2>3. End(d) = End(s[i])
    BY <1>2, <2>1, <2>2
  <2>. QED  BY <1>3, <1>4, <2>3 DEF Halves
<1>7. SplitView(N, s, i, c, d)
  BY <1>0, <1>3, <1>4, <1>5, SplitParts
<1>8. ListOK(N, pg) /\ \A a \in Nat : Covered(s, a) => Covered(N, a)
  BY <1>0, <1>3, <1>4, <1>6, <1>7, SplitKeeps
<1>9. /\ \A x : Block(N, x) <=> Block(s, x) \/ x = BlockOf(c)
      /\ SeparateBut(s, {}) => SeparateBut(N, {})
  BY <1>0, <1>2, <1>3, <1>4, <1>6, <1>7, SplitBlocks
<1>10. b = BlockOf(c) /\ b.size = size
  BY <1>3 DEF BlockOf
<1> HIDE DEF b
<1>11. \A x : x \in lv \cup {b} <=> Block(N, x)
  BY <1>9, <1>10 DEF HeapOK
<1>12. NoLeakIn(N, pg)
  BY <1>0, <1>8, NoLeakKept DEF HeapOK
<1>13. HeapOK(N, pg, lv \cup {b})
  BY <1>8, <1>9, <1>10, <1>11, <1>12 DEF HeapOK
<1>. QED  BY <1>13 DEF N, b

(* free(): the chunk of the block, joined with its neighbours. *)
FreeList(s, i) ==
  Join(Join(Freed(s, i), i - 1), IF CanJoin(Freed(s, i), i - 1) THEN i - 1 ELSE i)

LEMMA FreeHeap ==
  ASSUME NEW s, NEW pg, NEW lv, HeapOK(s, pg, lv), NEW b \in lv,
         NEW i \in 1..Len(s), s[i].addr = b.addr - HDR
  PROVE  HeapOK(FreeList(s, i), pg, lv \ {b})
<1> DEFINE F == Freed(s, i)
           N == FreeList(s, i)
<1>0. s \in Seq(ChunkType) /\ ListOK(s, pg) /\ pg \subseteq Nat /\ i \in Int /\ SeparateBut(s, {})
  BY MallocAssumption DEF HeapOK, ListOK
<1>1. s[i].allocated /\ b = BlockOf(s[i])
  <2>1. PICK j \in 1..Len(s) : s[j].allocated /\ b = BlockOf(s[j])
    BY DEF HeapOK, Block
  <2>2. s[i] \in ChunkType /\ s[j] \in ChunkType
    BY <1>0
  <2>3. /\ s[i].addr \in Nat /\ End(s[i]) \in Nat /\ s[i].addr < End(s[i])
        /\ s[j].addr \in Nat /\ End(s[j]) \in Nat /\ s[j].addr < End(s[j])
    BY <2>2, ChunkBytes
  <2>4. b.addr = s[j].addr + HDR
    BY <2>1 DEF BlockOf
  <2>5. s[i].addr = s[j].addr
    BY <2>3, <2>4, MallocAssumption
  <2>6. ~Apart(s[i], s[j])
    BY <2>3, <2>5 DEF Apart
  <2>7. i = j
    BY <1>0, <2>6 DEF ListOK
  <2>. QED  BY <2>1, <2>7
<1>2. /\ ListOK(F, pg)
      /\ \A a \in Nat : Covered(s, a) => Covered(F, a)
      /\ \A x : Block(F, x) <=> Block(s, x) /\ x # BlockOf(s[i])
      /\ SeparateBut(F, {i - 1, i})
  BY <1>0, <1>1, FreedKeeps
<1> HIDE DEF F
<1>3. Settled(Join(Join(F, i - 1), IF CanJoin(F, i - 1) THEN i - 1 ELSE i), F, pg)
  BY <1>0, <1>2, FreeSettles
<1>4. Settled(N, F, pg)
  BY <1>3 DEF FreeList, F
<1> HIDE DEF N
<1>5. /\ ListOK(N, pg) /\ SeparateBut(N, {})
      /\ \A a \in Nat : Covered(s, a) => Covered(N, a)
      /\ \A x : Block(N, x) <=> Block(s, x) /\ x # b
  BY <1>1, <1>2, <1>4 DEF Settled
<1>6. \A x : x \in lv \ {b} <=> Block(N, x)
  BY <1>5 DEF HeapOK
<1>7. NoLeakIn(N, pg)
  BY <1>0, <1>5, NoLeakKept DEF HeapOK
<1>8. HeapOK(N, pg, lv \ {b})
  BY <1>5, <1>6, <1>7 DEF HeapOK
<1>. QED  BY <1>8 DEF N

(* malloc() in n new pages from page f on. *)
LEMMA PagesHeap ==
  ASSUME NEW s, NEW pg, NEW lv, HeapOK(s, pg, lv), NEW size \in Sizes, NEW f \in Nat,
         f..(f + need_page_num(HDR + size) - 1) \subseteq (0..(NPages - 1)) \ pg
  PROVE  HeapOK(s \o NewChunks(Base(f), size), pg \cup f..(f + need_page_num(HDR + size) - 1),
                lv \cup {[addr |-> Base(f) + HDR, size |-> size]})
<1> DEFINE total == HDR + size
           n == need_page_num(total)
           remain == Base(n) - total
           run == f..(f + n - 1)
           more == pg \cup run
           c == Chunk(Base(f), size, TRUE)
           d == Chunk(Base(f) + total, remain - HDR, FALSE)
           C == Append(s, c)
           N == s \o NewChunks(Base(f), size)
           b == [addr |-> Base(f) + HDR, size |-> size]
<1>0. /\ s \in Seq(ChunkType) /\ ListOK(s, pg) /\ pg \subseteq Nat /\ SeparateBut(s, {})
      /\ NoLeakIn(s, pg)
  BY MallocAssumption DEF HeapOK, ListOK
<1>1. size \in Nat /\ HDR \in Nat /\ HDR > 0 /\ total \in Nat /\ total > 0 /\ total = HDR + size
  BY MallocAssumption
<1>2. N = IF remain > HDR THEN s \o (<<c>> \o <<d>>) ELSE s \o (<<c>> \o <<>>)
  BY DEF NewChunks, Base
<1> HIDE DEF total
<1>3. n \in Nat /\ n > 0 /\ total <= Base(n) /\ Base(n) \in Nat /\ Base(f) \in Nat
  BY <1>1, EnoughPages, BaseStep
<1>4. run \subseteq (0..(NPages - 1)) \ pg
  BY DEF total
<1> HIDE DEF n
<1>5. f + n \in Nat /\ Base(f + n) = Base(f) + Base(n)
  BY <1>3, BaseSum
<1>6. remain \in Nat /\ Base(f + n) = Base(f) + total + remain /\ (remain > HDR => remain - HDR \in Nat)
  BY <1>1, <1>3, <1>5
<1> HIDE DEF remain, run
<1>7. /\ c \in ChunkType /\ c.addr = Base(f) /\ c.size = size /\ c.allocated
      /\ End(c) = Base(f) + HDR + size
  <2>1. TRUE \in BOOLEAN /\ Base(f) \in Nat /\ size \in Nat
    BY <1>1, <1>3
  <2>. QED  BY <2>1 DEF Chunk, ChunkType, End
<1>8. End(c) = Base(f) + total /\ Base(f) <= c.addr /\ End(c) <= Base(f + n) /\ End(c) \in Nat
  <2> DEFINE a == Base(f)
             m == Base(f + n)
  <2>1. /\ a \in Nat /\ m = a + total + remain /\ remain \in Nat /\ total = HDR + size
        /\ size \in Nat /\ HDR \in Nat
    BY <1>1, <1>3, <1>6
  <2>2. c.addr = a /\ End(c) = a + HDR + size
    BY <1>7
  <2> HIDE DEF a, m, c
  <2>3. End(c) = a + total /\ a <= c.addr /\ End(c) <= m /\ End(c) \in Nat
    BY <2>1, <2>2
  <2>. QED  BY <2>3 DEF a, m
<1>9. remain > HDR => /\ d \in ChunkType /\ d.addr = Base(f) + total /\ ~d.allocated
                      /\ End(d) = (Base(f) + total) + HDR + (remain - HDR)
  <2>1. FALSE \in BOOLEAN /\ Base(f) + total \in Nat
    BY <1>1, <1>3
  <2>. QED  BY <1>6, <2>1, NewChunk, Zenon
<1>10. b = BlockOf(c) /\ b.size = size
  BY <1>7 DEF BlockOf
<1> HIDE DEF c, d, b
<1>11. remain > HDR => End(d) = Base(f + n) /\ Base(f) <= d.addr /\ d.addr = End(c)
  BY <1>1, <1>3, <1>6, <1>8, <1>9
<1>12. \A g \in f..(f + n - 1) : g \notin pg
  BY <1>4 DEF run
<1>13. /\ \A j \in 1..Len(s) : Apart(s[j], c)
       /\ Within(c, more)
  BY <1>0, <1>3, <1>7, <1>8, <1>12, FreshPages DEF run
<1>14. Extended(C, s, c, more)
  BY <1>0, <1>7, <1>13, AppendKeeps
<1>15. ASSUME remain > HDR  PROVE Extended(N, C, d, more)
  <2>1. N = Append(C, d)
    BY <1>0, <1>2, <1>7, <1>9, <1>15
  <2>2. /\ \A j \in 1..Len(s) : Apart(s[j], d)
        /\ Within(d, more)
    <3>1. End(d) <= Base(f + n)
      BY <1>3, <1>5, <1>11, <1>15
    <3>. QED  BY <1>0, <1>3, <1>9, <1>11, <1>12, <1>15, <3>1, FreshPages DEF run
  <2>3. Apart(c, d)
    BY <1>8, <1>11, <1>15 DEF Apart
  <2>4. \A j \in 1..Len(C) : Apart(C[j], d)
    BY <1>14, <2>2, <2>3 DEF Extended
  <2>5. ListOK(C, more)
    BY <1>14 DEF Extended
  <2>. QED  BY <1>9, <1>15, <2>1, <2>2, <2>4, <2>5, AppendKeeps
<1>16. ASSUME ~(remain > HDR)  PROVE N = C
  BY <1>0, <1>2, <1>7, <1>16
<1> HIDE DEF N, C
(* The list, its blocks and its neighbours. *)
<1>17. SeparateBut(C, {}) /\ C[Len(C)].allocated /\ C # <<>>
  <2>1. Len(C) = Len(s) + 1 /\ Len(s) \in Nat
    BY <1>0, <1>14 DEF Extended
  <2>2. C # <<>>
    BY <2>1
  <2>. QED  BY <1>0, <1>7, <1>14, <2>2 DEF Extended
<1>18. ListOK(N, more) /\ SeparateBut(N, {}) /\ \A x : Block(N, x) <=> Block(s, x) \/ x = b
  <2>1. CASE remain > HDR
    BY <1>7, <1>9, <1>10, <1>14, <1>15, <1>17, <2>1 DEF Extended
  <2>2. CASE ~(remain > HDR)
    BY <1>7, <1>10, <1>14, <1>16, <1>17, <2>2 DEF Extended
  <2>. QED  BY <2>1, <2>2
(* No byte is lost. *)
<1>19. \A a \in Nat : Covered(s, a) => Covered(N, a)
  BY <1>14, <1>15, <1>16 DEF Extended
<1>20. ASSUME NEW a \in Nat, Base(f) <= a, a + HDR < Base(f + n)  PROVE Covered(N, a)
  <2>1. CASE remain > HDR
    <3>1. Holds(c, a) \/ Holds(d, a)
      BY <1>1, <1>3, <1>5, <1>7, <1>8, <1>11, <1>20, <2>1 DEF Holds
    <3>. QED  BY <1>14, <1>15, <2>1, <3>1 DEF Extended
  <2>2. CASE ~(remain > HDR)
    <3>1. Holds(c, a)
      BY <1>1, <1>3, <1>6, <1>7, <1>8, <1>20, <2>2 DEF Holds
    <3>. QED  BY <1>14, <1>16, <2>2, <3>1 DEF Extended
  <2>. QED  BY <2>1, <2>2
<1>21. ASSUME NEW g \in run, NEW a \in Base(g)..(Base(g + 1) - 1 - HDR)  PROVE Covered(N, a)
  <2>1. g \in Nat /\ f <= g /\ g + 1 <= f + n /\ g + 1 \in Nat
    BY <1>3 DEF run
  <2>2. /\ Base(g) \in Nat /\ Base(g + 1) \in Nat /\ Base(f) <= Base(g) /\ Base(g + 1) <= Base(f + n)
        /\ Base(f + n) \in Nat
    BY <1>5, <2>1, BaseFacts
  <2>3. a \in Nat /\ Base(f) <= a /\ a + HDR < Base(f + n)
    BY <1>1, <1>3, <2>2
  <2>. QED  BY <1>20, <2>3
<1>22. NoLeakIn(N, pg)
  BY <1>0, <1>19, NoLeakKept
<1>23. NoLeakIn(N, more)
  BY <1>21, <1>22 DEF NoLeakIn
<1>24. \A x : x \in lv \cup {b} <=> Block(N, x)
  BY <1>18 DEF HeapOK
<1>25. more \subseteq 0..(NPages - 1)
  BY <1>4 DEF HeapOK
<1>26. HeapOK(N, more, lv \cup {b})
  BY <1>10, <1>18, <1>23, <1>24, <1>25 DEF HeapOK
<1>. QED  BY <1>26 DEF N, b, n, run, total

-----------------------------------------------------------------------------
LEMMA MallocStarts == malloc_init => MallocIInv
<1> SUFFICES ASSUME malloc_init  PROVE MallocIInv
  OBVIOUS
<1>1. chunks = <<>> /\ pages = {} /\ live = {} /\ Len(chunks) = 0
  BY DEF malloc_init
<1>2. chunks \in Seq(ChunkType)
  BY <1>1
<1>3. MallocTypeOK /\ ChunksDisjoint /\ NoLeak /\ Coalesced
  BY <1>1 DEF MallocTypeOK, ChunksDisjoint, NoLeak, Coalesced, CanJoin
<1>4. BlocksKept
  BY <1>1 DEF BlocksKept
<1>. QED  BY <1>2, <1>3, <1>4 DEF MallocIInv

LEMMA MallocKeeps == MallocIInv /\ [MallocNext]_mallocVars => MallocIInv'
<1> SUFFICES ASSUME MallocIInv, [MallocNext]_mallocVars  PROVE MallocIInv'
  OBVIOUS
<1>0. HeapOK(chunks, pages, live)
  BY IInvAsHeap
<1> SUFFICES HeapOK(chunks', pages', live')
  BY HeapMoves
<1>1. ASSUME NEW size \in Sizes, MallocSplit(size)  PROVE HeapOK(chunks', pages', live')
  <2>1. PICK i \in 1..Len(chunks) :
          /\ Fits(chunks[i], size) /\ chunks' = SplitList(chunks, i, size)
          /\ live' = live \cup {[addr |-> chunks[i].addr + HDR, size |-> size]} /\ pages' = pages
    BY <1>1, Zenon DEF MallocSplit, FirstFit, SplitList
  <2>2. HeapOK(SplitList(chunks, i, size), pages,
               live \cup {[addr |-> chunks[i].addr + HDR, size |-> size]})
    BY <1>0, <2>1, SplitHeap
  <2>. QED  BY <2>1, <2>2, Zenon
<1>2. ASSUME NEW size \in Sizes, MallocPages(size)  PROVE HeapOK(chunks', pages', live')
  <2>1. PICK f \in 0..(NPages - 1) :
          /\ f..(f + need_page_num(HDR + size) - 1) \subseteq (0..(NPages - 1)) \ pages
          /\ pages' = pages \cup f..(f + need_page_num(HDR + size) - 1)
          /\ chunks' = chunks \o NewChunks(Base(f), size)
          /\ live' = live \cup {[addr |-> Base(f) + HDR, size |-> size]}
    BY <1>2, Zenon DEF MallocPages, alloc_page, Base
  <2>2. f \in Nat
    BY MallocAssumption
  <2>3. HeapOK(chunks \o NewChunks(Base(f), size), pages \cup f..(f + need_page_num(HDR + size) - 1),
               live \cup {[addr |-> Base(f) + HDR, size |-> size]})
    BY <1>0, <2>1, <2>2, PagesHeap
  <2>. QED  BY <2>1, <2>3, Zenon
<1>3. ASSUME NEW b \in live, free(b)  PROVE HeapOK(chunks', pages', live')
  <2>1. PICK i \in 1..Len(chunks) :
          chunks[i].addr = b.addr - HDR /\ chunks' = FreeList(chunks, i)
    BY <1>3, Zenon DEF free, FreeList, Freed
  <2>2. live' = live \ {b} /\ pages' = pages
    BY <1>3 DEF free
  <2>3. HeapOK(FreeList(chunks, i), pages, live \ {b})
    BY <1>0, <2>1, FreeHeap
  <2>. QED  BY <2>1, <2>2, <2>3, Zenon
<1>4. ASSUME UNCHANGED mallocVars  PROVE HeapOK(chunks', pages', live')
  BY <1>0, <1>4, Zenon DEF mallocVars
<1>. QED  BY <1>1, <1>2, <1>3, <1>4 DEF MallocNext, malloc

(* The inductive invariant of malloc() and free(). *)
THEOREM MallocInvariant == MallocSpec => []MallocIInv
<1>1. MallocIInv /\ [MallocNext]_mallocVars => MallocIInv'
  BY MallocKeeps
<1>. QED  BY <1>1, MallocStarts, PTL DEF MallocSpec

(* A chunk's address and size are numbers, the heap's pages are pages of    *)
(* alloc_page(), and a caller holds a block of the size it asked for.       *)
THEOREM MallocTypes == MallocSpec => []MallocTypeOK
<1>1. MallocIInv => MallocTypeOK
  BY DEF MallocIInv
<1>. QED  BY <1>1, MallocInvariant, PTL

(* Whatever sequence of malloc() and free() has run, no byte is in two      *)
(* chunks and no chunk leaves the pages alloc_page() gave to the heap:      *)
(* split (malloc.c:24-36) and joins (malloc.c:84-93) included.              *)
THEOREM MallocNoOverlap == MallocSpec => []ChunksDisjoint
<1>1. MallocIInv => ChunksDisjoint
  BY DEF MallocIInv
<1>. QED  BY <1>1, MallocInvariant, PTL

(* The allocated chunks are exactly the blocks the callers hold, with the   *)
(* addresses and sizes malloc() gave them.                                  *)
THEOREM MallocKeepsBlocks == MallocSpec => []BlocksKept
<1>1. MallocIInv => BlocksKept
  BY DEF MallocIInv
<1>. QED  BY <1>1, MallocInvariant, PTL

(* Only the last HDR bytes of a page can be in no chunk. *)
THEOREM MallocLosesNothing == MallocSpec => []NoLeak
<1>1. MallocIInv => NoLeak
  BY DEF MallocIInv
<1>. QED  BY <1>1, MallocInvariant, PTL

(* The two joins of free() are enough: no two list neighbours are ever both *)
(* free and adjacent in memory.                                             *)
THEOREM MallocCoalesces == MallocSpec => []Coalesced
<1>1. MallocIInv => Coalesced
  BY DEF MallocIInv
<1>. QED  BY <1>1, MallocInvariant, PTL
=============================================================================
