---------------------------- MODULE ProcessProofs ----------------------------
(***************************************************************************)
(* What fork, execve, exit and wait of proc.c keep, for every number of    *)
(* processes and pages.                                                    *)
(*                                                                         *)
(* FamilyTree says what a walk along ->optr meets, and the links alone do  *)
(* not tell that it ends: brothers could form a ring that no child's       *)
(* ->yptr betrays.  Linkage therefore asks for a rank that falls along     *)
(* ->optr.  do_fork() and an adoption give the new youngest child a rank   *)
(* above all others; recycle_child() keeps the ranks.  BrothersFamily      *)
(* turns the rank into the sequence that FamilyTree speaks of.             *)
(*                                                                         *)
(* The steps that unlink a process need to know that it has no children:   *)
(* do_exit() has sent them away (SendKeeps, an induction over the turns of *)
(* its loop), and nobody adopts any but init.  That do_waitpid(0), which   *)
(* tests the oldest pcb without asking for its parent, never reaps it      *)
(* needs that init is the oldest and, unless it hangs, exits as the last.  *)
(*                                                                         *)
(* The areas of an mm keep one shape, OneArea, through copy_mm() and       *)
(* through the create_vma() of execve: the area of the code is greater     *)
(* than all others, and such an area goes nowhere.                         *)
(***************************************************************************)
EXTENDS Process, FiniteSetTheorems, SequenceTheorems, WellFoundedInduction, NaturalsInduction, TLAPS

(* Induction on a set of numbers. *)
LEMMA SetInduction ==
  ASSUME NEW S, 0 \in S, \A n \in Nat : n \in S => n + 1 \in S
  PROVE  Nat \subseteq S
<1> DEFINE U == Nat \ S
           R == OpToRel(<, Nat)
<1>. SUFFICES ASSUME U # {}  PROVE FALSE
  OBVIOUS
<1>1. IsWellFoundedOn(R, Nat)
  BY NatLessThanWellFounded, Zenon
<1>2. \A x, y \in Nat : <<y, x>> \in R <=> y < x
  BY DEF OpToRel
<1> HIDE DEF R
<1>3. PICK x \in U : \A y \in U : ~(<<y, x>> \in R)
  BY <1>1, WFMin
<1>4. x \in Nat /\ x # 0 /\ x - 1 \in Nat
  BY <1>3
<1>5. x - 1 \in S
  <2>1. x - 1 < x
    BY <1>4
  <2>2. <<x - 1, x>> \in R
    BY <1>2, <1>4, <2>1
  <2>. QED  BY <1>3, <1>4, <2>2
<1>6. x - 1 + 1 \in S
  BY <1>4, <1>5
<1>. QED  BY <1>3, <1>4, <1>6

-----------------------------------------------------------------------------
PcbRecord ==
  [state : {"TASK_READY", "TASK_RUNNABLE", "TASK_ZOMBIE"},
   parent : Pids \cup {NULL}, cptr : Pids \cup {NULL},
   yptr : Pids \cup {NULL}, optr : Pids \cup {NULL},
   mm : Pids \cup {NULL}, stack : Pages \cup {0}]
PcbTable == [Pids -> PcbRecord]

LEMMA PidFacts ==
  /\ MAX_PROCESS \in Nat /\ MAX_PROCESS > 2
  /\ Pids \subseteq Nat /\ IsFiniteSet(Pids) /\ Cardinality(Pids) = MAX_PROCESS
  /\ idle \in Pids /\ init_proc \in Pids /\ NULL \notin Pids /\ idle # init_proc
<1>1. MAX_PROCESS \in Nat /\ MAX_PROCESS > 2
  BY ProcessAssumption
<1>2. IsFiniteSet(0..(MAX_PROCESS - 1)) /\ Cardinality(0..(MAX_PROCESS - 1)) = MAX_PROCESS
  BY <1>1, FS_Interval
<1>. QED  BY <1>1, <1>2 DEF Pids, idle, init_proc, NULL

(* The brothers, one after the other. *)
Older(P, c, N, o) ==
  o = [n \in 0..N |-> IF n = 0 THEN c ELSE IF o[n - 1] = NULL THEN NULL ELSE P[o[n - 1]].optr]

LEMMA BrothersAre ==
  \A P, c : LET o == CHOOSE o : Older(P, c, MAX_PROCESS, o) IN
    Brothers(P, c) = [i \in 1..Cardinality({n \in 0..MAX_PROCESS : o[n] # NULL}) |-> o[i - 1]]
  BY DEF Brothers, Older

LEMMA OlderExists ==
  ASSUME NEW P, NEW c
  PROVE  \A N \in Nat : \E o : Older(P, c, N, o)
<1> DEFINE S == {N \in Nat : \E o : Older(P, c, N, o)}
<1>1. 0 \in S
  <2> DEFINE o == [n \in 0..0 |-> c]
  <2>1. Older(P, c, 0, o)
    BY DEF Older
  <2>. QED  BY <2>1
<1>2. ASSUME NEW N \in Nat, N \in S  PROVE N + 1 \in S
  <2>1. PICK o : Older(P, c, N, o)
    BY <1>2
  <2> DEFINE last == IF o[N] = NULL THEN NULL ELSE P[o[N]].optr
             e(f, n) == IF n = 0 THEN c ELSE IF f[n - 1] = NULL THEN NULL ELSE P[f[n - 1]].optr
             h == [n \in 0..(N + 1) |-> IF n = N + 1 THEN last ELSE o[n]]
  <2>2. \A n \in 0..N : o[n] = e(o, n)
    BY <2>1 DEF Older
  <2>3. ASSUME NEW n \in 0..(N + 1)  PROVE h[n] = e(h, n)
    <3>1. CASE n = N + 1
      <4>1. n # 0 /\ n - 1 = N /\ N \in 0..(N + 1) /\ N # N + 1
        BY <3>1
      <4>2. h[n - 1] = o[N]
        BY <4>1
      <4>. QED  BY <3>1, <4>1, <4>2
    <3>2. CASE n # N + 1
      <4>1. n \in 0..N
        BY <3>2
      <4>2. n # 0 => n - 1 \in 0..(N + 1) /\ n - 1 # N + 1
        BY <4>1
      <4>3. n # 0 => h[n - 1] = o[n - 1]
        BY <4>2
      <4>. QED  BY <2>2, <3>2, <4>1, <4>3
    <3>. QED  BY <3>1, <3>2
  <2>4. h = [n \in 0..(N + 1) |-> e(h, n)]
    <3>1. h = [n \in 0..(N + 1) |-> h[n]]
      OBVIOUS
    <3> HIDE DEF h, e
    <3>. QED  BY <2>3, <3>1
  <2>5. Older(P, c, N + 1, h)
    <3> HIDE DEF h
    <3>. QED  BY <2>4 DEF Older
  <2>. QED  BY <2>5
<1>. QED  BY <1>1, <1>2, SetInduction

-----------------------------------------------------------------------------
(* The links of the live processes L, each by each: ->cptr leads to a child *)
(* without a younger brother, and to every such child; ->yptr and ->optr    *)
(* are converse to each other and stay among the children of one process.   *)
(* The rank r falls along ->optr, so that no brothers form a ring.          *)
Family(P, L, r) ==
  /\ \A p \in L \cup {idle} :
       P[p].cptr # NULL =>
         P[p].cptr \in L /\ P[P[p].cptr].parent = p /\ P[P[p].cptr].yptr = NULL
  /\ \A q \in L :
       /\ P[q].parent \in L \cup {idle}
       /\ P[q].yptr = NULL => P[P[q].parent].cptr = q
       /\ P[q].yptr # NULL =>
            P[q].yptr \in L /\ P[P[q].yptr].optr = q /\ P[P[q].yptr].parent = P[q].parent
       /\ P[q].optr # NULL =>
            /\ P[q].optr \in L /\ P[P[q].optr].yptr = q /\ P[P[q].optr].parent = P[q].parent
            /\ r[P[q].optr] < r[q]

Children(P, L, p) == {q \in L : P[q].parent = p}

(* Among finitely many processes one has the greatest rank. *)
LEMMA MaxRank ==
  ASSUME NEW r \in [Pids -> Nat], NEW S \in SUBSET Pids, S # {}
  PROVE  \E x \in S : \A y \in S : r[y] <= r[x]
<1> DEFINE Ok(Z) == Z # {} => \E x \in Z : \A y \in Z : r[y] <= r[x]
           G == {n \in Nat : \A Z \in SUBSET Pids : Z \subseteq 0..n => Ok(Z)}
<1>0. Pids \subseteq Nat
  BY PidFacts
<1>1. 0 \in G
  <2> SUFFICES ASSUME NEW Z \in SUBSET Pids, Z \subseteq 0..0, Z # {}
               PROVE  \E x \in Z : \A y \in Z : r[y] <= r[x]
    OBVIOUS
  <2>0. \A z \in Z : z = 0
    OBVIOUS
  <2>1. Z = {0}
    BY <2>0
  <2>2. r[0] \in Nat /\ r[0] <= r[0]
    BY <2>1
  <2>. QED  BY <2>1, <2>2
<1>2. ASSUME NEW n \in Nat, n \in G  PROVE n + 1 \in G
  <2> SUFFICES ASSUME NEW Z \in SUBSET Pids, Z \subseteq 0..(n + 1), Z # {}
               PROVE  \E x \in Z : \A y \in Z : r[y] <= r[x]
    OBVIOUS
  <2> DEFINE Y == Z \ {n + 1}
  <2>1. Y \in SUBSET Pids /\ Y \subseteq 0..n
    OBVIOUS
  <2>2. Ok(Y)
    BY <1>2, <2>1
  <2>3. \A z \in Z : r[z] \in Nat
    OBVIOUS
  <2>4. CASE n + 1 \notin Z
    <3>1. Y = Z
      BY <2>4
    <3>. QED  BY <2>2, <3>1
  <2>5. CASE n + 1 \in Z /\ Y = {}
    <3>1. Z = {n + 1}
      BY <2>5
    <3>. QED  BY <2>3, <3>1
  <2>6. CASE n + 1 \in Z /\ Y # {}
    <3>1. PICK x \in Y : \A y \in Y : r[y] <= r[x]
      BY <2>2, <2>6
    <3>2. x \in Z /\ r[x] \in Nat /\ r[n + 1] \in Nat
      BY <2>3, <2>6
    <3>3. CASE r[n + 1] <= r[x]
      BY <3>1, <3>2, <3>3
    <3>4. CASE r[x] <= r[n + 1]
      <4>1. \A y \in Z : r[y] <= r[n + 1]
        BY <2>3, <3>1, <3>2, <3>4
      <4>. QED  BY <2>6, <4>1
    <3>. QED  BY <3>2, <3>3, <3>4
  <2>. QED  BY <2>4, <2>5, <2>6
<1>3. MAX_PROCESS \in Nat /\ Pids \subseteq 0..MAX_PROCESS
  BY PidFacts DEF Pids
<1>4. MAX_PROCESS \in G
  <2> HIDE DEF G
  <2>. QED  BY <1>1, <1>2, <1>3, SetInduction
<1>. QED  BY <1>3, <1>4

(* What is found from the youngest child of p along ->optr. *)
LEMMA OlderBrothers ==
  ASSUME NEW P \in PcbTable, NEW L \in SUBSET Pids, NEW r \in [Pids -> Nat],
         Family(P, L, r), NEW p \in L \cup {idle},
         NEW o, Older(P, P[p].cptr, MAX_PROCESS, o)
  PROVE  /\ o[0] = P[p].cptr
         /\ \A n \in 0..MAX_PROCESS : o[n] \in Children(P, L, p) \cup {NULL}
         /\ \A n \in 0..(MAX_PROCESS - 1) :
              /\ o[n] = NULL => o[n + 1] = NULL
              /\ o[n] # NULL => o[n + 1] = P[o[n]].optr
         /\ \A n, m \in 0..MAX_PROCESS : n < m /\ o[m] # NULL => o[n] # NULL /\ r[o[m]] < r[o[n]]
<1> DEFINE M == MAX_PROCESS
           K == Children(P, L, p)
<1>0. M \in Nat /\ NULL \notin Pids
  BY PidFacts
<1>1. o[0] = P[p].cptr
  BY <1>0 DEF Older
<1>2. ASSUME NEW n \in 0..(M - 1)
      PROVE  o[n + 1] = IF o[n] = NULL THEN NULL ELSE P[o[n]].optr
  <2>1. n + 1 \in 0..M /\ n + 1 # 0 /\ (n + 1) - 1 = n
    BY <1>0
  <2>. QED  BY <2>1 DEF Older
<1>3. \A n \in 0..M : o[n] \in K \cup {NULL}
  <2> DEFINE S == {n \in Nat : n <= M => o[n] \in K \cup {NULL}}
  <2>1. 0 \in S
    BY <1>1 DEF Family, Children
  <2>2. ASSUME NEW n \in Nat, n \in S  PROVE n + 1 \in S
    <3> SUFFICES ASSUME n + 1 <= M  PROVE o[n + 1] \in K \cup {NULL}
      OBVIOUS
    <3>1. n \in 0..(M - 1) /\ o[n] \in K \cup {NULL}
      BY <1>0, <2>2
    <3>2. o[n + 1] = IF o[n] = NULL THEN NULL ELSE P[o[n]].optr
      BY <1>2, <3>1
    <3>. QED  BY <3>1, <3>2 DEF Family, Children
  <2>3. Nat \subseteq S
    <3> HIDE DEF S
    <3>. QED  BY <2>1, <2>2, SetInduction
  <2>. QED  BY <1>0, <2>3
<1>4. ASSUME NEW n \in 0..M
      PROVE  \A m \in 0..M : n < m /\ o[m] # NULL => o[n] # NULL /\ r[o[m]] < r[o[n]]
  <2> DEFINE S == {m \in Nat : m <= M /\ n < m /\ o[m] # NULL => o[n] # NULL /\ r[o[m]] < r[o[n]]}
  <2>1. 0 \in S
    BY <1>0
  <2>2. ASSUME NEW m \in Nat, m \in S  PROVE m + 1 \in S
    <3> SUFFICES ASSUME m + 1 <= M, n < m + 1, o[m + 1] # NULL
                 PROVE  o[n] # NULL /\ r[o[m + 1]] < r[o[n]]
      OBVIOUS
    <3>1. m \in 0..(M - 1) /\ m \in 0..M /\ m + 1 \in 0..M
      BY <1>0
    <3>2. o[m] # NULL /\ o[m + 1] = P[o[m]].optr
      BY <1>2, <3>1
    <3>3. o[m] \in K /\ o[m + 1] \in K
      BY <1>3, <3>1, <3>2
    <3>4. r[o[m + 1]] < r[o[m]]
      BY <3>2, <3>3 DEF Family, Children
    <3>5. CASE n = m
      BY <3>2, <3>4, <3>5
    <3>6. CASE n < m
      <4>1. o[n] # NULL /\ r[o[m]] < r[o[n]]
        BY <2>2, <3>1, <3>2, <3>6
      <4>2. o[n] \in K
        BY <1>3, <4>1
      <4>3. r[o[m + 1]] \in Nat /\ r[o[m]] \in Nat /\ r[o[n]] \in Nat
        BY <3>3, <4>2 DEF Children
      <4>. QED  BY <3>4, <4>1, <4>3
    <3>. QED  BY <1>0, <3>1, <3>5, <3>6
  <2>3. Nat \subseteq S
    <3> HIDE DEF S
    <3>. QED  BY <2>1, <2>2, SetInduction
  <2>. QED  BY <1>0, <2>3
<1>. QED  BY <1>1, <1>2, <1>3, <1>4

(* The family of p as a sequence: its children, the youngest first, each    *)
(* once, and ->yptr leads back.                                             *)
IsFamily(P, L, p, s) ==
  /\ s \in Seq(Children(P, L, p))
  /\ Len(s) = Cardinality(Children(P, L, p))
  /\ {s[i] : i \in 1..Len(s)} = Children(P, L, p)
  /\ \A i, j \in 1..Len(s) : s[i] = s[j] => i = j
  /\ P[p].cptr = IF Len(s) = 0 THEN NULL ELSE s[1]
  /\ \A i \in 1..Len(s) : P[s[i]].optr = IF i = Len(s) THEN NULL ELSE s[i + 1]
  /\ \A i \in 1..Len(s) : P[s[i]].yptr = IF i = 1 THEN NULL ELSE s[i - 1]

LEMMA BrothersFamily ==
  ASSUME NEW P \in PcbTable, NEW L \in SUBSET Pids, NEW r \in [Pids -> Nat],
         Family(P, L, r), NEW p \in L \cup {idle}
  PROVE  IsFamily(P, L, p, Brothers(P, P[p].cptr))
<1> DEFINE M == MAX_PROCESS
           K == Children(P, L, p)
           o == CHOOSE o : Older(P, P[p].cptr, M, o)
<1>0. /\ M \in Nat /\ NULL \notin Pids /\ K \subseteq Pids /\ K \subseteq L
      /\ IsFiniteSet(Pids) /\ Cardinality(Pids) = M
  BY PidFacts DEF Children
<1>1. Older(P, P[p].cptr, M, o)
  BY <1>0, OlderExists
<1>2. Brothers(P, P[p].cptr) = [i \in 1..Cardinality({n \in 0..M : o[n] # NULL}) |-> o[i - 1]]
  BY BrothersAre
<1> HIDE DEF o
<1>3. /\ o[0] = P[p].cptr
      /\ \A n \in 0..M : o[n] \in K \cup {NULL}
      /\ \A n \in 0..(M - 1) :
           /\ o[n] = NULL => o[n + 1] = NULL
           /\ o[n] # NULL => o[n + 1] = P[o[n]].optr
      /\ \A n, m \in 0..M : n < m /\ o[m] # NULL => o[n] # NULL /\ r[o[m]] < r[o[n]]
  BY <1>1, OlderBrothers
<1>4. ASSUME NEW n \in 0..M, NEW m \in 0..M, o[n] # NULL, o[m] # NULL, o[n] = o[m]
      PROVE  n = m
  <2>1. o[n] \in Pids /\ r[o[n]] \in Nat
    BY <1>0, <1>3, <1>4
  <2>2. n \in Int /\ m \in Int
    BY <1>0
  <2>. QED  BY <1>3, <1>4, <2>1, <2>2
<1>5. \E n \in 0..M : o[n] = NULL
  <2> SUFFICES ASSUME \A n \in 0..M : o[n] # NULL  PROVE FALSE
    OBVIOUS
  <2> DEFINE f == [n \in 0..M |-> o[n]]
  <2>1. f \in [0..M -> Pids]
    BY <1>0, <1>3
  <2>2. IsFiniteSet(0..M) /\ Cardinality(0..M) = M + 1
    BY <1>0, FS_Interval
  <2>3. Cardinality(Pids) < Cardinality(0..M)
    BY <1>0, <2>2
  <2> HIDE DEF f
  <2>4. \E x, y \in 0..M : x # y /\ f[x] = f[y]
    BY <1>0, <2>1, <2>2, <2>3, FS_PigeonHole
  <2>. QED  BY <1>4, <2>4 DEF f
<1>6. PICK k \in 0..M : o[k] = NULL /\ \A n \in 0..M : n < k => o[n] # NULL
  <2> DEFINE S == {n \in Nat : \A m \in 0..M : m <= n => o[m] # NULL}
  <2> SUFFICES ASSUME \A k \in 0..M : o[k] = NULL => \E n \in 0..M : n < k /\ o[n] = NULL
               PROVE  FALSE
    OBVIOUS
  <2>1. 0 \in S
    BY <1>0
  <2>2. ASSUME NEW n \in Nat, n \in S  PROVE n + 1 \in S
    <3> SUFFICES ASSUME NEW m \in 0..M, m <= n + 1, o[m] = NULL  PROVE FALSE
      OBVIOUS
    <3>1. PICK j \in 0..M : j < m /\ o[j] = NULL
      OBVIOUS
    <3>2. j <= n
      BY <3>1
    <3>. QED  BY <2>2, <3>1, <3>2
  <2>3. M \in S
    <3> HIDE DEF S
    <3>. QED  BY <1>0, <2>1, <2>2, SetInduction
  <2>. QED  BY <1>5, <2>3
<1>7. {n \in 0..M : o[n] # NULL} = 0..(k - 1)
  <2>1. \A n \in 0..M : o[n] # NULL => n < k
    <3> SUFFICES ASSUME NEW n \in 0..M, o[n] # NULL, ~(n < k)  PROVE FALSE
      OBVIOUS
    <3>1. n = k \/ k < n
      BY <1>0
    <3>. QED  BY <1>3, <1>6, <3>1
  <2>2. \A n \in 0..M : o[n] # NULL <=> n < k
    BY <1>6, <2>1
  <2>. QED  BY <1>0, <2>2
<1>8. Cardinality(0..(k - 1)) = k /\ k \in Nat
  BY <1>0, FS_Interval
<1> DEFINE s == [i \in 1..k |-> o[i - 1]]
<1>9. Brothers(P, P[p].cptr) = s
  BY <1>2, <1>7, <1>8
<1>10. /\ s \in [1..k -> K]
       /\ \A i \in 1..k : s[i] = o[i - 1] /\ i - 1 \in 0..M /\ o[i - 1] # NULL
  <2>1. \A i \in 1..k : i - 1 \in 0..M /\ i - 1 < k
    BY <1>0
  <2>2. \A i \in 1..k : o[i - 1] # NULL /\ o[i - 1] \in K
    BY <1>3, <1>6, <2>1
  <2>. QED  BY <2>1, <2>2
<1> HIDE DEF s, K
<1>11. s \in Seq(K) /\ Len(s) = k
  BY <1>8, <1>10
<1>12. \A i, j \in 1..k : s[i] = s[j] => i = j
  <2> SUFFICES ASSUME NEW i \in 1..k, NEW j \in 1..k, s[i] = s[j]  PROVE i = j
    OBVIOUS
  <2>1. i - 1 = j - 1
    BY <1>4, <1>10
  <2>. QED  BY <2>1
<1>13. P[p].cptr = IF k = 0 THEN NULL ELSE s[1]
  <2>1. CASE k = 0
    BY <1>3, <1>6, <2>1
  <2>2. CASE k # 0
    BY <1>3, <1>10, <2>2
  <2>. QED  BY <2>1, <2>2
<1>14. \A i \in 1..k : P[s[i]].optr = IF i = k THEN NULL ELSE s[i + 1]
  <2> SUFFICES ASSUME NEW i \in 1..k
               PROVE  P[s[i]].optr = IF i = k THEN NULL ELSE s[i + 1]
    OBVIOUS
  <2>1. i - 1 \in 0..(M - 1) /\ (i - 1) + 1 = i
    BY <1>0
  <2>2. P[s[i]].optr = o[i]
    BY <1>3, <1>10, <2>1
  <2>3. CASE i = k
    BY <1>6, <2>2, <2>3
  <2>4. CASE i # k
    <3>1. i + 1 \in 1..k /\ (i + 1) - 1 = i
      BY <2>4
    <3>. QED  BY <1>10, <2>2, <2>4, <3>1
  <2>. QED  BY <2>3, <2>4
<1>15. \A i \in 1..k : P[s[i]].yptr = IF i = 1 THEN NULL ELSE s[i - 1]
  <2> SUFFICES ASSUME NEW i \in 1..k
               PROVE  P[s[i]].yptr = IF i = 1 THEN NULL ELSE s[i - 1]
    OBVIOUS
  <2>1. CASE i = 1
    <3>1. P[p].cptr = s[1] /\ s[1] \in K
      BY <1>10, <1>13, <2>1
    <3>2. P[p].cptr # NULL
      BY <1>0, <3>1
    <3>. QED  BY <2>1, <3>1, <3>2 DEF Family
  <2>2. CASE i # 1
    <3>1. i - 1 \in 1..k /\ i - 1 # k /\ (i - 1) + 1 = i
      BY <2>2
    <3>2. P[s[i - 1]].optr = s[i] /\ s[i - 1] \in K /\ s[i] \in K
      BY <1>10, <1>14, <3>1
    <3>3. s[i - 1] \in L /\ s[i] # NULL
      BY <1>0, <3>2
    <3>. QED  BY <2>2, <3>2, <3>3 DEF Family
  <2>. QED  BY <2>1, <2>2
<1>16. \A q \in K : \E i \in 1..k : s[i] = q
  <2> DEFINE U == {q \in K : \A i \in 1..k : s[i] # q}
  <2> SUFFICES ASSUME U # {}  PROVE FALSE
    OBVIOUS
  <2>1. U \in SUBSET Pids
    BY <1>0
  <2>2. PICK x \in U : \A y \in U : r[y] <= r[x]
    <3> HIDE DEF U
    <3>. QED  BY <2>1, MaxRank
  <2>3. x \in L /\ P[x].parent = p /\ x \in K
    BY <1>0 DEF K, Children
  <2>4. P[x].yptr # NULL
    <3> SUFFICES ASSUME P[x].yptr = NULL  PROVE FALSE
      OBVIOUS
    <3>1. P[p].cptr = x
      BY <2>3 DEF Family
    <3>2. k # 0 /\ s[1] = x
      BY <1>0, <1>13, <2>3, <3>1
    <3>. QED  BY <3>2
  <2> DEFINE y == P[x].yptr
  <2>5. y \in L /\ P[y].optr = x /\ P[y].parent = p
    BY <2>3, <2>4 DEF Family
  <2>6. r[x] < r[y]
    BY <1>0, <2>3, <2>5 DEF Family
  <2>7. y \in K
    BY <2>5 DEF K, Children
  <2>8. y \in U
    <3> SUFFICES ASSUME NEW i \in 1..k, s[i] = y  PROVE FALSE
      BY <2>7
    <3>1. x = IF i = k THEN NULL ELSE s[i + 1]
      BY <1>14, <2>5
    <3>2. i # k /\ i + 1 \in 1..k /\ s[i + 1] = x
      BY <1>0, <2>3, <3>1
    <3>. QED  BY <3>2
  <2>9. r[x] \in Nat /\ r[y] \in Nat /\ r[y] <= r[x]
    BY <1>0, <2>2, <2>3, <2>5, <2>8
  <2>. QED  BY <2>6, <2>9
<1>17. {s[i] : i \in 1..k} = K
  BY <1>10, <1>16
<1>18. Cardinality(K) = k
  <2>1. s \in Bijection(1..k, K)
    BY <1>10, <1>12, <1>16 DEF Bijection, Injection, Surjection, IsInjective
  <2>2. ExistsBijection(1..k, K)
    BY <2>1 DEF ExistsBijection
  <2>. QED  BY <1>8, <2>2, FS_CountingElements
<1>. QED  BY <1>9, <1>11, <1>12, <1>13, <1>14, <1>15, <1>17, <1>18 DEF IsFamily, K

-----------------------------------------------------------------------------
(* What is no link stays. *)
SameData(P, Q) ==
  \A q \in Pids : Q[q].state = P[q].state /\ Q[q].mm = P[q].mm /\ Q[q].stack = P[q].stack

(* A turn of the loop in send_chld_to_init(), field by field. *)
Adopted(P, Q, c) ==
  /\ Q \in PcbTable /\ SameData(P, Q)
  /\ \A q \in Pids :
       /\ Q[q].parent = IF q = c THEN init_proc ELSE P[q].parent
       /\ Q[q].cptr = IF q = init_proc THEN c
                      ELSE IF q = P[c].parent THEN P[c].optr ELSE P[q].cptr
       /\ Q[q].yptr = IF q = P[init_proc].cptr THEN c
                      ELSE IF q = c \/ q = P[c].optr THEN NULL ELSE P[q].yptr
       /\ Q[q].optr = IF q = c THEN P[init_proc].cptr ELSE P[q].optr

LEMMA AdoptIs ==
  ASSUME NEW P \in PcbTable, NEW c \in Pids, P[c].parent \in Pids
  PROVE  Adopted(P, Adopt(P, c), c)
<1> DEFINE p == P[c].parent
           elder == P[c].optr
           first == P[init_proc].cptr
           Q == [P EXCEPT ![p].cptr = elder, ![c].yptr = NULL]
           R == IF elder = NULL THEN Q ELSE [Q EXCEPT ![elder].yptr = NULL]
           O == [R EXCEPT ![c].optr = first]
           S == [O EXCEPT ![c].parent = init_proc]
           U == IF first = NULL THEN S ELSE [S EXCEPT ![first].yptr = c]
           V == [U EXCEPT ![init_proc].cptr = c]
<1>0. /\ NULL \notin Pids /\ init_proc \in Pids
      /\ elder \in Pids \cup {NULL} /\ first \in Pids \cup {NULL}
  BY PidFacts DEF PcbTable, PcbRecord
<1>1. /\ Q \in PcbTable /\ SameData(P, Q)
      /\ \A q \in Pids :
           /\ Q[q].parent = P[q].parent
           /\ Q[q].cptr = IF q = p THEN elder ELSE P[q].cptr
           /\ Q[q].yptr = IF q = c THEN NULL ELSE P[q].yptr
           /\ Q[q].optr = P[q].optr
  BY <1>0 DEF PcbTable, PcbRecord, SameData
<1> HIDE DEF Q
<1>2. /\ R \in PcbTable /\ SameData(P, R)
      /\ \A q \in Pids :
           /\ R[q].parent = P[q].parent
           /\ R[q].cptr = IF q = p THEN elder ELSE P[q].cptr
           /\ R[q].yptr = IF q = c \/ q = elder THEN NULL ELSE P[q].yptr
           /\ R[q].optr = P[q].optr
  <2>1. CASE elder = NULL
    BY <1>0, <1>1, <2>1
  <2>2. CASE elder # NULL
    BY <1>0, <1>1, <2>2 DEF PcbTable, PcbRecord, SameData
  <2>. QED  BY <2>1, <2>2
<1> HIDE DEF R
<1>a. /\ O \in PcbTable /\ SameData(P, O)
      /\ \A q \in Pids :
           /\ O[q].parent = P[q].parent
           /\ O[q].cptr = IF q = p THEN elder ELSE P[q].cptr
           /\ O[q].yptr = IF q = c \/ q = elder THEN NULL ELSE P[q].yptr
           /\ O[q].optr = IF q = c THEN first ELSE P[q].optr
  BY <1>0, <1>2 DEF PcbTable, PcbRecord, SameData
<1> HIDE DEF O
<1>3. /\ S \in PcbTable /\ SameData(P, S)
      /\ \A q \in Pids :
           /\ S[q].parent = IF q = c THEN init_proc ELSE P[q].parent
           /\ S[q].cptr = IF q = p THEN elder ELSE P[q].cptr
           /\ S[q].yptr = IF q = c \/ q = elder THEN NULL ELSE P[q].yptr
           /\ S[q].optr = IF q = c THEN first ELSE P[q].optr
  BY <1>0, <1>a DEF PcbTable, PcbRecord, SameData
<1> HIDE DEF S
<1>4. /\ U \in PcbTable /\ SameData(P, U)
      /\ \A q \in Pids :
           /\ U[q].parent = IF q = c THEN init_proc ELSE P[q].parent
           /\ U[q].cptr = IF q = p THEN elder ELSE P[q].cptr
           /\ U[q].yptr = IF q = first THEN c ELSE IF q = c \/ q = elder THEN NULL ELSE P[q].yptr
           /\ U[q].optr = IF q = c THEN first ELSE P[q].optr
  <2>1. CASE first = NULL
    BY <1>0, <1>3, <2>1
  <2>2. CASE first # NULL
    BY <1>0, <1>3, <2>2 DEF PcbTable, PcbRecord, SameData
  <2>. QED  BY <2>1, <2>2
<1> HIDE DEF U
<1>5. /\ V \in PcbTable /\ SameData(P, V)
      /\ \A q \in Pids :
           /\ V[q].parent = IF q = c THEN init_proc ELSE P[q].parent
           /\ V[q].cptr = IF q = init_proc THEN c ELSE IF q = p THEN elder ELSE P[q].cptr
           /\ V[q].yptr = IF q = first THEN c ELSE IF q = c \/ q = elder THEN NULL ELSE P[q].yptr
           /\ V[q].optr = IF q = c THEN first ELSE P[q].optr
  BY <1>0, <1>4 DEF PcbTable, PcbRecord, SameData
<1>6. Adopt(P, c) = V
  BY DEF Adopt, Q, R, O, S, U, V
<1> HIDE DEF V, p, elder, first
<1>. QED  BY <1>5, <1>6 DEF Adopted, p, elder, first

(* The links of the processes L, of which init is one.                      *)
Linkage(P, L) ==
  /\ P \in PcbTable /\ L \subseteq Pids \ {idle}
  /\ init_proc \in L => P[init_proc].parent = idle
  /\ \A q \in L : P[q].parent # q
  /\ \E r \in [Pids -> Nat] : Family(P, L, r)

LEMMA AdoptKeeps ==
  ASSUME NEW P, NEW L, Linkage(P, L), init_proc \in L,
         NEW p \in L \ {init_proc}, NEW c \in L, P[p].cptr = c,
         NEW Q, Adopted(P, Q, c)
  PROVE  Linkage(Q, L) /\ P[c].parent = p
<1> DEFINE elder == P[c].optr
           first == P[init_proc].cptr
<1>1. PICK r \in [Pids -> Nat] : Family(P, L, r)
  BY DEF Linkage
<1>2. /\ NULL \notin Pids /\ idle # init_proc /\ L \subseteq Pids \ {idle} /\ P \in PcbTable
      /\ P[init_proc].parent = idle /\ \A q \in L : P[q].parent # q
      /\ idle \in Pids
  BY PidFacts DEF Linkage
<1>3. P[c].parent = p /\ P[c].yptr = NULL /\ c # p /\ c # init_proc
  BY <1>1, <1>2 DEF Family
<1>4. elder # NULL => /\ elder \in L /\ P[elder].parent = p /\ P[elder].yptr = c
                      /\ elder # c /\ elder # p /\ elder # init_proc
  <2> SUFFICES ASSUME elder # NULL
               PROVE  /\ elder \in L /\ P[elder].parent = p /\ P[elder].yptr = c
                      /\ elder # c /\ elder # p /\ elder # init_proc
    OBVIOUS
  <2>1. elder \in L /\ P[elder].parent = p /\ P[elder].yptr = c
    BY <1>1, <1>3 DEF Family
  <2>. QED  BY <1>2, <1>3, <2>1
<1>5. first # NULL => /\ first \in L /\ P[first].parent = init_proc /\ P[first].yptr = NULL
                      /\ first # c /\ first # elder /\ first # init_proc
  <2> SUFFICES ASSUME first # NULL
               PROVE  /\ first \in L /\ P[first].parent = init_proc /\ P[first].yptr = NULL
                      /\ first # c /\ first # elder /\ first # init_proc
    OBVIOUS
  <2>1. first \in L /\ P[first].parent = init_proc /\ P[first].yptr = NULL
    BY <1>1 DEF Family
  <2>. QED  BY <1>2, <1>3, <1>4, <2>1
<1>6. \A q \in Pids :
        /\ Q[q].parent = IF q = c THEN init_proc ELSE P[q].parent
        /\ Q[q].cptr = IF q = init_proc THEN c ELSE IF q = p THEN elder ELSE P[q].cptr
        /\ Q[q].yptr = IF q = first THEN c ELSE IF q = c \/ q = elder THEN NULL ELSE P[q].yptr
        /\ Q[q].optr = IF q = c THEN first ELSE P[q].optr
  BY <1>3 DEF Adopted
<1> HIDE DEF elder, first
<1> DEFINE u == [r EXCEPT ![c] = IF first = NULL THEN 0 ELSE r[first] + 1]
<1>7. /\ u \in [Pids -> Nat]
      /\ \A q \in L \ {c} : u[q] = r[q]
      /\ first # NULL => u[first] < u[c]
  <2>1. c \in Pids /\ (first # NULL => first \in Pids /\ r[first] \in Nat /\ first # c)
    BY <1>2, <1>5
  <2>. QED  BY <1>2, <2>1
<1> HIDE DEF u
<1>8. ASSUME NEW x \in L \cup {idle}, Q[x].cptr # NULL
      PROVE  Q[x].cptr \in L /\ Q[Q[x].cptr].parent = x /\ Q[Q[x].cptr].yptr = NULL
  <2>1. CASE x = init_proc
    BY <1>2, <1>3, <1>5, <1>6, <2>1
  <2>2. CASE x = p
    BY <1>2, <1>3, <1>4, <1>5, <1>6, <1>8, <2>2
  <2>3. CASE x # init_proc /\ x # p
    <3>1. Q[x].cptr = P[x].cptr
      BY <1>2, <1>6, <2>3
    <3> DEFINE y == P[x].cptr
    <3>2. y \in L /\ P[y].parent = x /\ P[y].yptr = NULL
      BY <1>1, <1>8, <3>1 DEF Family
    <3>3. y # c /\ y # elder /\ y # first
      BY <1>2, <1>3, <1>4, <1>5, <2>3, <3>2
    <3>. QED  BY <1>2, <1>6, <3>1, <3>2, <3>3
  <2>. QED  BY <2>1, <2>2, <2>3
<1>9. ASSUME NEW q \in L
      PROVE  /\ Q[q].parent \in L \cup {idle}
             /\ Q[q].yptr = NULL => Q[Q[q].parent].cptr = q
  <2>1. P[q].parent \in L \cup {idle}
    BY <1>1 DEF Family
  <2>2. Q[q].parent \in L \cup {idle}
    BY <1>2, <1>6, <2>1
  <2>3. ASSUME Q[q].yptr = NULL  PROVE Q[Q[q].parent].cptr = q
    <3>1. CASE q = c
      BY <1>2, <1>6, <3>1
    <3>2. CASE q = elder
      BY <1>2, <1>3, <1>4, <1>6, <3>2
    <3>3. CASE q # c /\ q # elder
      <4>1. q # first /\ P[q].yptr = NULL
        BY <1>2, <1>6, <2>3, <3>3
      <4>2. P[P[q].parent].cptr = q
        BY <1>1, <4>1 DEF Family
      <4>3. P[q].parent # p /\ P[q].parent # init_proc
        BY <3>3, <4>1, <4>2 DEF first
      <4>. QED  BY <1>2, <1>6, <2>1, <3>3, <4>2, <4>3
    <3>. QED  BY <3>1, <3>2, <3>3
  <2>. QED  BY <2>2, <2>3
<1>10. ASSUME NEW q \in L, Q[q].yptr # NULL
       PROVE  Q[q].yptr \in L /\ Q[Q[q].yptr].optr = q /\ Q[Q[q].yptr].parent = Q[q].parent
  <2>1. CASE q = first
    BY <1>2, <1>5, <1>6, <2>1
  <2>2. CASE q # first
    <3> DEFINE y == P[q].yptr
    <3>1. q # c /\ q # elder /\ Q[q].yptr = y
      BY <1>2, <1>6, <1>10, <2>2
    <3>2. y \in L /\ P[y].optr = q /\ P[y].parent = P[q].parent
      BY <1>1, <1>10, <3>1 DEF Family
    <3>3. y # c
      BY <3>1, <3>2 DEF elder
    <3>. QED  BY <1>2, <1>6, <3>1, <3>2, <3>3
  <2>. QED  BY <2>1, <2>2
<1>11. ASSUME NEW q \in L, Q[q].optr # NULL
       PROVE  /\ Q[q].optr \in L /\ Q[Q[q].optr].yptr = q /\ Q[Q[q].optr].parent = Q[q].parent
              /\ u[Q[q].optr] < u[q]
  <2>1. CASE q = c
    BY <1>2, <1>5, <1>6, <1>7, <1>11, <2>1
  <2>2. CASE q # c
    <3> DEFINE z == P[q].optr
    <3>1. Q[q].optr = z
      BY <1>2, <1>6, <2>2
    <3>2. z \in L /\ P[z].yptr = q /\ P[z].parent = P[q].parent /\ r[z] < r[q]
      BY <1>1, <1>11, <3>1 DEF Family
    <3>3. z # c /\ z # elder /\ z # first
      BY <1>2, <1>3, <1>4, <1>5, <2>2, <3>2
    <3>. QED  BY <1>2, <1>6, <1>7, <2>2, <3>1, <3>2, <3>3
  <2>. QED  BY <2>1, <2>2
<1>12. Family(Q, L, u)
  BY <1>8, <1>9, <1>10, <1>11 DEF Family
<1>13. Q[init_proc].parent = idle /\ \A q \in L : Q[q].parent # q
  BY <1>2, <1>3, <1>6
<1>14. Q \in PcbTable
  BY DEF Adopted
<1>. QED  BY <1>2, <1>3, <1>7, <1>12, <1>13, <1>14 DEF Linkage

-----------------------------------------------------------------------------
(* The loop of send_chld_to_init(), one turn after the other.               *)
Adopts(P, s, D, g) ==
  g = [t \in SUBSET D |-> IF t = {} THEN P ELSE Adopt(g[t \ {Max(t)}], s[Max(t)])]

LEMMA SendIs ==
  \A P, p : LET s == Brothers(P, P[p].cptr) IN
    send_chld_to_init(P, p) = (CHOOSE g : Adopts(P, s, DOMAIN s, g))[DOMAIN s]
  BY DEF send_chld_to_init, FoldLeft, MapThenFoldSet, Adopts

LEMMA MaxIs ==
  ASSUME NEW n \in Nat, NEW t \in SUBSET (1..n), n \in t
  PROVE  Max(t) = n
<1>1. \A y \in t : y \in Nat /\ n >= y
  OBVIOUS
<1>2. \E x \in t : \A y \in t : x >= y
  BY <1>1
<1>3. Max(t) \in t /\ \A y \in t : Max(t) >= y
  BY <1>2 DEF Max
<1>4. Max(t) \in Nat /\ n >= Max(t) /\ Max(t) >= n
  BY <1>1, <1>3
<1>. QED  BY <1>4

LEMMA AdoptsExists ==
  ASSUME NEW P, NEW s
  PROVE  \A n \in Nat : \E g : Adopts(P, s, 1..n, g)
<1> DEFINE S == {n \in Nat : \E g : Adopts(P, s, 1..n, g)}
<1>1. 0 \in S
  <2> DEFINE g == [t \in SUBSET (1..0) |-> P]
  <2>1. \A t \in SUBSET (1..0) : t = {}
    OBVIOUS
  <2>2. Adopts(P, s, 1..0, g)
    BY <2>1 DEF Adopts
  <2>. QED  BY <2>2
<1>2. ASSUME NEW n \in Nat, n \in S  PROVE n + 1 \in S
  <2>1. PICK g : Adopts(P, s, 1..n, g)
    BY <1>2
  <2> DEFINE h == [t \in SUBSET (1..(n + 1)) |->
                     IF n + 1 \in t THEN Adopt(g[t \ {n + 1}], s[n + 1]) ELSE g[t]]
             e(f, t) == IF t = {} THEN P ELSE Adopt(f[t \ {Max(t)}], s[Max(t)])
  <2>2. \A t \in SUBSET (1..(n + 1)) : n + 1 \notin t => t \in SUBSET (1..n)
    BY <1>2
  <2>3. \A t \in SUBSET (1..n) : t \in SUBSET (1..(n + 1)) /\ n + 1 \notin t
    BY <1>2
  <2>4. ASSUME NEW t \in SUBSET (1..(n + 1))  PROVE h[t] = e(h, t)
    <3>1. CASE n + 1 \in t
      <4>1. Max(t) = n + 1
        BY <1>2, <2>4, <3>1, MaxIs
      <4>2. t \ {n + 1} \in SUBSET (1..(n + 1)) /\ n + 1 \notin t \ {n + 1}
        BY <2>4
      <4>3. h[t \ {n + 1}] = g[t \ {n + 1}]
        BY <4>2
      <4>4. h[t] = Adopt(g[t \ {n + 1}], s[n + 1])
        BY <2>4, <3>1
      <4>. QED  BY <3>1, <4>1, <4>3, <4>4
    <3>2. CASE n + 1 \notin t
      <4>1. t \in SUBSET (1..n)
        BY <2>2, <3>2
      <4>2. h[t] = g[t]
        BY <2>4, <3>2
      <4>3. g[t] = e(g, t)
        BY <2>1, <4>1 DEF Adopts
      <4>4. h[t \ {Max(t)}] = g[t \ {Max(t)}]
        BY <2>3, <4>1
      <4>. QED  BY <4>2, <4>3, <4>4
    <3>. QED  BY <3>1, <3>2
  <2>5. h = [t \in SUBSET (1..(n + 1)) |-> h[t]]
    OBVIOUS
  <2> HIDE DEF h
  <2>6. h = [t \in SUBSET (1..(n + 1)) |-> e(h, t)]
    BY <2>4, <2>5
  <2>7. Adopts(P, s, 1..(n + 1), h)
    BY <2>6 DEF Adopts
  <2>. QED  BY <1>2, <2>7
<1> HIDE DEF S
<1>3. Nat \subseteq S
  BY <1>1, <1>2, SetInduction
<1>. QED  BY <1>3 DEF S

LEMMA SendTurns ==
  ASSUME NEW P, NEW p, NEW n \in Nat, DOMAIN Brothers(P, P[p].cptr) = 1..n
  PROVE  \E f : /\ f[0] = P
                /\ \A k \in 1..n : f[k] = Adopt(f[k - 1], Brothers(P, P[p].cptr)[k])
                /\ send_chld_to_init(P, p) = f[n]
<1> DEFINE s == Brothers(P, P[p].cptr)
           g == CHOOSE g : Adopts(P, s, 1..n, g)
           f == [k \in 0..n |-> g[1..k]]
<1>1. Adopts(P, s, 1..n, g)
  BY AdoptsExists
<1>2. send_chld_to_init(P, p) = f[n]
  BY SendIs
<1> HIDE DEF g, s
<1>3. f[0] = P
  <2>1. 1..0 = {}
    OBVIOUS
  <2>2. f[0] = g[{}]
    BY <2>1
  <2>3. g[{}] = P
    BY <1>1 DEF Adopts
  <2>. QED  BY <2>2, <2>3
<1>4. ASSUME NEW k \in 1..n  PROVE f[k] = Adopt(f[k - 1], s[k])
  <2>0. k \in Nat /\ k >= 1 /\ k <= n
    BY <1>4
  <2>a. k \in 1..k
    BY <2>0
  <2>b. 1..k \in SUBSET (1..n)
    <3>1. \A x \in 1..k : x \in 1..n
      BY <2>0
    <3>. QED  BY <3>1, Zenon
  <2>1. k \in Nat /\ 1..k \in SUBSET (1..n) /\ k \in 1..k /\ 1..k # {}
    BY <2>0, <2>a, <2>b, Zenon
  <2>2. Max(1..k) = k
    BY <2>1, MaxIs
  <2>3. (1..k) \ {k} = 1..(k - 1) /\ k - 1 \in 0..n /\ k \in 0..n
    BY <1>4
  <2>4. g[1..k] = Adopt(g[(1..k) \ {Max(1..k)}], s[Max(1..k)])
    BY <1>1, <2>1 DEF Adopts
  <2>. QED  BY <2>2, <2>3, <2>4
<1>. QED  BY <1>2, <1>3, <1>4 DEF s

(* After send_chld_to_init() p has no child, and only children of p have    *)
(* got another parent, init.                                                *)
Sent(P, Q, L, p) ==
  /\ Linkage(Q, L) /\ SameData(P, Q)
  /\ Q[p].cptr = NULL
  /\ \A q \in Pids \ {p, init_proc} : Q[q].cptr = P[q].cptr
  /\ \A q \in Pids : \/ Q[q].parent = P[q].parent /\ (q \in L => Q[q].parent # p)
                     \/ q \in L /\ P[q].parent = p /\ Q[q].parent = init_proc

LEMMA SendKeeps ==
  ASSUME NEW P, NEW L, Linkage(P, L), init_proc \in L, NEW p \in L \ {init_proc}
  PROVE  Sent(P, send_chld_to_init(P, p), L, p)
<1> DEFINE s == Brothers(P, P[p].cptr)
           n == Len(s)
<1>1. PICK r \in [Pids -> Nat] : Family(P, L, r)
  BY DEF Linkage
<1>2. P \in PcbTable /\ L \in SUBSET Pids /\ L \subseteq Pids /\ p \in Pids
  BY DEF Linkage
<1>3. IsFamily(P, L, p, s)
  BY <1>1, <1>2, BrothersFamily
<1> HIDE DEF s
<1>4. /\ s \in Seq(Children(P, L, p)) /\ n \in Nat /\ DOMAIN s = 1..n
      /\ \A i \in 1..n : s[i] \in L /\ P[s[i]].parent = p
      /\ \A q \in L : P[q].parent = p => \E i \in 1..n : s[i] = q
      /\ \A i, j \in 1..n : s[i] = s[j] => i = j
      /\ P[p].cptr = IF n = 0 THEN NULL ELSE s[1]
      /\ \A i \in 1..n : P[s[i]].optr = IF i = n THEN NULL ELSE s[i + 1]
  <2>1. /\ s \in Seq(Children(P, L, p)) /\ n \in Nat /\ DOMAIN s = 1..n
        /\ \A i \in 1..n : s[i] \in Children(P, L, p)
        /\ {s[i] : i \in 1..n} = Children(P, L, p)
    BY <1>3 DEF IsFamily
  <2>2. /\ \A i \in 1..n : s[i] \in L /\ P[s[i]].parent = p
        /\ \A q \in L : P[q].parent = p => \E i \in 1..n : s[i] = q
    BY <2>1 DEF Children
  <2>. QED  BY <1>3, <2>1, <2>2 DEF IsFamily
<1>5. PICK f : /\ f[0] = P
               /\ \A k \in 1..n : f[k] = Adopt(f[k - 1], s[k])
               /\ send_chld_to_init(P, p) = f[n]
  BY <1>4, SendTurns DEF s
<1> HIDE DEF n
<1> DEFINE Ok(k) ==
      /\ Linkage(f[k], L) /\ SameData(P, f[k])
      /\ f[k][p].cptr = IF k = n THEN NULL ELSE s[k + 1]
      /\ \A q \in Pids \ {p, init_proc} : f[k][q].cptr = P[q].cptr
      /\ \A j \in 1..n : j > k => f[k][s[j]].optr = P[s[j]].optr
      /\ \A q \in Pids : f[k][q].parent =
            IF \E j \in 1..n : j <= k /\ s[j] = q THEN init_proc ELSE P[q].parent
<1>6. Ok(0)
  <2>0. n \in Nat
    BY <1>4
  <2>1. \A j \in 1..n : ~(j <= 0)
    BY <2>0
  <2>. QED  BY <1>4, <1>5, <2>1 DEF SameData
<1>7. ASSUME NEW k \in Nat, k + 1 <= n, Ok(k)  PROVE Ok(k + 1)
  <2> DEFINE c == s[k + 1]
             Q == f[k]
             R == f[k + 1]
  <2>1. k + 1 \in 1..n /\ (k + 1) - 1 = k /\ k # n
    BY <1>4, <1>7
  <2>2. c \in L /\ Q[p].cptr = c /\ Linkage(Q, L) /\ R = Adopt(Q, c)
    BY <1>4, <1>5, <1>7, <2>1
  <2>3. Q \in PcbTable /\ c \in Pids /\ c # NULL
    BY <1>2, <2>2, PidFacts DEF Linkage
  <2>4. Q[c].parent = p
    <3>1. PICK w \in [Pids -> Nat] : Family(Q, L, w)
      BY <2>2 DEF Linkage
    <3>. QED  BY <2>2, <2>3, <3>1 DEF Family
  <2>5. Adopted(Q, R, c)
    BY <1>2, <2>2, <2>3, <2>4, AdoptIs
  <2> HIDE DEF Q, R, c
  <2>6. Linkage(R, L)
    BY <2>2, <2>5, AdoptKeeps
  <2>7. SameData(P, R)
    <3>1. SameData(P, Q) /\ SameData(Q, R)
      BY <1>7, <2>5 DEF Adopted, Q
    <3>. QED  BY <3>1 DEF SameData
  <2>8. R[p].cptr = IF k + 1 = n THEN NULL ELSE s[k + 1 + 1]
    <3>1. R[p].cptr = Q[c].optr
      BY <1>2, <2>4, <2>5 DEF Adopted
    <3>2. Q[c].optr = P[c].optr
      BY <1>7, <2>1 DEF Q, c
    <3>3. P[c].optr = IF k + 1 = n THEN NULL ELSE s[k + 1 + 1]
      BY <1>4, <2>1 DEF c
    <3>. QED  BY <3>1, <3>2, <3>3
  <2>9. \A q \in Pids \ {p, init_proc} : R[q].cptr = P[q].cptr
    BY <1>7, <2>4, <2>5 DEF Adopted, Q
  <2>10. \A j \in 1..n : j > k + 1 => R[s[j]].optr = P[s[j]].optr
    <3> SUFFICES ASSUME NEW j \in 1..n, j > k + 1  PROVE R[s[j]].optr = P[s[j]].optr
      OBVIOUS
    <3>1. s[j] # c /\ s[j] \in Pids
      BY <1>2, <1>4, <2>1 DEF c
    <3>2. R[s[j]].optr = Q[s[j]].optr
      BY <2>5, <3>1 DEF Adopted
    <3>3. j > k
      BY <1>4
    <3>. QED  BY <1>7, <3>2, <3>3 DEF Q
  <2>11. ASSUME NEW q \in Pids
         PROVE  R[q].parent =
                  IF \E j \in 1..n : j <= k + 1 /\ s[j] = q THEN init_proc ELSE P[q].parent
    <3>1. R[q].parent = IF q = c THEN init_proc ELSE Q[q].parent
      BY <2>5 DEF Adopted
    <3>2. Q[q].parent = IF \E j \in 1..n : j <= k /\ s[j] = q THEN init_proc ELSE P[q].parent
      BY <1>7 DEF Q
    <3>3. (\E j \in 1..n : j <= k + 1 /\ s[j] = q) <=> q = c \/ \E j \in 1..n : j <= k /\ s[j] = q
      <4>1. \A j \in 1..n : j <= k + 1 <=> j = k + 1 \/ j <= k
        BY <1>4
      <4>. QED  BY <2>1, <4>1 DEF c
    <3>. QED  BY <3>1, <3>2, <3>3
  <2>. QED  BY <2>6, <2>7, <2>8, <2>9, <2>10, <2>11 DEF R
<1> DEFINE S == {k \in Nat : k <= n => Ok(k)}
<1>8. 0 \in S
  BY <1>6
<1>9. \A k \in Nat : k \in S => k + 1 \in S
  <2> SUFFICES ASSUME NEW k \in Nat, k \in S, k + 1 <= n  PROVE Ok(k + 1)
    OBVIOUS
  <2>1. k <= n
    BY <1>4
  <2> HIDE DEF Ok
  <2>. QED  BY <1>7, <2>1
<1>10. n \in S
  <2> HIDE DEF S
  <2>. QED  BY <1>4, <1>8, <1>9, SetInduction
<1>11. Ok(n)
  <2> HIDE DEF Ok
  <2>. QED  BY <1>4, <1>10
<1>12. \A q \in Pids : \/ f[n][q].parent = P[q].parent /\ (q \in L => f[n][q].parent # p)
                       \/ q \in L /\ P[q].parent = p /\ f[n][q].parent = init_proc
  <2> SUFFICES ASSUME NEW q \in Pids
               PROVE  \/ f[n][q].parent = P[q].parent /\ (q \in L => f[n][q].parent # p)
                      \/ q \in L /\ P[q].parent = p /\ f[n][q].parent = init_proc
    OBVIOUS
  <2>1. CASE \E j \in 1..n : j <= n /\ s[j] = q
    BY <1>4, <1>11, <2>1
  <2>2. CASE ~\E j \in 1..n : j <= n /\ s[j] = q
    <3>1. f[n][q].parent = P[q].parent
      BY <1>11, <2>2
    <3>2. \A j \in 1..n : j <= n
      BY <1>4
    <3>. QED  BY <1>4, <2>2, <3>1, <3>2
  <2>. QED  BY <2>1, <2>2
<1>. QED  BY <1>5, <1>11, <1>12 DEF Sent

LEMMA NoChildren ==
  ASSUME NEW P, NEW L, Linkage(P, L), NEW p \in L \cup {idle}, P[p].cptr = NULL
  PROVE  \A q \in L : P[q].parent # p
<1> DEFINE s == Brothers(P, P[p].cptr)
<1>1. PICK r \in [Pids -> Nat] : Family(P, L, r)
  BY DEF Linkage
<1>2. P \in PcbTable /\ L \in SUBSET Pids /\ NULL \notin Pids
  BY PidFacts DEF Linkage
<1>3. IsFamily(P, L, p, s)
  BY <1>1, <1>2, BrothersFamily
<1> HIDE DEF s
<1>4. /\ Len(s) \in Nat
      /\ \A i \in 1..Len(s) : s[i] \in Children(P, L, p)
      /\ {s[i] : i \in 1..Len(s)} = Children(P, L, p)
      /\ P[p].cptr = IF Len(s) = 0 THEN NULL ELSE s[1]
  BY <1>3 DEF IsFamily
<1>5. Len(s) = 0
  <2> SUFFICES ASSUME Len(s) # 0  PROVE FALSE
    OBVIOUS
  <2>1. 1 \in 1..Len(s)
    BY <1>4
  <2>2. s[1] \in L
    BY <1>4, <2>1 DEF Children
  <2>. QED  BY <1>2, <1>4, <2>2
<1>6. Children(P, L, p) = {}
  BY <1>4, <1>5
<1>. QED  BY <1>6 DEF Children

-----------------------------------------------------------------------------
(* do_fork() links the child p, field by field.                             *)
Forked(P, Q, p, parent, k, m) ==
  /\ Q \in PcbTable
  /\ Q[p].state = "TASK_RUNNABLE" /\ Q[p].mm = m /\ Q[p].stack = k
  /\ Q[p].parent = parent /\ Q[p].cptr = NULL /\ Q[p].yptr = NULL /\ Q[p].optr = P[parent].cptr
  /\ \A q \in Pids \ {p} :
       /\ Q[q].state = P[q].state /\ Q[q].mm = P[q].mm /\ Q[q].stack = P[q].stack
       /\ Q[q].parent = P[q].parent /\ Q[q].optr = P[q].optr
       /\ Q[q].cptr = IF q = parent THEN p ELSE P[q].cptr
       /\ Q[q].yptr = IF q = P[parent].cptr THEN p ELSE P[q].yptr

LEMMA LinkedIs ==
  ASSUME NEW P \in PcbTable, NEW p \in Pids, NEW parent \in Pids, p # parent,
         P[parent].cptr # p, NEW k \in Pages, NEW m \in Pids \cup {NULL}
  PROVE  Forked(P, [Linked(P, p, parent, k) EXCEPT ![p].mm = m], p, parent, k, m)
<1> DEFINE elder == P[parent].cptr
           new == [create_pcb EXCEPT !.state = "TASK_RUNNABLE", !.parent = parent,
                                     !.optr = elder, !.stack = k]
           Q == [P EXCEPT ![p] = new, ![parent].cptr = p]
           R == IF elder = NULL THEN Q ELSE [Q EXCEPT ![elder].yptr = p]
           S == [R EXCEPT ![p].mm = m]
           Born(x) == /\ x.state = "TASK_RUNNABLE" /\ x.stack = k /\ x.parent = parent
                      /\ x.cptr = NULL /\ x.yptr = NULL /\ x.optr = elder
           Same(A, q) == /\ A[q].state = P[q].state /\ A[q].mm = P[q].mm /\ A[q].stack = P[q].stack
                         /\ A[q].parent = P[q].parent /\ A[q].optr = P[q].optr
<1>0. NULL \notin Pids /\ elder \in Pids \cup {NULL} /\ elder # p
  BY PidFacts DEF PcbTable, PcbRecord
<1>1. /\ new \in PcbRecord
      /\ new.state = "TASK_RUNNABLE" /\ new.stack = k /\ new.parent = parent
      /\ new.cptr = NULL /\ new.yptr = NULL /\ new.optr = elder
  BY <1>0 DEF create_pcb, PcbRecord
<1>2. Linked(P, p, parent, k) = R
  BY DEF Linked
<1> HIDE DEF new, elder
<1>3. /\ Q \in PcbTable
      /\ Born(Q[p])
      /\ \A q \in Pids \ {p} : /\ Same(Q, q)
                               /\ Q[q].cptr = IF q = parent THEN p ELSE P[q].cptr
                               /\ Q[q].yptr = P[q].yptr
  BY <1>0, <1>1 DEF PcbTable, PcbRecord
<1> HIDE DEF Q
<1>4. /\ R \in PcbTable
      /\ Born(R[p])
      /\ \A q \in Pids \ {p} : /\ Same(R, q)
                               /\ R[q].cptr = IF q = parent THEN p ELSE P[q].cptr
                               /\ R[q].yptr = IF q = elder THEN p ELSE P[q].yptr
  <2>1. CASE elder = NULL
    BY <1>0, <1>3, <2>1
  <2>2. CASE elder # NULL
    BY <1>0, <1>3, <2>2 DEF PcbTable, PcbRecord
  <2>. QED  BY <2>1, <2>2
<1> HIDE DEF R
<1>5. /\ S \in PcbTable
      /\ Born(S[p]) /\ S[p].mm = m
      /\ \A q \in Pids \ {p} : /\ Same(S, q)
                               /\ S[q].cptr = IF q = parent THEN p ELSE P[q].cptr
                               /\ S[q].yptr = IF q = elder THEN p ELSE P[q].yptr
  BY <1>0, <1>4 DEF PcbTable, PcbRecord
<1> HIDE DEF S
<1>6. Forked(P, S, p, parent, k, m)
  BY <1>5 DEF Forked, elder
<1>. QED  BY <1>2, <1>6 DEF S

LEMMA ForkKeeps ==
  ASSUME NEW P, NEW L, Linkage(P, L), NEW p \in Pids \ (L \cup {idle}),
         NEW parent \in L \cup {idle}, p = init_proc => parent = idle,
         NEW Q, NEW k, NEW m, Forked(P, Q, p, parent, k, m)
  PROVE  Linkage(Q, L \cup {p})
<1> DEFINE elder == P[parent].cptr
           N == L \cup {p}
<1>1. PICK r \in [Pids -> Nat] : Family(P, L, r)
  BY DEF Linkage
<1>2. /\ NULL \notin Pids /\ L \subseteq Pids \ {idle} /\ P \in PcbTable /\ Q \in PcbTable
      /\ init_proc \in L => P[init_proc].parent = idle
      /\ \A q \in L : P[q].parent # q
      /\ idle \in Pids /\ parent # p /\ parent \in Pids
  BY PidFacts DEF Linkage, Forked
<1>3. elder # NULL => elder \in L /\ P[elder].parent = parent /\ P[elder].yptr = NULL /\ elder # p
  BY <1>1 DEF Family
<1>4. /\ Q[p].parent = parent /\ Q[p].cptr = NULL /\ Q[p].yptr = NULL /\ Q[p].optr = elder
      /\ \A q \in Pids \ {p} :
           /\ Q[q].parent = P[q].parent /\ Q[q].optr = P[q].optr
           /\ Q[q].cptr = IF q = parent THEN p ELSE P[q].cptr
           /\ Q[q].yptr = IF q = elder THEN p ELSE P[q].yptr
  BY DEF Forked
<1> HIDE DEF elder
<1> DEFINE u == [r EXCEPT ![p] = IF elder = NULL THEN 0 ELSE r[elder] + 1]
<1>5. /\ u \in [Pids -> Nat]
      /\ \A q \in L : u[q] = r[q]
      /\ elder # NULL => u[elder] < u[p]
  <2>1. p \in Pids /\ (elder # NULL => elder \in Pids /\ r[elder] \in Nat /\ elder # p)
    BY <1>2, <1>3
  <2>. QED  BY <1>2, <2>1
<1> HIDE DEF u
<1>6. ASSUME NEW x \in N \cup {idle}, Q[x].cptr # NULL
      PROVE  Q[x].cptr \in N /\ Q[Q[x].cptr].parent = x /\ Q[Q[x].cptr].yptr = NULL
  <2>1. CASE x = parent
    BY <1>2, <1>4, <2>1
  <2>2. CASE x # parent
    <3> DEFINE y == P[x].cptr
    <3>1. x # p /\ Q[x].cptr = y /\ x \in L \cup {idle}
      BY <1>2, <1>4, <1>6, <2>2
    <3>2. y \in L /\ P[y].parent = x /\ P[y].yptr = NULL
      BY <1>1, <1>6, <3>1 DEF Family
    <3>3. y # p /\ y # elder
      BY <1>2, <1>3, <2>2, <3>2
    <3>. QED  BY <1>2, <1>4, <3>1, <3>2, <3>3
  <2>. QED  BY <2>1, <2>2
<1>7. ASSUME NEW q \in N
      PROVE  /\ Q[q].parent \in N \cup {idle} /\ Q[q].parent # q
             /\ Q[q].yptr = NULL => Q[Q[q].parent].cptr = q
  <2>1. CASE q = p
    BY <1>2, <1>4, <2>1
  <2>2. CASE q # p
    <3>1. /\ q \in L /\ Q[q].parent = P[q].parent /\ P[q].parent \in L \cup {idle}
          /\ P[q].parent \in Pids \ {p}
      BY <1>1, <1>2, <1>4, <2>2 DEF Family
    <3>2. ASSUME Q[q].yptr = NULL  PROVE Q[Q[q].parent].cptr = q
      <4>1. q # elder /\ P[q].yptr = NULL
        BY <1>2, <1>4, <2>2, <3>2
      <4>2. P[P[q].parent].cptr = q
        BY <1>1, <3>1, <4>1 DEF Family
      <4>3. P[q].parent # parent
        BY <4>1, <4>2 DEF elder
      <4>. QED  BY <1>4, <3>1, <4>2, <4>3
    <3>. QED  BY <1>2, <3>1, <3>2
  <2>. QED  BY <2>1, <2>2
<1>8. ASSUME NEW q \in N, Q[q].yptr # NULL
      PROVE  Q[q].yptr \in N /\ Q[Q[q].yptr].optr = q /\ Q[Q[q].yptr].parent = Q[q].parent
  <2>1. CASE q = elder
    BY <1>2, <1>3, <1>4, <2>1
  <2>2. CASE q # elder
    <3> DEFINE y == P[q].yptr
    <3>1. q \in L /\ q # p /\ Q[q].yptr = y
      BY <1>2, <1>4, <1>8, <2>2
    <3>2. y \in L /\ P[y].optr = q /\ P[y].parent = P[q].parent
      BY <1>1, <1>8, <3>1 DEF Family
    <3>. QED  BY <1>2, <1>4, <3>1, <3>2
  <2>. QED  BY <2>1, <2>2
<1>9. ASSUME NEW q \in N, Q[q].optr # NULL
      PROVE  /\ Q[q].optr \in N /\ Q[Q[q].optr].yptr = q /\ Q[Q[q].optr].parent = Q[q].parent
             /\ u[Q[q].optr] < u[q]
  <2>1. CASE q = p
    BY <1>2, <1>3, <1>4, <1>5, <1>9, <2>1
  <2>2. CASE q # p
    <3> DEFINE z == P[q].optr
    <3>1. q \in L /\ Q[q].optr = z
      BY <1>2, <1>4, <2>2
    <3>2. z \in L /\ P[z].yptr = q /\ P[z].parent = P[q].parent /\ r[z] < r[q]
      BY <1>1, <1>9, <3>1 DEF Family
    <3>3. z # p /\ z # elder
      BY <1>2, <1>3, <2>2, <3>1, <3>2
    <3>. QED  BY <1>2, <1>4, <1>5, <2>2, <3>1, <3>2, <3>3
  <2>. QED  BY <2>1, <2>2
<1>10. Family(Q, N, u)
  BY <1>6, <1>7, <1>8, <1>9 DEF Family
<1>11. init_proc \in N => Q[init_proc].parent = idle
  BY <1>2, <1>4
<1>. QED  BY <1>2, <1>5, <1>7, <1>10, <1>11 DEF Linkage

-----------------------------------------------------------------------------
(* recycle_child() takes c out, field by field.                             *)
Reaped(P, Q, c) ==
  /\ Q \in PcbTable /\ Q[c] = create_pcb
  /\ \A q \in Pids \ {c} :
       /\ Q[q].state = P[q].state /\ Q[q].mm = P[q].mm /\ Q[q].stack = P[q].stack
       /\ Q[q].parent = P[q].parent
       /\ Q[q].cptr = IF P[c].yptr = NULL /\ q = P[c].parent THEN P[c].optr ELSE P[q].cptr
       /\ Q[q].optr = IF q = P[c].yptr THEN P[c].optr ELSE P[q].optr
       /\ Q[q].yptr = IF q = P[c].optr THEN P[c].yptr ELSE P[q].yptr

LEMMA UnlinkedIs ==
  ASSUME NEW P \in PcbTable, NEW c \in Pids, P[c].parent \in Pids \ {c},
         P[c].yptr # c, P[c].optr # c
  PROVE  Reaped(P, [Unlinked(P, c) EXCEPT ![c] = create_pcb], c)
<1> DEFINE p == P[c].parent
           y == P[c].yptr
           z == P[c].optr
           Q == IF y # NULL THEN [P EXCEPT ![y].optr = z] ELSE [P EXCEPT ![p].cptr = z]
           R == IF z # NULL THEN [Q EXCEPT ![z].yptr = y] ELSE Q
           S == [R EXCEPT ![c] = create_pcb]
           Same(A, q) == /\ A[q].state = P[q].state /\ A[q].mm = P[q].mm /\ A[q].stack = P[q].stack
                         /\ A[q].parent = P[q].parent
                         /\ A[q].cptr = IF y = NULL /\ q = p THEN z ELSE P[q].cptr
                         /\ A[q].optr = IF q = y THEN z ELSE P[q].optr
<1>0. NULL \notin Pids /\ y \in Pids \cup {NULL} /\ z \in Pids \cup {NULL} /\ p \in Pids
  BY PidFacts DEF PcbTable, PcbRecord
<1>1. create_pcb \in PcbRecord
  BY DEF create_pcb, PcbRecord
<1>2. Unlinked(P, c) = R
  BY DEF Unlinked
<1> HIDE DEF p, y, z
<1>3. Q \in PcbTable /\ \A q \in Pids : Same(Q, q) /\ Q[q].yptr = P[q].yptr
  <2>1. CASE y = NULL
    BY <1>0, <2>1 DEF PcbTable, PcbRecord
  <2>2. CASE y # NULL
    BY <1>0, <2>2 DEF PcbTable, PcbRecord
  <2>. QED  BY <2>1, <2>2
<1> HIDE DEF Q
<1>4. R \in PcbTable /\ \A q \in Pids : Same(R, q) /\ R[q].yptr = IF q = z THEN y ELSE P[q].yptr
  <2>1. CASE z = NULL
    BY <1>0, <1>3, <2>1
  <2>2. CASE z # NULL
    BY <1>0, <1>3, <2>2 DEF PcbTable, PcbRecord
  <2>. QED  BY <2>1, <2>2
<1> HIDE DEF R
<1>5. /\ S \in PcbTable /\ S[c] = create_pcb
      /\ \A q \in Pids \ {c} : S[q] = R[q]
  BY <1>1, <1>4 DEF PcbTable, PcbRecord
<1> HIDE DEF S
<1>6. Reaped(P, S, c)
  BY <1>4, <1>5 DEF Reaped, p, y, z
<1>. QED  BY <1>2, <1>6 DEF S

LEMMA ReapKeeps ==
  ASSUME NEW P, NEW L, Linkage(P, L), NEW c \in L, P[c].cptr = NULL
  PROVE  LET Q == [Unlinked(P, c) EXCEPT ![c] = create_pcb] IN
           /\ Reaped(P, Q, c) /\ Linkage(Q, L \ {c})
           /\ \A q \in L : P[q].parent # c
<1> DEFINE p == P[c].parent
           y == P[c].yptr
           z == P[c].optr
           Q == [Unlinked(P, c) EXCEPT ![c] = create_pcb]
           N == L \ {c}
<1>1. PICK r \in [Pids -> Nat] : Family(P, L, r)
  BY DEF Linkage
<1>2. /\ NULL \notin Pids /\ L \subseteq Pids \ {idle} /\ P \in PcbTable
      /\ init_proc \in L => P[init_proc].parent = idle
      /\ \A q \in L : P[q].parent # q
      /\ idle \in Pids /\ r \in [Pids -> Nat]
  BY PidFacts DEF Linkage
<1>3. \A q \in L : P[q].parent # c
  BY NoChildren
<1>4. /\ p \in L \cup {idle} /\ p # c /\ p \in Pids /\ c \in Pids
      /\ y = NULL => P[p].cptr = c
      /\ y # NULL => y \in L /\ P[y].optr = c /\ P[y].parent = p
      /\ z # NULL => z \in L /\ P[z].yptr = c /\ P[z].parent = p /\ r[z] < r[c]
  BY <1>1, <1>2 DEF Family
<1>5. y # NULL => r[c] < r[y]
  BY <1>1, <1>2, <1>4 DEF Family
<1>6. y # c /\ z # c /\ (y # NULL => y # z)
  <2>1. /\ r[c] \in Nat /\ (y # NULL => r[y] \in Nat) /\ (z # NULL => r[z] \in Nat)
        /\ c # NULL
    BY <1>2, <1>4
  <2>. QED  BY <1>4, <1>5, <2>1
<1>7. Reaped(P, Q, c)
  BY <1>2, <1>4, <1>6, UnlinkedIs
<1> HIDE DEF Q, p, y, z
<1>8. \A q \in N \cup {idle} :
        /\ Q[q].parent = P[q].parent
        /\ Q[q].cptr = IF y = NULL /\ q = p THEN z ELSE P[q].cptr
        /\ Q[q].optr = IF q = y THEN z ELSE P[q].optr
        /\ Q[q].yptr = IF q = z THEN y ELSE P[q].yptr
  <2>1. \A q \in N \cup {idle} : q \in Pids \ {c}
    BY <1>2
  <2>. QED  BY <1>7, <2>1 DEF Reaped, p, y, z
<1>9. ASSUME NEW x \in N \cup {idle}, Q[x].cptr # NULL
      PROVE  Q[x].cptr \in N /\ Q[Q[x].cptr].parent = x /\ Q[Q[x].cptr].yptr = NULL
  <2>1. CASE y = NULL /\ x = p
    BY <1>4, <1>6, <1>8, <1>9, <2>1
  <2>2. CASE ~(y = NULL /\ x = p)
    <3> DEFINE w == P[x].cptr
    <3>1. Q[x].cptr = w /\ w # NULL
      BY <1>8, <1>9, <2>2
    <3>2. w \in L /\ P[w].parent = x /\ P[w].yptr = NULL
      BY <1>1, <3>1 DEF Family
    <3>3. w # c
      BY <2>2, <3>2 DEF y, p
    <3>4. w # z
      BY <1>2, <1>4, <3>2
    <3>. QED  BY <1>8, <3>1, <3>2, <3>3, <3>4
  <2>. QED  BY <2>1, <2>2
<1>10. ASSUME NEW q \in N
       PROVE  /\ Q[q].parent \in N \cup {idle}
              /\ Q[q].yptr = NULL => Q[Q[q].parent].cptr = q
  <2>1. P[q].parent \in N \cup {idle} /\ Q[q].parent = P[q].parent
    BY <1>1, <1>3, <1>8 DEF Family
  <2>2. ASSUME Q[q].yptr = NULL  PROVE Q[Q[q].parent].cptr = q
    <3>1. CASE q = z
      <4>1. y = NULL /\ P[q].parent = p
        BY <1>2, <1>4, <1>8, <2>2, <3>1
      <4>. QED  BY <1>8, <2>1, <3>1, <4>1
    <3>2. CASE q # z
      <4>1. P[q].yptr = NULL
        BY <1>8, <2>2, <3>2
      <4>2. P[P[q].parent].cptr = q
        BY <1>1, <4>1 DEF Family
      <4>3. ~(y = NULL /\ P[q].parent = p)
        BY <1>4, <4>2
      <4>. QED  BY <1>8, <2>1, <4>2, <4>3
    <3>. QED  BY <3>1, <3>2
  <2>. QED  BY <2>1, <2>2
<1>11. ASSUME NEW q \in N, Q[q].yptr # NULL
       PROVE  Q[q].yptr \in N /\ Q[Q[q].yptr].optr = q /\ Q[Q[q].yptr].parent = Q[q].parent
  <2>1. CASE q = z
    <3>1. Q[q].yptr = y /\ y # NULL /\ y \in N
      BY <1>4, <1>6, <1>8, <1>11, <2>1
    <3>. QED  BY <1>2, <1>4, <1>8, <2>1, <3>1
  <2>2. CASE q # z
    <3> DEFINE w == P[q].yptr
    <3>1. Q[q].yptr = w /\ w # NULL
      BY <1>8, <1>11, <2>2
    <3>2. w \in L /\ P[w].optr = q /\ P[w].parent = P[q].parent
      BY <1>1, <3>1 DEF Family
    <3>3. w # c
      BY <2>2, <3>2 DEF z
    <3>4. w # y
      BY <1>2, <1>4, <3>2
    <3>. QED  BY <1>8, <3>1, <3>2, <3>3, <3>4
  <2>. QED  BY <2>1, <2>2
<1>12. ASSUME NEW q \in N, Q[q].optr # NULL
       PROVE  /\ Q[q].optr \in N /\ Q[Q[q].optr].yptr = q /\ Q[Q[q].optr].parent = Q[q].parent
              /\ r[Q[q].optr] < r[q]
  <2>1. CASE q = y
    <3>1. Q[q].optr = z /\ z # NULL /\ z \in N /\ y # NULL
      BY <1>2, <1>4, <1>6, <1>8, <1>12, <2>1
    <3>2. r[z] \in Nat /\ r[c] \in Nat /\ r[y] \in Nat
      BY <1>2, <1>4, <2>1, <3>1
    <3>3. r[z] < r[y]
      BY <1>4, <1>5, <3>1, <3>2
    <3>. QED  BY <1>4, <1>8, <2>1, <3>1, <3>3
  <2>2. CASE q # y
    <3> DEFINE w == P[q].optr
    <3>1. Q[q].optr = w /\ w # NULL
      BY <1>8, <1>12, <2>2
    <3>2. w \in L /\ P[w].yptr = q /\ P[w].parent = P[q].parent /\ r[w] < r[q]
      BY <1>1, <3>1 DEF Family
    <3>3. w # c
      BY <2>2, <3>2 DEF y
    <3>4. w # z
      BY <1>2, <1>4, <3>2
    <3>. QED  BY <1>8, <3>1, <3>2, <3>3, <3>4
  <2>. QED  BY <2>1, <2>2
<1>13. Family(Q, N, r)
  BY <1>9, <1>10, <1>11, <1>12 DEF Family
<1>14. /\ init_proc \in N => Q[init_proc].parent = idle
       /\ \A q \in N : Q[q].parent # q
       /\ Q \in PcbTable /\ N \subseteq Pids \ {idle}
  BY <1>2, <1>7, <1>8 DEF Reaped
<1>15. Linkage(Q, N)
  BY <1>2, <1>13, <1>14 DEF Linkage
<1>. QED  BY <1>3, <1>7, <1>15 DEF Q

-----------------------------------------------------------------------------
(* The area lists that occur: none, and the area of test_swap() alone.      *)
Mm == [pde : [page : Pages \cup {0}, maps : SUBSET Pages], next : [Nodes -> Nodes],
       end : [Nodes -> Nat], num : Nat, cache : [of : Nat, start : Nodes, end : Nat]]
OneArea == [n \in Nodes |-> IF n = HEAD THEN SwapArea ELSE HEAD]
KernelArea == Area(idle, SwapArea, SwapAreaEnd)
MmOK(m) == m \in Mm /\ m.next = OneArea /\ m.end[SwapArea] = SwapAreaEnd /\ m.cache = KernelArea

LEMMA NodeFacts == Nodes = 0..6 /\ MaxStart = 6 /\ HEAD = 0 /\ SwapArea = 1 /\ SwapAreaEnd = 5
  BY ProcessAssumption DEF Nodes, HEAD, SwapArea, SwapAreaEnd

Visits(A, v) == v = [k \in 0..(MaxStart + 1) |-> IF k = 0 THEN A.next[HEAD] ELSE A.next[v[k - 1]]]

LEMMA VisitIs == \A A : Visit(A) = CHOOSE v : Visits(A, v)
  BY DEF Visit, Visits

LEMMA VisitNone ==
  ASSUME NEW A, A.next = [n \in Nodes |-> HEAD]
  PROVE  DOMAIN Visit(A) = 0..7 /\ Visit(A)[0] = 0
<1> DEFINE v == [k \in 0..7 |-> 0]
<1>1. A.next[0] = 0
  BY NodeFacts
<1>2. ASSUME NEW k \in 0..7
      PROVE  v[k] = IF k = 0 THEN A.next[HEAD] ELSE A.next[v[k - 1]]
  <2>1. CASE k = 0
    BY <1>1, <2>1, NodeFacts
  <2>2. CASE k # 0
    <3>1. k - 1 \in 0..7
      BY <2>2
    <3>2. v[k - 1] = 0 /\ v[k] = 0
      BY <3>1
    <3>. QED  BY <1>1, <2>2, <3>2
  <2>. QED  BY <2>1, <2>2
<1>3. Visits(A, v)
  BY <1>2, NodeFacts DEF Visits
<1> HIDE DEF v
<1>4. Visits(A, Visit(A))
  BY <1>3, VisitIs
<1>. QED  BY <1>1, <1>4, NodeFacts DEF Visits

LEMMA VisitOne ==
  ASSUME NEW A, A.next = OneArea
  PROVE  DOMAIN Visit(A) = 0..7 /\ Visit(A)[0] = 1 /\ Visit(A)[1] = 0
<1> DEFINE v == [k \in 0..7 |-> IF k \in {0, 2, 4, 6} THEN 1 ELSE 0]
<1>1. A.next[0] = 1 /\ A.next[1] = 0
  BY NodeFacts DEF OneArea
<1>2. ASSUME NEW k \in 0..7
      PROVE  v[k] = IF k = 0 THEN A.next[HEAD] ELSE A.next[v[k - 1]]
  <2>1. CASE k = 0
    BY <1>1, <2>1, NodeFacts
  <2>2. CASE k # 0
    <3>1. k - 1 \in 0..7 /\ (k - 1 \in {0, 2, 4, 6} <=> k \notin {0, 2, 4, 6})
      BY <2>2
    <3>2. v[k - 1] = IF k - 1 \in {0, 2, 4, 6} THEN 1 ELSE 0
      BY <3>1
    <3>3. v[k] = IF k \in {0, 2, 4, 6} THEN 1 ELSE 0
      OBVIOUS
    <3>. QED  BY <1>1, <2>2, <3>1, <3>2, <3>3
  <2>. QED  BY <2>1, <2>2
<1>3. Visits(A, v)
  BY <1>2, NodeFacts DEF Visits
<1> HIDE DEF v
<1>4. Visits(A, Visit(A))
  BY <1>3, VisitIs
<1>5. DOMAIN Visit(A) = 0..7 /\ Visit(A)[0] = 1
  BY <1>1, <1>4, NodeFacts DEF Visits
<1>6. Visit(A)[1] = A.next[Visit(A)[0]]
  <2>1. 1 \in 0..7 /\ 1 # 0 /\ 1 - 1 = 0
    OBVIOUS
  <2>. QED  BY <1>4, <2>1, NodeFacts DEF Visits
<1>. QED  BY <1>1, <1>5, <1>6

(* The walks over one area. *)
LEMMA AreasOne ==
  ASSUME NEW A, A.next = OneArea
  PROVE  WalkEnds(A) /\ Areas(A) = <<1>>
<1> DEFINE St == {k \in DOMAIN Visit(A) :
                    /\ Visit(A)[k] = HEAD \/ FALSE
                    /\ \A j \in 0..(k - 1) : Visit(A)[j] # HEAD /\ ~FALSE}
<1>1. DOMAIN Visit(A) = 0..7 /\ Visit(A)[0] = 1 /\ Visit(A)[1] = 0 /\ HEAD = 0
  BY VisitOne, NodeFacts
<1>2. St = {1}
  <2>1. 1 \in St
    BY <1>1
  <2>2. ASSUME NEW k \in St  PROVE k = 1
    <3>1. k \in 0..7 /\ k # 0
      BY <1>1
    <3>2. k > 1 => 1 \in 0..(k - 1)
      BY <3>1
    <3>. QED  BY <1>1, <3>1, <3>2
  <2>. QED  BY <2>1, <2>2
<1>3. WalkEnds(A) <=> St # {}
  BY DEF WalkEnds, Stops
<1>4. Areas(A) = LET k == CHOOSE j \in St : TRUE IN [i \in 1..k |-> Visit(A)[i - 1]]
  BY DEF Areas, Stops
<1> HIDE DEF St
<1>5. (CHOOSE j \in St : TRUE) = 1
  BY <1>2
<1>6. Areas(A) = [i \in 1..1 |-> Visit(A)[i - 1]]
  BY <1>4, <1>5
<1>7. \A i \in 1..1 : i = 1 /\ Visit(A)[i - 1] = 1
  BY <1>1
<1>. QED  BY <1>2, <1>3, <1>6, <1>7

LEMMA FindOne ==
  ASSUME NEW A, MmOK(A), NEW of, NEW addr \in SwapArea..(SwapAreaEnd - 1)
  PROVE  find_vma(A, of, addr) \in {KernelArea, Area(of, SwapArea, SwapAreaEnd)}
<1> DEFINE St == {k \in DOMAIN Visit(A) :
                    /\ Visit(A)[k] = HEAD \/ (Visit(A)[k] <= addr /\ A.end[Visit(A)[k]] > addr)
                    /\ \A j \in 0..(k - 1) :
                         /\ Visit(A)[j] # HEAD
                         /\ ~(Visit(A)[j] <= addr /\ A.end[Visit(A)[j]] > addr)}
<1>1. DOMAIN Visit(A) = 0..7 /\ Visit(A)[0] = 1 /\ A.end[1] = 5 /\ A.cache = KernelArea
  BY VisitOne, NodeFacts DEF MmOK
<1>2. addr \in 1..4 /\ HEAD = 0 /\ SwapArea = 1 /\ SwapAreaEnd = 5
  BY NodeFacts
<1>3. St = {0}
  <2>1. 0 \in St
    BY <1>1, <1>2
  <2>2. ASSUME NEW k \in St  PROVE k = 0
    <3>1. k \in 0..7
      BY <1>1
    <3>2. k > 0 => 0 \in 0..(k - 1)
      BY <3>1
    <3>. QED  BY <1>1, <1>2, <3>1, <3>2
  <2>. QED  BY <2>1, <2>2
<1>4. find_vma(A, of, addr) =
        LET c == A.cache
            k == CHOOSE j \in St : TRUE
        IN  IF c.start # HEAD /\ c.start < addr /\ c.end > addr THEN c
            ELSE Area(of, Visit(A)[k], A.end[Visit(A)[k]])
  BY DEF find_vma, Stops
<1> HIDE DEF St
<1>5. (CHOOSE j \in St : TRUE) = 0
  BY <1>3
<1>. QED  BY <1>1, <1>2, <1>4, <1>5

(* create_vma() puts the area of test_swap() into an empty list. *)
LEMMA CreateFirst ==
  ASSUME NEW A \in Mm, A.next = [n \in Nodes |-> HEAD]
  PROVE  LET B == create_vma(A, SwapArea, SwapAreaEnd) IN
           /\ B \in Mm /\ B.next = OneArea /\ B.end[SwapArea] = SwapAreaEnd
           /\ B.cache = A.cache /\ B.pde = A.pde
<1> DEFINE B == [A EXCEPT !.end[1] = 5]
           I == [B EXCEPT !.next[1] = B.next[0]]
           C == [I EXCEPT !.next[0] = 1]
           D == [C EXCEPT !.num = @ + 1]
           St == {k \in DOMAIN Visit(B) :
                    /\ Visit(B)[k] = 0 \/ Visit(B)[k] > 1
                    /\ \A j \in 0..(k - 1) : Visit(B)[j] # 0 /\ ~(Visit(B)[j] > 1)}
           k == CHOOSE j \in St : TRUE
           begin == IF k = 0 THEN 0 ELSE Visit(B)[k - 1]
           E == IF Visit(B)[k] # 0
                THEN [list_insert_after(B, begin, 1) EXCEPT !.num = @ + 1] ELSE B
<1>0. Nodes = 0..6 /\ HEAD = 0 /\ SwapArea = 1 /\ SwapAreaEnd = 5
  BY NodeFacts
<1>1. /\ B \in Mm /\ B.next = [n \in Nodes |-> HEAD] /\ B.end[1] = 5
      /\ B.cache = A.cache /\ B.pde = A.pde
  BY <1>0 DEF Mm
<1>2. create_vma(A, SwapArea, SwapAreaEnd) =
        IF begin = 0 THEN [list_insert_after(E, 0, 1) EXCEPT !.num = @ + 1] ELSE E
  BY <1>0 DEF create_vma, Stops
<1> HIDE DEF B
<1>3. DOMAIN Visit(B) = 0..7 /\ Visit(B)[0] = 0
  BY <1>1, VisitNone
<1>4. St = {0}
  <2>1. 0 \in St
    BY <1>3
  <2>2. ASSUME NEW j \in St  PROVE j = 0
    <3>1. j \in 0..7
      BY <1>3
    <3>2. j > 0 => 0 \in 0..(j - 1)
      BY <3>1
    <3>. QED  BY <1>3, <3>1, <3>2
  <2>. QED  BY <2>1, <2>2
<1> HIDE DEF St
<1>5. k = 0
  BY <1>4
<1>6. begin = 0 /\ E = B
  BY <1>3, <1>5
<1> HIDE DEF k, begin, E
<1>7. create_vma(A, SwapArea, SwapAreaEnd) = D
  BY <1>2, <1>6 DEF list_insert_after
<1>a. /\ I \in Mm /\ I.next = [B.next EXCEPT ![1] = B.next[0]]
      /\ I.end = B.end /\ I.cache = B.cache /\ I.pde = B.pde
  BY <1>0, <1>1 DEF Mm
<1> HIDE DEF I
<1>8. /\ C \in Mm /\ C.next = [[B.next EXCEPT ![1] = B.next[0]] EXCEPT ![0] = 1]
      /\ C.end = B.end /\ C.cache = B.cache /\ C.pde = B.pde
  BY <1>0, <1>a DEF Mm
<1>9. C.next = OneArea
  <2>1. \A n \in Nodes : C.next[n] = OneArea[n]
    BY <1>0, <1>1, <1>8 DEF OneArea
  <2>2. C.next \in [Nodes -> Nodes]
    BY <1>8 DEF Mm
  <2>. QED  BY <2>1, <2>2 DEF OneArea
<1> HIDE DEF C
<1>10. /\ D \in Mm /\ D.next = C.next /\ D.end = C.end /\ D.cache = C.cache /\ D.pde = C.pde
  BY <1>8 DEF Mm
<1> HIDE DEF D
<1>. QED  BY <1>0, <1>1, <1>7, <1>8, <1>9, <1>10

(* The area of the code is greater than the only one, and is dropped. *)
LEMMA CreateSecond ==
  ASSUME NEW A, MmOK(A)
  PROVE  LET B == create_vma(A, CodeArea, CodeArea + 1) IN MmOK(B) /\ B.pde = A.pde
<1> DEFINE B == [A EXCEPT !.end[6] = 7]
           St == {k \in DOMAIN Visit(B) :
                    /\ Visit(B)[k] = 0 \/ Visit(B)[k] > 6
                    /\ \A j \in 0..(k - 1) : Visit(B)[j] # 0 /\ ~(Visit(B)[j] > 6)}
           k == CHOOSE j \in St : TRUE
           begin == IF k = 0 THEN 0 ELSE Visit(B)[k - 1]
           E == IF Visit(B)[k] # 0
                THEN [list_insert_after(B, begin, 6) EXCEPT !.num = @ + 1] ELSE B
<1>0. Nodes = 0..6 /\ HEAD = 0 /\ SwapArea = 1 /\ SwapAreaEnd = 5 /\ CodeArea = 6 /\ CodeArea + 1 = 7
  BY NodeFacts DEF CodeArea
<1>1. MmOK(B) /\ B.pde = A.pde
  BY <1>0 DEF MmOK, Mm
<1>2. create_vma(A, CodeArea, CodeArea + 1) =
        IF begin = 0 THEN [list_insert_after(E, 0, 6) EXCEPT !.num = @ + 1] ELSE E
  BY <1>0 DEF create_vma, Stops
<1> HIDE DEF B
<1>3. DOMAIN Visit(B) = 0..7 /\ Visit(B)[0] = 1 /\ Visit(B)[1] = 0
  BY <1>1, VisitOne DEF MmOK
<1>4. St = {1}
  <2>1. 1 \in St
    BY <1>3
  <2>2. ASSUME NEW j \in St  PROVE j = 1
    <3>1. j \in 0..7 /\ j # 0
      BY <1>3
    <3>2. j > 1 => 1 \in 0..(j - 1)
      BY <3>1
    <3>. QED  BY <1>3, <3>1, <3>2
  <2>. QED  BY <2>1, <2>2
<1> HIDE DEF St
<1>5. k = 1
  BY <1>4
<1> HIDE DEF k
<1>6. begin = 1 /\ E = B
  <2>1. k # 0 /\ k - 1 = 0
    BY <1>5
  <2>. QED  BY <1>3, <1>5, <2>1
<1> HIDE DEF k, begin, E
<1>. QED  BY <1>1, <1>2, <1>6

(* A copy of an mm with the one area has that area. *)
LEMMA CopyOne ==
  ASSUME NEW old, MmOK(old), NEW page \in Pages
  PROVE  MmOK(copy_mm(old, page)) /\ copy_mm(old, page).pde.page = page
<1> DEFINE bare == [old EXCEPT !.next = NoMm.next]
           base == [bare EXCEPT !.pde.page = page]
           copy == create_vma(base, SwapArea, SwapAreaEnd)
           e(g, t) == IF t = {} THEN base ELSE create_vma(g[t \ {Max(t)}], <<1>>[Max(t)], old.end[<<1>>[Max(t)]])
           Ok(g) == g = [t \in SUBSET {1} |-> e(g, t)]
<1>0. /\ NoMm.next = [n \in Nodes |-> HEAD] /\ SwapArea = 1 /\ SwapAreaEnd = 5
      /\ old.end[1] = 5 /\ old \in Mm /\ old.cache = KernelArea
  BY NodeFacts DEF NoMm, create_mm, MmOK
<1>a. bare \in Mm /\ bare.next = [n \in Nodes |-> HEAD] /\ bare.cache = KernelArea
  BY <1>0, NodeFacts DEF Mm
<1>1. /\ base \in Mm /\ base.next = [n \in Nodes |-> HEAD]
      /\ base.cache = KernelArea /\ base.pde.page = page
  <2> HIDE DEF bare
  <2>. QED  BY <1>a DEF Mm
<1>2. Areas(old) = <<1>> /\ DOMAIN <<1>> = {1}
  BY AreasOne DEF MmOK
<1>3. copy_mm(old, page) = (CHOOSE g : Ok(g))[{1}]
  BY <1>2 DEF copy_mm, FoldLeft, MapThenFoldSet
<1> HIDE DEF base
<1>4. Max({1}) = 1
  BY DEF Max
<1>5. \E g : Ok(g)
  <2> DEFINE g == [t \in SUBSET {1} |-> IF t = {} THEN base ELSE copy]
  <2>1. ASSUME NEW t \in SUBSET {1}  PROVE g[t] = e(g, t)
    <3>1. CASE t = {}
      BY <3>1
    <3>2. CASE t # {}
      <4>1. t = {1} /\ {1} \ {1} = {}
        BY <3>2
      <4>2. g[{}] = base
        OBVIOUS
      <4>3. <<1>>[1] = 1
        OBVIOUS
      <4>. QED  BY <1>0, <1>4, <3>2, <4>1, <4>2, <4>3
    <3>. QED  BY <3>1, <3>2
  <2>2. g = [t \in SUBSET {1} |-> g[t]]
    OBVIOUS
  <2> HIDE DEF g, e
  <2>3. Ok(g)
    BY <2>1, <2>2
  <2>. QED  BY <2>3
<1> DEFINE h == CHOOSE g : Ok(g)
<1>6. Ok(h)
  <2> HIDE DEF Ok
  <2>. QED  BY <1>5
<1> HIDE DEF h
<1>7. h[{1}] = e(h, {1}) /\ h[{}] = e(h, {})
  <2>1. {1} \in SUBSET {1} /\ {} \in SUBSET {1}
    OBVIOUS
  <2> HIDE DEF e
  <2>. QED  BY <1>6, <2>1
<1>8. h[{1}] = copy
  <2>1. {1} \ {1} = {} /\ {1} # {}
    OBVIOUS
  <2>2. <<1>>[1] = 1
    OBVIOUS
  <2>. QED  BY <1>0, <1>4, <1>7, <2>1, <2>2
<1>9. copy_mm(old, page) = copy
  BY <1>3, <1>8 DEF h
<1>10. /\ copy \in Mm /\ copy.next = OneArea /\ copy.end[SwapArea] = SwapAreaEnd
       /\ copy.cache = base.cache /\ copy.pde = base.pde
  BY <1>1, CreateFirst
<1> HIDE DEF copy
<1>. QED  BY <1>0, <1>1, <1>9, <1>10 DEF MmOK

LEMMA KernelMm == MmOK(kernel_mm)
<1> DEFINE A == create_vma(NoMm, SwapArea, SwapAreaEnd)
<1>1. NoMm \in Mm /\ NoMm.next = [n \in Nodes |-> HEAD]
  BY NodeFacts DEF NoMm, create_mm, Directory, Mm, NoArea, Area
<1>2. A \in Mm /\ A.next = OneArea /\ A.end[SwapArea] = SwapAreaEnd
  BY <1>1, CreateFirst
<1>3. KernelArea \in [of : Nat, start : Nodes, end : Nat]
  BY NodeFacts DEF KernelArea, Area, idle
<1> HIDE DEF A
<1>4. MmOK([A EXCEPT !.cache = KernelArea])
  BY <1>2, <1>3 DEF MmOK, Mm
<1>. QED  BY <1>4 DEF kernel_mm, KernelArea, A

-----------------------------------------------------------------------------
(* Searches in the list. *)
LEMMA MinIn ==
  ASSUME NEW S \in SUBSET Nat, S # {}
  PROVE  Min(S) \in S /\ \A y \in S : Min(S) <= y
<1> DEFINE R == OpToRel(<, Nat)
<1>1. IsWellFoundedOn(R, Nat)
  BY NatLessThanWellFounded, Zenon
<1>2. \A x, y \in Nat : <<y, x>> \in R <=> y < x
  BY DEF OpToRel
<1> HIDE DEF R
<1>3. PICK x \in S : \A y \in S : ~(<<y, x>> \in R)
  BY <1>1, WFMin
<1>4. ASSUME NEW y \in S  PROVE x <= y
  <2>1. x \in Nat /\ y \in Nat /\ ~(y < x)
    BY <1>2, <1>3
  <2>. QED  BY <2>1
<1>. QED  BY <1>4 DEF Min

(* schedule() finds a process of the list that can run, or idle. *)
LEMMA TargetIs ==
  ASSUME NEW c, NEW P, NEW L \in Seq(Pids)
  PROVE  \/ Target(c, P, L) = idle
         \/ /\ Target(c, P, L) \in {L[j] : j \in 1..Len(L)}
            /\ P[Target(c, P, L)].state = "TASK_RUNNABLE"
<1> DEFINE I == {j \in 1..Len(L) : L[j] = c}
           i == IF c = idle THEN 0 ELSE IF I # {} THEN Min(I) ELSE 0
           ring == SubSeq(L, i + 1, Len(L)) \o SubSeq(L, 1, i - 1)
           K == {j \in 1..Len(ring) : P[ring[j]].state = "TASK_RUNNABLE"}
           k == IF K # {} THEN Min(K) ELSE 0
           E == {L[j] : j \in 1..Len(L)}
<1>1. Target(c, P, L) = IF k = 0 THEN idle ELSE ring[k]
  BY DEF Target, SelectInSeq
<1>2. i \in 0..Len(L) /\ Len(L) \in Nat
  <2>2. Len(L) \in Nat
    OBVIOUS
  <2>0. I \in SUBSET Nat
    BY <2>2
  <2>1. I # {} => Min(I) \in I
    <3> HIDE DEF I
    <3>. QED  BY <2>0, MinIn
  <2> HIDE DEF I
  <2>. QED  BY <2>1, <2>2 DEF I
<1> HIDE DEF i
<1>3. SubSeq(L, i + 1, Len(L)) \in Seq(E)
  <2>1. i + 1 \in Int /\ Len(L) \in Int
    BY <1>2
  <2>2. \A j \in (i + 1)..Len(L) : j \in 1..Len(L)
    BY <1>2
  <2>3. \A j \in (i + 1)..Len(L) : L[j] \in E
    BY <2>2
  <2> HIDE DEF E
  <2>. QED  BY <2>1, <2>3, SubSeqProperties
<1>4. SubSeq(L, 1, i - 1) \in Seq(E)
  <2>1. i - 1 \in Int /\ 1 \in Int
    BY <1>2
  <2>2. \A j \in 1..(i - 1) : j \in 1..Len(L)
    BY <1>2
  <2>3. \A j \in 1..(i - 1) : L[j] \in E
    BY <2>2
  <2> HIDE DEF E
  <2>. QED  BY <2>1, <2>3, SubSeqProperties
<1>5. ring \in Seq(E)
  BY <1>3, <1>4, ConcatProperties
<1> HIDE DEF ring, E
<1>6. CASE K = {}
  BY <1>1, <1>6
<1>7. CASE K # {}
  <2>1. K \in SUBSET Nat
    BY <1>5
  <2>2. k \in K
    BY <1>7, <2>1, MinIn
  <2> HIDE DEF k
  <2>3. k \in 1..Len(ring) /\ k # 0 /\ P[ring[k]].state = "TASK_RUNNABLE"
    BY <1>5, <2>2
  <2>4. ring[k] \in E
    BY <1>5, <2>3
  <2>. QED  BY <1>1, <2>3, <2>4 DEF E
<1>. QED  BY <1>6, <1>7

(* The list without c, as recycle_child() leaves it. *)
Without(L, c) == RemoveAt(L, SelectInSeq(L, LAMBDA q : q = c))

LEMMA RemoveIs ==
  ASSUME NEW L \in Seq(Pids), NEW c,
         \A i, j \in 1..Len(L) : L[i] = L[j] => i = j,
         NEW n \in 1..Len(L), L[n] = c
  PROVE  LET M == Without(L, c) IN
           /\ M \in Seq(Pids) /\ Len(M) = Len(L) - 1 /\ Len(L) \in Nat
           /\ \A j \in 1..(Len(L) - 1) : M[j] = IF j < n THEN L[j] ELSE L[j + 1]
<1> DEFINE I == {j \in 1..Len(L) : L[j] = c}
           k == IF I # {} THEN Min(I) ELSE 0
           A == SubSeq(L, 1, n - 1)
           B == SubSeq(L, n + 1, Len(L))
<1>1. I = {n}
  OBVIOUS
<1>2. k = n
  <2>1. n \in Nat
    OBVIOUS
  <2>2. Min({n}) = n
    <3>1. {n} \in SUBSET Nat /\ {n} # {}
      BY <2>1
    <3>2. Min({n}) \in {n}
      BY <3>1, MinIn
    <3>. QED  BY <3>2
  <2> HIDE DEF I
  <2>. QED  BY <1>1, <2>2
<1>3. Without(L, c) = RemoveAt(L, k)
  BY DEF SelectInSeq, Without
<1> HIDE DEF k
<1>4. Without(L, c) = A \o B
  BY <1>2, <1>3 DEF RemoveAt
<1>5. Len(L) \in Nat /\ n \in Nat /\ 1 <= n /\ n <= Len(L) /\ \A j \in 1..Len(L) : L[j] \in Pids
  OBVIOUS
<1>6. A \in Seq(Pids) /\ Len(A) = n - 1 /\ \A j \in 1..(n - 1) : A[j] = L[j]
  <2>1. \A j \in 1..(n - 1) : j \in 1..Len(L) /\ 1 + j - 1 = j
    BY <1>5
  <2>2. \A j \in 1..(n - 1) : L[j] \in Pids
    BY <1>5, <2>1
  <2>3. n - 1 \in Int /\ 1 \in Int /\ (n - 1) - 1 + 1 = n - 1
    BY <1>5
  <2>4. /\ A \in Seq(Pids) /\ Len(A) = IF 1 <= n - 1 THEN (n - 1) - 1 + 1 ELSE 0
        /\ \A j \in 1..((n - 1) - 1 + 1) : A[j] = L[1 + j - 1]
    BY <2>2, <2>3, SubSeqProperties
  <2> HIDE DEF A
  <2>5. Len(A) = n - 1
    BY <1>5, <2>4
  <2>. QED  BY <2>1, <2>3, <2>4, <2>5
<1>7. B \in Seq(Pids) /\ Len(B) = Len(L) - n /\ \A j \in 1..(Len(L) - n) : B[j] = L[n + j]
  <2>1. \A j \in (n + 1)..Len(L) : j \in 1..Len(L)
    BY <1>5
  <2>2. \A j \in (n + 1)..Len(L) : L[j] \in Pids
    BY <1>5, <2>1
  <2>3. n + 1 \in Int /\ Len(L) \in Int
    BY <1>5
  <2>4. /\ B \in Seq(Pids) /\ Len(B) = IF n + 1 <= Len(L) THEN Len(L) - (n + 1) + 1 ELSE 0
        /\ \A j \in 1..(Len(L) - (n + 1) + 1) : B[j] = L[(n + 1) + j - 1]
    BY <2>2, <2>3, SubSeqProperties
  <2>5. Len(L) - (n + 1) + 1 = Len(L) - n /\ \A j \in 1..(Len(L) - n) : (n + 1) + j - 1 = n + j
    BY <1>5
  <2> HIDE DEF B
  <2>6. Len(B) = Len(L) - n
    BY <1>5, <2>4
  <2>. QED  BY <2>4, <2>5, <2>6
<1> HIDE DEF A, B
<1>8. /\ A \o B \in Seq(Pids) /\ Len(A \o B) = Len(A) + Len(B)
      /\ \A j \in 1..(Len(A) + Len(B)) : (A \o B)[j] = IF j <= Len(A) THEN A[j] ELSE B[j - Len(A)]
  <2>1. A \in Seq(Pids) /\ B \in Seq(Pids)
    BY <1>6, <1>7
  <2>. QED  BY <2>1, ConcatProperties
<1>9. Len(A) + Len(B) = Len(L) - 1
  BY <1>5, <1>6, <1>7
<1>10. ASSUME NEW j \in 1..(Len(L) - 1)
       PROVE  (A \o B)[j] = IF j < n THEN L[j] ELSE L[j + 1]
  <2>1. j \in Nat /\ j >= 1 /\ j <= Len(L) - 1
    BY <1>5
  <2>2. CASE j < n
    <3>1. j <= Len(A) /\ j \in 1..(n - 1)
      BY <1>5, <1>6, <2>1, <2>2
    <3>. QED  BY <1>6, <1>8, <1>9, <2>2, <3>1
  <2>3. CASE ~(j < n)
    <3>1. ~(j <= Len(A)) /\ j - Len(A) = j - n + 1 /\ j - n + 1 \in 1..(Len(L) - n) /\ n + (j - n + 1) = j + 1
      BY <1>5, <1>6, <2>1, <2>3
    <3>2. (A \o B)[j] = B[j - n + 1]
      BY <1>8, <1>9, <3>1
    <3>3. B[j - n + 1] = L[n + (j - n + 1)]
      BY <1>7, <3>1
    <3>. QED  BY <2>3, <3>1, <3>2, <3>3
  <2>. QED  BY <2>2, <2>3
<1>. QED  BY <1>4, <1>5, <1>8, <1>9, <1>10

-----------------------------------------------------------------------------
(* The inductive invariant. *)

(* The list: init is the last, idle is not in it; pids are given out from   *)
(* the lowest, so a child has a greater pid than its parent.                *)
ListOK ==
  /\ proc_list \in Seq(Pids)
  /\ \A i, j \in 1..Len(proc_list) : proc_list[i] = proc_list[j] => i = j
  /\ proc_list # <<>> => proc_list[Len(proc_list)] = init_proc
  /\ idle \in pids /\ idle \notin Live
  /\ \A a \in pids, b \in Pids : b < a => b \in pids

(* Only init is a child of idle. *)
Parents ==
  \A q \in Live : /\ pcb[q].parent \in Live \cup {idle} /\ pcb[q].parent < q
                  /\ pcb[q].parent = idle <=> q = init_proc

(* A zombie has no children; init, unless it hangs, exits as the last one.  *)
States ==
  /\ \A q \in Live : pcb[q].state \in {"TASK_RUNNABLE", "TASK_ZOMBIE"}
  /\ ~hung /\ current \in Live => pcb[current].state = "TASK_RUNNABLE"
  /\ \A q \in Live \ {init_proc} : Zombie(q) => pcb[q].cptr = NULL
  /\ ~hung /\ init_proc \in Live /\ Zombie(init_proc) => Live = {init_proc}

(* Who waits lives, and waits for a child of its own; with pid 0 it looks   *)
(* at the last of the list, init.                                           *)
WaitSteps == {"initwait", "u2", "u3", "any"}
Steps == {"boot", "idle", "init", "sec", "exit", "u0", "u1", "none"} \cup WaitSteps
AtRecord == [pc : Steps, wait : {"no", "pid", "any"}, chd : Pids \cup {NULL},
             arg : Pids \cup {NULL}]

Places ==
  /\ at \in [Pids -> AtRecord]
  /\ at[idle].pc \in {"boot", "idle"}
  /\ \A p \in Pids :
       /\ at[p].pc = "boot" => p = idle /\ pids = {idle}
       /\ at[p].wait # "no" => p \in Live /\ ~Zombie(p) /\ at[p].pc \in WaitSteps
       /\ at[p].wait = "pid" => at[p].chd \in Live /\ pcb[at[p].chd].parent = p
       /\ at[p].wait = "any" => at[p].chd = init_proc

(* The mm of a process is its own, and lists the area of test_swap().       *)
Mms ==
  /\ DOMAIN mms = Pids
  /\ MmOK(mms[idle])
  /\ \A p \in Pids : pcb[p].mm \in {NULL, p}
  /\ \A p \in Live : ~Zombie(p) /\ pcb[p].mm = p => MmOK(mms[p]) /\ mms[p].pde.page \in Pages

ProcInv ==
  /\ ProcTypeOK /\ Linkage(pcb, Live)
  /\ ListOK /\ Parents /\ States /\ Places /\ Mms

LEMMA TypeIs == ProcTypeOK <=> /\ pcb \in PcbTable
                               /\ Live \subseteq pids /\ pids \subseteq Pids
                               /\ current \in Live \cup {idle}
                               /\ free \subseteq Pages
                               /\ hung \in BOOLEAN
  BY DEF ProcTypeOK, PcbTable, PcbRecord

LEMMA ReturnedIs ==
  ASSUME pc \in WaitSteps \cup DOMAIN ChildStart, NEW pid \in Pids \cup {NULL}
  PROVE  /\ Returned(pid) \in AtRecord
         /\ Returned(pid).wait = "no" /\ Returned(pid).pc # "boot"
         /\ pc = "boot" => Returned(pid).pc = "idle"
<1> DEFINE arg == IF pc = "init" THEN pid ELSE NULL
           to == AfterCall[pc]
<1>1. pc \in {"boot", "init", "initwait", "u0", "u1", "u2", "u3", "any"}
  BY DEF WaitSteps, ChildStart
<1>2. to \in Steps /\ to # "boot" /\ (pc = "boot" => to = "idle")
  BY <1>1 DEF AfterCall, Steps, WaitSteps
<1>3. arg \in Pids \cup {NULL}
  OBVIOUS
<1> HIDE DEF to, arg
<1>4. Returned(pid) = [pc |-> to, wait |-> "no", chd |-> NULL, arg |-> arg]
  BY DEF Returned, At, to, arg
<1>. QED  BY <1>2, <1>3, <1>4 DEF AtRecord

LEMMA StartIs ==
  ASSUME pc \in DOMAIN ChildStart
  PROVE  /\ At(ChildStart[pc]) \in AtRecord
         /\ At(ChildStart[pc]).wait = "no" /\ At(ChildStart[pc]).pc # "boot"
<1> DEFINE to == ChildStart[pc]
<1>1. pc \in {"boot", "init", "u0", "u1", "any"}
  BY DEF ChildStart
<1>2. to \in Steps /\ to # "boot"
  BY <1>1 DEF ChildStart, Steps, WaitSteps
<1> HIDE DEF to
<1>3. At(to) = [pc |-> to, wait |-> "no", chd |-> NULL, arg |-> NULL]
  BY DEF At
<1>. QED  BY <1>2, <1>3 DEF AtRecord, to

-----------------------------------------------------------------------------
LEMMA InvInit == proc_init => ProcInv
<1> SUFFICES ASSUME proc_init  PROVE ProcInv
  OBVIOUS
<1>0. /\ idle \in Pids /\ NULL \notin Pids /\ idle # init_proc /\ Pids \subseteq Nat
  BY PidFacts
<1>1. Live = {} /\ proc_list = <<>> /\ Len(proc_list) = 0
  BY DEF proc_init, Live
<1>2. create_pcb \in PcbRecord /\ create_pcb.cptr = NULL /\ create_pcb.mm = NULL
  BY DEF create_pcb, PcbRecord
<1>3. pcb \in PcbTable /\ \A p \in Pids : pcb[p].cptr = NULL /\ pcb[p].mm = NULL
  BY <1>2 DEF proc_init, PcbTable
<1>4. ProcTypeOK
  BY <1>0, <1>1, <1>3, TypeIs DEF proc_init
<1>5. Linkage(pcb, Live)
  <2> DEFINE r == [p \in Pids |-> 0]
  <2>1. r \in [Pids -> Nat]
    OBVIOUS
  <2>2. Family(pcb, {}, r)
    BY <1>0, <1>3 DEF Family
  <2> HIDE DEF r
  <2>. QED  BY <1>0, <1>1, <1>3, <2>1, <2>2 DEF Linkage
<1>6. ListOK
  BY <1>0, <1>1 DEF ListOK, proc_init, idle
<1>7. Parents /\ States
  BY <1>0, <1>1 DEF Parents, States, proc_init
<1>8. Places
  <2>1. \A p \in Pids : /\ at[p].pc = IF p = idle THEN "boot" ELSE "none"
                        /\ at[p].wait = "no" /\ at[p] \in AtRecord
    BY DEF proc_init, At, AtRecord, Steps
  <2>2. at \in [Pids -> AtRecord] /\ pids = {idle}
    BY <2>1 DEF proc_init
  <2>. QED  BY <1>0, <2>1, <2>2 DEF Places
<1>9. Mms
  <2>1. DOMAIN mms = Pids /\ mms[idle] = kernel_mm
    BY <1>0 DEF proc_init
  <2>. QED  BY <1>1, <1>3, <2>1, KernelMm DEF Mms
<1>. QED  BY <1>4, <1>5, <1>6, <1>7, <1>8, <1>9 DEF ProcInv

(* Steps that leave the processes alone. *)
LEMMA Quiet ==
  ASSUME ProcInv, UNCHANGED <<pcb, proc_list, pids>>
  PROVE  /\ Live' = Live /\ Linkage(pcb, Live)' /\ ListOK' /\ Parents'
         /\ \A q : Zombie(q)' <=> Zombie(q)
<1>1. Live' = Live
  BY DEF Live
<1>2. \A q : Zombie(q)' <=> Zombie(q)
  BY DEF Zombie
<1>3. Linkage(pcb, Live)'
  BY <1>1 DEF ProcInv
<1>. QED  BY <1>1, <1>2, <1>3 DEF ProcInv, ListOK, Parents

LEMMA TargetOK ==
  ASSUME ListOK, NEW P, NEW c
  PROVE  /\ Target(c, P, proc_list) \in Live \cup {idle}
         /\ Target(c, P, proc_list) \in Live => P[Target(c, P, proc_list)].state = "TASK_RUNNABLE"
<1>1. proc_list \in Seq(Pids) /\ idle \notin Live
  BY DEF ListOK
<1>2. \/ Target(c, P, proc_list) = idle
      \/ /\ Target(c, P, proc_list) \in Live
         /\ P[Target(c, P, proc_list)].state = "TASK_RUNNABLE"
  BY <1>1, TargetIs DEF Live
<1>. QED  BY <1>1, <1>2

LEMMA TimerStep == ASSUME ProcInv, Timer  PROVE ProcInv'
<1>0. UNCHANGED <<pcb, proc_list, pids, mms, free, at, hung>>
  BY DEF Timer
<1>1. /\ Live' = Live /\ Linkage(pcb, Live)' /\ ListOK' /\ Parents'
      /\ \A q : Zombie(q)' <=> Zombie(q)
  BY <1>0, Quiet
<1>2. /\ current' \in Live \cup {idle}
      /\ current' \in Live => pcb[current'].state = "TASK_RUNNABLE"
  <2>1. ListOK /\ current' = Target(current, pcb, proc_list)
    BY DEF ProcInv, Timer
  <2>. QED  BY <2>1, TargetOK
<1>3. ProcTypeOK'
  BY <1>0, <1>1, <1>2, TypeIs DEF ProcInv, ProcTypeOK
<1>4. States'
  BY <1>0, <1>1, <1>2 DEF ProcInv, States
<1>5. Places'
  BY <1>0, <1>1 DEF ProcInv, Places
<1>6. Mms'
  BY <1>0, <1>1 DEF ProcInv, Mms
<1>. QED  BY <1>1, <1>3, <1>4, <1>5, <1>6 DEF ProcInv

(* The running process: what it is and where it may be. *)
LEMMA RunnerFacts ==
  ASSUME ProcInv
  PROVE  /\ current \in Pids /\ current \in Live \cup {idle}
         /\ pc = at[current].pc /\ pc \in Steps
         /\ pc \notin {"boot", "idle"} => current \in Live
         /\ pc = "boot" => current = idle /\ pids = {idle}
         /\ ~hung /\ current \in Live => ~Zombie(current) /\ pcb[current].state = "TASK_RUNNABLE"
<1>1. /\ current \in Live \cup {idle} /\ Live \subseteq Pids
  BY DEF ProcInv, ProcTypeOK
<1>2. current \in Pids
  BY <1>1, PidFacts
<1>3. pc = at[current].pc /\ at[current] \in AtRecord
  BY <1>2 DEF pc, ProcInv, Places
<1>4. pc \in Steps
  BY <1>3 DEF AtRecord
<1>5. pc \notin {"boot", "idle"} => current \in Live
  BY <1>1, <1>3 DEF ProcInv, Places
<1>6. pc = "boot" => current = idle /\ pids = {idle}
  BY <1>2, <1>3 DEF ProcInv, Places
<1>7. ~hung /\ current \in Live => ~Zombie(current) /\ pcb[current].state = "TASK_RUNNABLE"
  BY DEF ProcInv, States, Zombie
<1>. QED  BY <1>1, <1>2, <1>3, <1>4, <1>5, <1>6, <1>7

(* The processes C go on, and nothing the others wait for is taken away.    *)
OnlyMoves(C) ==
  /\ at' \in [Pids -> AtRecord]
  /\ \A p \in C :
       at'[p].wait = "no" /\ at'[p].pc # "boot" /\ (p = idle => at'[p].pc = "idle")
  /\ \A p \in Pids \ C :
       /\ at'[p] = at[p]
       /\ pids' = pids \/ at[p].pc # "boot"
       /\ p \in Live /\ ~Zombie(p) => p \in Live' /\ ~Zombie(p)'
       /\ \A q \in Live : pcb[q].parent = p => q \in Live' /\ pcb'[q].parent = p

LEMMA PlacesKeep ==
  ASSUME ProcInv, NEW C, OnlyMoves(C)
  PROVE  Places'
<1>1. at'[idle].pc \in {"boot", "idle"}
  <2>1. CASE idle \in C
    BY <2>1 DEF OnlyMoves
  <2>2. CASE idle \notin C
    BY <2>2, PidFacts DEF OnlyMoves, ProcInv, Places
  <2>. QED  BY <2>1, <2>2
<1>2. ASSUME NEW p \in Pids
      PROVE  /\ at'[p].pc = "boot" => p = idle /\ pids' = {idle}
             /\ at'[p].wait # "no" => p \in Live' /\ ~Zombie(p)' /\ at'[p].pc \in WaitSteps
             /\ at'[p].wait = "pid" => at'[p].chd \in Live' /\ pcb'[at'[p].chd].parent = p
             /\ at'[p].wait = "any" => at'[p].chd = init_proc
  <2>1. CASE p \in C
    BY <2>1 DEF OnlyMoves
  <2>2. CASE p \notin C
    <3>1. at'[p] = at[p]
      BY <2>2 DEF OnlyMoves
    <3>. QED  BY <2>2, <3>1 DEF OnlyMoves, ProcInv, Places
  <2>. QED  BY <2>1, <2>2
<1>. QED  BY <1>1, <1>2 DEF Places, OnlyMoves

LEMMA GoesOn ==
  ASSUME ProcInv, UNCHANGED <<pcb, proc_list, pids>>, NEW a \in AtRecord,
         at' = [at EXCEPT ![current] = a], a.wait = "no",
         a.pc # "boot", current = idle => a.pc = "idle"
  PROVE  Places'
<1>0. current \in Pids
  BY RunnerFacts
<1>1. Live' = Live /\ \A q : Zombie(q)' <=> Zombie(q)
  BY Quiet
<1>2. at \in [Pids -> AtRecord] /\ at' \in [Pids -> AtRecord]
  BY DEF ProcInv, Places
<1>3. at'[current] = a /\ \A p \in Pids \ {current} : at'[p] = at[p]
  BY <1>0, <1>2
<1>4. OnlyMoves({current})
  BY <1>1, <1>2, <1>3 DEF OnlyMoves
<1>. QED  BY <1>4, PlacesKeep

(* do_fork() gives up. *)
LEMMA Fails ==
  ASSUME ProcInv, UNCHANGED <<pcb, proc_list, pids, current, mms, hung>>, free' \subseteq Pages,
         NEW pid \in Pids \cup {NULL}, pc \in WaitSteps \cup DOMAIN ChildStart, pc # "boot",
         at' = [at EXCEPT ![current] = Returned(pid)]
  PROVE  ProcInv'
<1>1. /\ Live' = Live /\ Linkage(pcb, Live)' /\ ListOK' /\ Parents'
      /\ \A q : Zombie(q)' <=> Zombie(q)
  BY Quiet
<1>2. ProcTypeOK'
  BY <1>1 DEF ProcInv, ProcTypeOK
<1>3. States'
  BY <1>1 DEF ProcInv, States
<1>4. Mms'
  BY <1>1 DEF ProcInv, Mms
<1>5. Places'
  <2>1. /\ Returned(pid) \in AtRecord
        /\ Returned(pid).wait = "no" /\ Returned(pid).pc # "boot"
    BY ReturnedIs
  <2>2. current # idle
    <3>1. pc # "idle"
      BY DEF WaitSteps, ChildStart
    <3>2. idle \notin Live
      BY DEF ProcInv, ListOK
    <3>. QED  BY <3>1, <3>2, RunnerFacts
  <2>. QED  BY <2>1, <2>2, GoesOn
<1>. QED  BY <1>1, <1>2, <1>3, <1>4, <1>5 DEF ProcInv

LEMMA AllocIs ==
  ASSUME NEW F \in SUBSET Pages, NEW n \in {1, 2}, NEW k \in alloc_page(F, n)
  PROVE  k \in F /\ k \in Pages /\ (n = 2 => k + 1 \in F)
<1>1. k \in F /\ k..(k + n - 1) \subseteq F
  BY DEF alloc_page
<1>2. k \in Nat
  BY <1>1, ProcessAssumption DEF Pages
<1>3. n = 2 => k + 1 \in k..(k + n - 1)
  BY <1>2
<1>. QED  BY <1>1, <1>3

LEMMA ForkFailsStep == ASSUME ProcInv, ForkFails  PROVE ProcInv'
<1>1. free' \subseteq Pages
  BY DEF ProcInv, ProcTypeOK, ForkFails
<1>2. NULL \in Pids \cup {NULL} /\ pc \in WaitSteps \cup DOMAIN ChildStart /\ pc # "boot"
  BY DEF ForkFails
<1>. QED  BY <1>1, <1>2, Fails DEF ForkFails

LEMMA ForkNoPidStep == ASSUME ProcInv, ForkNoPid  PROVE ProcInv'
<1>1. free' \subseteq Pages
  <2>1. PICK k \in set_kthread_stack(free) :
          k + 2 \in Pages /\ free' = (free \ {k}) \cup {k + 1, k + 2}
    BY DEF ForkNoPid
  <2>2. free \in SUBSET Pages
    BY DEF ProcInv, ProcTypeOK
  <2>3. k + 1 \in free
    BY <2>2, AllocIs DEF set_kthread_stack, KTHREAD_STACK_PAGE
  <2>. QED  BY <2>1, <2>2, <2>3
<1>2. NULL \in Pids \cup {NULL} /\ pc \in WaitSteps \cup DOMAIN ChildStart
  BY DEF ForkNoPid
<1>3. pc # "boot"
  <2>1. pids = Pids
    BY DEF ForkNoPid
  <2>. QED  BY <2>1, RunnerFacts, PidFacts
<1>. QED  BY <1>1, <1>2, <1>3, Fails DEF ForkNoPid

-----------------------------------------------------------------------------
LEMMA SameLinks ==
  ASSUME NEW P, NEW L, Linkage(P, L), NEW Q \in PcbTable,
         \A q \in Pids : /\ Q[q].parent = P[q].parent /\ Q[q].cptr = P[q].cptr
                         /\ Q[q].yptr = P[q].yptr /\ Q[q].optr = P[q].optr
  PROVE  Linkage(Q, L)
<1>1. PICK r \in [Pids -> Nat] : Family(P, L, r)
  BY DEF Linkage
<1>2. L \subseteq Pids \ {idle} /\ idle \in Pids /\ NULL \notin Pids /\ P \in PcbTable
  BY PidFacts DEF Linkage
<1>3. \A q \in L \cup {idle} : q \in Pids
  BY <1>2
<1>4. Family(Q, L, r)
  <2>1. \A p \in L \cup {idle} : Q[p].cptr # NULL =>
          Q[p].cptr \in L /\ Q[Q[p].cptr].parent = p /\ Q[Q[p].cptr].yptr = NULL
    BY <1>1, <1>3 DEF Family
  <2>2. ASSUME NEW q \in L
        PROVE  /\ Q[q].parent \in L \cup {idle}
               /\ Q[q].yptr = NULL => Q[Q[q].parent].cptr = q
               /\ Q[q].yptr # NULL =>
                    Q[q].yptr \in L /\ Q[Q[q].yptr].optr = q /\ Q[Q[q].yptr].parent = Q[q].parent
               /\ Q[q].optr # NULL =>
                    /\ Q[q].optr \in L /\ Q[Q[q].optr].yptr = q /\ Q[Q[q].optr].parent = Q[q].parent
                    /\ r[Q[q].optr] < r[q]
    BY <1>1, <1>3 DEF Family
  <2>. QED  BY <2>1, <2>2 DEF Family
<1>5. /\ init_proc \in L => Q[init_proc].parent = idle
      /\ \A q \in L : Q[q].parent # q
  BY <1>3 DEF Linkage
<1>. QED  BY <1>2, <1>4, <1>5 DEF Linkage

(* sys_execve() gives the process a mm of its own. *)
LEMMA ExecMm ==
  ASSUME MmOK(mms[idle]), free \in SUBSET Pages,
         NEW k \in alloc_page(free, KTHREAD_STACK_PAGE),
         NEW page \in alloc_page(free \ {k, k + 1}, 1),
         NEW code \in alloc_page(free \ {k, k + 1, page}, 1)
  PROVE  LET m == [create_vma(copy_mm(mms[idle], page), CodeArea, CodeArea + 1)
                     EXCEPT !.pde.maps = {k, k + 1, code}]
         IN  MmOK(m) /\ m.pde.page \in Pages
<1> DEFINE c == copy_mm(mms[idle], page)
           a == create_vma(c, CodeArea, CodeArea + 1)
<1>1. k \in Pages /\ k + 1 \in Pages
  BY AllocIs DEF KTHREAD_STACK_PAGE
<1>2. page \in Pages
  <2>1. free \ {k, k + 1} \in SUBSET Pages
    OBVIOUS
  <2>. QED  BY <2>1, AllocIs
<1>3. code \in Pages
  <2>1. free \ {k, k + 1, page} \in SUBSET Pages
    OBVIOUS
  <2>. QED  BY <2>1, AllocIs
<1>4. MmOK(c) /\ c.pde.page = page
  BY <1>2, CopyOne
<1> HIDE DEF c
<1>5. MmOK(a) /\ a.pde = c.pde
  BY <1>4, CreateSecond
<1> HIDE DEF a
<1>6. LET m == [a EXCEPT !.pde.maps = {k, k + 1, code}] IN MmOK(m) /\ m.pde.page = page
  BY <1>1, <1>3, <1>4, <1>5 DEF MmOK, Mm
<1>. QED  BY <1>2, <1>6 DEF a, c

LEMMA ExecStep == ASSUME ProcInv, sys_execve  PROVE ProcInv'
<1>0. /\ UNCHANGED <<proc_list, pids, current, hung>> /\ ~hung /\ at[current].wait = "no"
      /\ pc = "sec" /\ pcb' = [pcb EXCEPT ![current].mm = current]
  BY DEF sys_execve, Running
<1>1. /\ current \in Live /\ current \in Pids /\ current # idle
      /\ Live \subseteq Pids /\ free \in SUBSET Pages /\ pcb \in PcbTable
  <2>1. idle \notin Live /\ Live \subseteq Pids /\ free \in SUBSET Pages
    BY DEF ProcInv, ListOK, ProcTypeOK
  <2>2. pcb \in PcbTable
    BY TypeIs DEF ProcInv
  <2>. QED  BY <1>0, <2>1, <2>2, RunnerFacts
<1>2. Live' = Live
  BY <1>0 DEF Live
<1>3. /\ pcb' \in PcbTable
      /\ \A q \in Pids :
           /\ pcb'[q].parent = pcb[q].parent /\ pcb'[q].cptr = pcb[q].cptr
           /\ pcb'[q].yptr = pcb[q].yptr /\ pcb'[q].optr = pcb[q].optr
           /\ pcb'[q].state = pcb[q].state
           /\ pcb'[q].mm = IF q = current THEN current ELSE pcb[q].mm
  BY <1>0, <1>1 DEF PcbTable, PcbRecord
<1>4. \A q \in Pids : Zombie(q)' <=> Zombie(q)
  BY <1>3 DEF Zombie
<1>5. Linkage(pcb, Live)'
  <2>1. Linkage(pcb, Live)
    BY DEF ProcInv
  <2>2. Linkage(pcb', Live)
    BY <1>3, <2>1, SameLinks
  <2>. QED  BY <1>2, <2>2
<1>6. ListOK'
  BY <1>0, <1>2 DEF ProcInv, ListOK
<1>7. Parents' /\ States'
  BY <1>0, <1>1, <1>2, <1>3, <1>4 DEF ProcInv, Parents, States
<1>8. Places'
  <2>1. at \in [Pids -> AtRecord] /\ at[current] \in AtRecord
    BY <1>1 DEF ProcInv, Places
  <2>2. PICK step \in {"any", "u0"} : at' = [at EXCEPT ![current].pc = step]
    BY DEF sys_execve
  <2>3. /\ at' \in [Pids -> AtRecord] /\ at'[current].wait = "no" /\ at'[current].pc = step
        /\ \A p \in Pids \ {current} : at'[p] = at[p]
    BY <1>0, <1>1, <2>1, <2>2 DEF AtRecord, Steps, WaitSteps
  <2>4. OnlyMoves({current})
    BY <1>0, <1>1, <1>2, <1>3, <1>4, <2>3 DEF OnlyMoves
  <2>. QED  BY <2>4, PlacesKeep
<1>9. PICK m : /\ MmOK(m) /\ m.pde.page \in Pages
               /\ mms' = [mms EXCEPT ![current] = m] /\ free' \subseteq free
  <2>1. PICK k \in alloc_page(free, KTHREAD_STACK_PAGE) :
        \E page \in alloc_page(free \ {k, k + 1}, 1) :
        \E code \in alloc_page(free \ {k, k + 1, page}, 1) :
        \E m \in {copy_mm(mms[idle], page)} :
          /\ mms' = [mms EXCEPT ![current] = [create_vma(m, CodeArea, CodeArea + 1)
                                               EXCEPT !.pde.maps = {k, k + 1, code}]]
          /\ free' = free \ {k, k + 1, page, code}
    BY DEF sys_execve
  <2>a. PICK page \in alloc_page(free \ {k, k + 1}, 1) :
        \E code \in alloc_page(free \ {k, k + 1, page}, 1) :
          /\ mms' = [mms EXCEPT ![current] =
                       [create_vma(copy_mm(mms[idle], page), CodeArea, CodeArea + 1)
                          EXCEPT !.pde.maps = {k, k + 1, code}]]
          /\ free' = free \ {k, k + 1, page, code}
    BY <2>1
  <2>2. PICK code \in alloc_page(free \ {k, k + 1, page}, 1) :
          /\ mms' = [mms EXCEPT ![current] =
                       [create_vma(copy_mm(mms[idle], page), CodeArea, CodeArea + 1)
                          EXCEPT !.pde.maps = {k, k + 1, code}]]
          /\ free' = free \ {k, k + 1, page, code}
    BY <2>a
  <2> DEFINE m == [create_vma(copy_mm(mms[idle], page), CodeArea, CodeArea + 1)
                     EXCEPT !.pde.maps = {k, k + 1, code}]
  <2>3. MmOK(m) /\ m.pde.page \in Pages
    <3>1. MmOK(mms[idle])
      BY DEF ProcInv, Mms
    <3>. QED  BY <1>1, <3>1, ExecMm
  <2>4. mms' = [mms EXCEPT ![current] = m] /\ free' \subseteq free
    BY <2>2
  <2> HIDE DEF m
  <2>. QED  BY <2>3, <2>4
<1>10. ProcTypeOK'
  <2>1. /\ Live' \subseteq pids' /\ pids' \subseteq Pids /\ current' \in Live' \cup {idle}
        /\ free' \subseteq Pages /\ hung' \in BOOLEAN
    BY <1>0, <1>1, <1>2, <1>9 DEF ProcInv, ProcTypeOK
  <2>. QED  BY <1>3, <2>1 DEF ProcTypeOK, PcbTable, PcbRecord
<1>11. Mms'
  <2>1. DOMAIN mms = Pids
    BY DEF ProcInv, Mms
  <2>2. /\ DOMAIN mms' = Pids /\ mms'[current] = m
        /\ \A p \in Pids \ {current} : mms'[p] = mms[p]
    BY <1>1, <1>9, <2>1
  <2>. QED  BY <1>1, <1>2, <1>3, <1>4, <1>9, <2>2, PidFacts DEF ProcInv, Mms
<1>. QED  BY <1>5, <1>6, <1>7, <1>8, <1>10, <1>11 DEF ProcInv

-----------------------------------------------------------------------------
LEMMA PidIs ==
  ASSUME pids \subseteq Pids, pids # Pids
  PROVE  get_pid \in Pids \ pids /\ \A q \in Pids \ pids : get_pid <= q
<1> DEFINE S == Pids \ pids
<1>1. S \in SUBSET Nat /\ S # {}
  BY PidFacts
<1>2. Min(S) \in S /\ \A y \in S : Min(S) <= y
  <2> HIDE DEF S
  <2>. QED  BY <1>1, MinIn
<1>3. get_pid = CHOOSE p \in S : \A q \in S : p <= q
  BY DEF get_pid
<1> HIDE DEF S
<1>4. get_pid \in S /\ \A q \in S : get_pid <= q
  BY <1>2, <1>3
<1>. QED  BY <1>4 DEF S

LEMMA PrependIs ==
  ASSUME NEW L \in Seq(Pids), NEW p \in Pids
  PROVE  /\ <<p>> \o L \in Seq(Pids) /\ Len(<<p>> \o L) = Len(L) + 1 /\ Len(L) \in Nat
         /\ (<<p>> \o L)[1] = p
         /\ \A j \in 1..Len(L) : (<<p>> \o L)[j + 1] = L[j]
<1>1. <<p>> \in Seq(Pids) /\ Len(<<p>>) = 1 /\ <<p>>[1] = p
  OBVIOUS
<1>2. Len(L) \in Nat
  OBVIOUS
<1>3. /\ <<p>> \o L \in Seq(Pids) /\ Len(<<p>> \o L) = 1 + Len(L)
      /\ \A i \in 1..(1 + Len(L)) : (<<p>> \o L)[i] = IF i <= 1 THEN <<p>>[i] ELSE L[i - 1]
  BY <1>1, ConcatProperties
<1>4. ASSUME NEW j \in 1..Len(L)  PROVE (<<p>> \o L)[j + 1] = L[j]
  <2>1. j + 1 \in 1..(1 + Len(L)) /\ ~(j + 1 <= 1) /\ (j + 1) - 1 = j
    BY <1>2
  <2>. QED  BY <1>3, <2>1
<1>5. 1 \in 1..(1 + Len(L)) /\ 1 <= 1
  BY <1>2
<1>. QED  BY <1>1, <1>2, <1>3, <1>4, <1>5

(* The new pid: greater than all before; the first is that of init, and     *)
(* idle forks no other.                                                     *)
LEMMA ForkPid ==
  ASSUME ProcInv, do_fork
  PROVE  /\ get_pid \in Pids \ (pids \cup Live \cup {idle})
         /\ current < get_pid /\ current \in pids /\ current # get_pid
         /\ get_pid = init_proc <=> current = idle
         /\ \A b \in Pids : b < get_pid => b \in pids
         /\ current = idle => pids = {idle} /\ Live = {}
<1>0. /\ pids \subseteq Pids /\ pids # Pids /\ Live \subseteq pids
      /\ idle \in pids /\ idle \notin Live
      /\ \A a \in pids, b \in Pids : b < a => b \in pids
      /\ ~hung /\ pc \in DOMAIN ChildStart
  BY DEF ProcInv, ProcTypeOK, ListOK, do_fork, Running
<1>1. get_pid \in Pids \ pids /\ \A q \in Pids \ pids : get_pid <= q
  BY <1>0, PidIs
<1> DEFINE p == get_pid
<1> HIDE DEF p
<1>2. p \in Pids \ pids /\ \A q \in Pids \ pids : p <= q
  BY <1>1 DEF p
<1>3. current \in pids /\ current \in Live \cup {idle} /\ (current = idle => pids = {idle})
  <2>1. pc # "idle"
    BY <1>0 DEF ChildStart
  <2>2. current = idle => pc = "boot"
    BY <1>0, <2>1, PidFacts DEF ProcInv, Places, pc
  <2>. QED  BY <1>0, <2>2, RunnerFacts
<1>4. \A q \in Pids : q \in Nat
  BY PidFacts
<1>5. current \in Nat /\ p \in Nat /\ current # p /\ ~(p < current)
  BY <1>0, <1>2, <1>3, <1>4
<1>6. current < p
  BY <1>5
<1>7. \A b \in Pids : b < p => b \in pids
  <2> SUFFICES ASSUME NEW b \in Pids, b < p, b \notin pids  PROVE FALSE
    OBVIOUS
  <2>1. p <= b /\ b \in Nat
    BY <1>2, <1>4
  <2>. QED  BY <1>5, <2>1
<1>8. p = init_proc <=> current = idle
  <2>1. ASSUME p = init_proc  PROVE current = idle
    BY <1>5, <1>6, <2>1 DEF init_proc, idle
  <2>2. ASSUME current = idle  PROVE p = init_proc
    <3>1. init_proc \in Pids \ pids
      BY <1>3, <2>2, PidFacts
    <3>2. p <= 1 /\ p # 0
      BY <1>0, <1>2, <3>1 DEF init_proc, idle
    <3>. QED  BY <1>5, <3>2 DEF init_proc
  <2>. QED  BY <2>1, <2>2
<1>9. current = idle => Live = {}
  BY <1>0, <1>3
<1>. QED  BY <1>0, <1>2, <1>3, <1>5, <1>6, <1>7, <1>8, <1>9 DEF p

(* What do_fork() does to the processes. *)
LEMMA ForkPcb ==
  ASSUME ProcInv, do_fork
  PROVE  /\ Linkage(pcb, Live)' /\ Live' = Live \cup {get_pid} /\ pids' = pids \cup {get_pid}
         /\ \E k : LET m == IF pcb[current].mm = NULL THEN NULL ELSE get_pid IN
              Forked(pcb, pcb', get_pid, current, k, m)
         /\ proc_list' = <<get_pid>> \o proc_list
<1> DEFINE p == get_pid
           m == IF pcb[current].mm = NULL THEN NULL ELSE p
<1>1. PICK k \in set_kthread_stack(free) :
        /\ pids' = pids \cup {p}
        /\ pcb' = [Linked(pcb, p, current, k) EXCEPT ![p].mm = m]
        /\ proc_list' = <<p>> \o proc_list
  BY DEF do_fork
<1>2. /\ p \in Pids \ (pids \cup Live \cup {idle}) /\ current # p
      /\ p = init_proc <=> current = idle
  BY ForkPid
<1> HIDE DEF p
<1>3. /\ pcb \in PcbTable /\ free \in SUBSET Pages /\ current \in Live \cup {idle}
      /\ Linkage(pcb, Live) /\ current \in Pids /\ NULL \notin Pids
  BY TypeIs, RunnerFacts, PidFacts DEF ProcInv
<1>4. k \in Pages
  BY <1>3, AllocIs DEF set_kthread_stack, KTHREAD_STACK_PAGE
<1>5. m \in Pids \cup {NULL}
  BY <1>2
<1> HIDE DEF m
<1>6. pcb[current].cptr # p
  <2>1. PICK r \in [Pids -> Nat] : Family(pcb, Live, r)
    BY <1>3 DEF Linkage
  <2>2. pcb[current].cptr # NULL => pcb[current].cptr \in Live
    BY <1>3, <2>1 DEF Family
  <2>. QED  BY <1>2, <1>3, <2>2
<1>7. Forked(pcb, pcb', p, current, k, m)
  <2>1. Forked(pcb, [Linked(pcb, p, current, k) EXCEPT ![p].mm = m], p, current, k, m)
    BY <1>2, <1>3, <1>4, <1>5, <1>6, LinkedIs
  <2>. QED  BY <1>1, <2>1
<1>8. Linkage(pcb', Live \cup {p})
  <2>1. p \in Pids \ (Live \cup {idle}) /\ (p = init_proc => current = idle)
    BY <1>2
  <2>. QED  BY <1>3, <1>7, <2>1, ForkKeeps
<1>9. Live' = Live \cup {p}
  <2> DEFINE L == proc_list
             M == <<p>> \o L
  <2>1. L \in Seq(Pids)
    BY DEF ProcInv, ListOK
  <2>2. /\ Len(M) = Len(L) + 1 /\ Len(L) \in Nat /\ M[1] = p
        /\ \A j \in 1..Len(L) : M[j + 1] = L[j]
    BY <1>2, <2>1, PrependIs
  <2>3. proc_list' = M
    BY <1>1
  <2> HIDE DEF M
  <2>4. \A x \in Live : x \in Live'
    <3> SUFFICES ASSUME NEW j \in 1..Len(L)  PROVE L[j] \in Live'
      BY DEF Live
    <3>1. j + 1 \in 1..Len(M) /\ M[j + 1] = L[j]
      BY <2>2
    <3>. QED  BY <2>3, <3>1 DEF Live
  <2>5. p \in Live'
    <3>1. 1 \in 1..Len(M)
      BY <2>2
    <3>. QED  BY <2>2, <2>3, <3>1 DEF Live
  <2>6. ASSUME NEW i \in 1..Len(M)  PROVE M[i] \in Live \cup {p}
    <3>1. CASE i = 1
      BY <2>2, <3>1
    <3>2. CASE i # 1
      <4>1. i - 1 \in 1..Len(L) /\ (i - 1) + 1 = i
        BY <2>2, <3>2
      <4>2. M[i] = L[i - 1]
        BY <2>2, <4>1
      <4>. QED  BY <4>1, <4>2 DEF Live
    <3>. QED  BY <3>1, <3>2
  <2>7. \A x \in Live' : x \in Live \cup {p}
    BY <2>3, <2>6 DEF Live
  <2>. QED  BY <2>4, <2>5, <2>7
<1>10. Linkage(pcb, Live)'
  BY <1>8, <1>9
<1>. QED  BY <1>1, <1>7, <1>9, <1>10 DEF p, m

LEMMA ForkStep == ASSUME ProcInv, do_fork  PROVE ProcInv'
<1> DEFINE p == get_pid
           m == IF pcb[current].mm = NULL THEN NULL ELSE p
<1>1. /\ p \in Pids \ (pids \cup Live \cup {idle})
      /\ current < p /\ current \in pids /\ current # p
      /\ p = init_proc <=> current = idle
      /\ \A b \in Pids : b < p => b \in pids
      /\ current = idle => pids = {idle} /\ Live = {}
  BY ForkPid
<1>2. /\ Linkage(pcb, Live)' /\ Live' = Live \cup {p} /\ pids' = pids \cup {p}
      /\ \E k : Forked(pcb, pcb', p, current, k, m)
      /\ proc_list' = <<p>> \o proc_list
  BY ForkPcb
<1>3. /\ UNCHANGED <<current, hung>> /\ ~hung /\ pc \in DOMAIN ChildStart
      /\ free' \subseteq free
      /\ at' = [at EXCEPT ![current] = Returned(p), ![p] = At(ChildStart[pc])]
  BY DEF do_fork, Running
<1>4. PICK page \in Pages :
        mms' = IF pcb[current].mm = NULL THEN mms
               ELSE [mms EXCEPT ![p] = copy_mm(mms[pcb[current].mm], page)]
  <2>1. PICK k \in set_kthread_stack(free), page \in Pages :
          mms' = IF pcb[current].mm = NULL THEN mms
                 ELSE [mms EXCEPT ![p] = copy_mm(mms[pcb[current].mm], page)]
    <3>1. PICK k \in set_kthread_stack(free) : \E page \in alloc_page(free \ {k, k + 1}, 1) :
          mms' = IF pcb[current].mm = NULL THEN mms
                 ELSE [mms EXCEPT ![p] = copy_mm(mms[pcb[current].mm], page)]
      BY DEF do_fork
    <3>2. PICK page \in alloc_page(free \ {k, k + 1}, 1) :
          mms' = IF pcb[current].mm = NULL THEN mms
                 ELSE [mms EXCEPT ![p] = copy_mm(mms[pcb[current].mm], page)]
      BY <3>1
    <3>3. free \ {k, k + 1} \in SUBSET Pages
      BY DEF ProcInv, ProcTypeOK
    <3>4. page \in Pages
      BY <3>3, AllocIs
    <3>. QED  BY <3>2, <3>4
  <2>. QED  BY <2>1
<1> HIDE DEF p
<1>5. PICK k : Forked(pcb, pcb', p, current, k, m)
  BY <1>2
<1>6. /\ pcb' \in PcbTable
      /\ pcb'[p].state = "TASK_RUNNABLE" /\ pcb'[p].mm = m /\ pcb'[p].parent = current
      /\ \A q \in Pids \ {p} :
           /\ pcb'[q].state = pcb[q].state /\ pcb'[q].mm = pcb[q].mm
           /\ pcb'[q].parent = pcb[q].parent
           /\ q # current => pcb'[q].cptr = pcb[q].cptr
  BY <1>5 DEF Forked
<1> HIDE DEF m
<1>7. /\ current \in Live \cup {idle} /\ Live \subseteq pids /\ pids \subseteq Pids
      /\ free \subseteq Pages /\ hung \in BOOLEAN /\ idle \in pids /\ idle \notin Live
      /\ current \in Pids /\ Pids \subseteq Nat /\ NULL \notin Pids /\ idle # init_proc
      /\ idle \in Pids
  BY RunnerFacts, PidFacts DEF ProcInv, ProcTypeOK, ListOK
<1>8. \A q \in Pids \ {p} : Zombie(q)' <=> Zombie(q)
  BY <1>6 DEF Zombie
<1>9. ProcTypeOK'
  <2>1. /\ Live' \subseteq pids' /\ pids' \subseteq Pids /\ current' \in Live' \cup {idle}
        /\ free' \subseteq Pages /\ hung' \in BOOLEAN
    BY <1>1, <1>2, <1>3, <1>7
  <2>. QED  BY <1>6, <2>1 DEF ProcTypeOK, PcbTable, PcbRecord
<1>10. ListOK'
  <2> DEFINE L == proc_list
             M == <<p>> \o L
  <2>1. /\ L \in Seq(Pids) /\ \A i, j \in 1..Len(L) : L[i] = L[j] => i = j
        /\ L # <<>> => L[Len(L)] = init_proc
    BY DEF ProcInv, ListOK
  <2>2. /\ M \in Seq(Pids) /\ Len(M) = Len(L) + 1 /\ Len(L) \in Nat /\ M[1] = p
        /\ \A j \in 1..Len(L) : M[j + 1] = L[j]
    BY <1>1, <2>1, PrependIs
  <2>3. proc_list' = M
    BY <1>2
  <2> HIDE DEF M
  <2>4. \A i \in 1..Len(M) : i # 1 => i - 1 \in 1..Len(L) /\ M[i] = L[i - 1]
    <3> SUFFICES ASSUME NEW i \in 1..Len(M), i # 1
                 PROVE  i - 1 \in 1..Len(L) /\ M[i] = L[i - 1]
      OBVIOUS
    <3>1. i - 1 \in 1..Len(L) /\ (i - 1) + 1 = i
      BY <2>2
    <3>. QED  BY <2>2, <3>1
  <2>5. \A j \in 1..Len(L) : L[j] \in Live /\ L[j] # p
    BY <1>1 DEF Live
  <2>6. ASSUME NEW i \in 1..Len(M), NEW j \in 1..Len(M), M[i] = M[j]  PROVE i = j
    <3>1. CASE i = 1 \/ j = 1
      BY <2>2, <2>4, <2>5, <2>6, <3>1
    <3>2. CASE i # 1 /\ j # 1
      <4>1. i - 1 = j - 1
        BY <2>1, <2>4, <2>6, <3>2
      <4>2. i \in Int /\ j \in Int
        BY <2>2
      <4>. QED  BY <4>1, <4>2
    <3>. QED  BY <3>1, <3>2
  <2>7. M[Len(M)] = init_proc
    <3>1. CASE Len(L) = 0
      <4>1. Live = {}
        BY <3>1 DEF Live
      <4>2. current = idle
        BY <1>7, <4>1
      <4>. QED  BY <1>1, <2>2, <3>1, <4>2
    <3>2. CASE Len(L) # 0
      <4>1. Len(L) \in 1..Len(L) /\ L # <<>>
        BY <2>2, <3>2
      <4>2. M[Len(L) + 1] = L[Len(L)]
        BY <2>2, <4>1
      <4>. QED  BY <2>1, <2>2, <4>1, <4>2
    <3>. QED  BY <3>1, <3>2
  <2>8. idle \in pids' /\ idle \notin Live'
    BY <1>1, <1>2, <1>7
  <2>9. \A a \in pids', b \in Pids : b < a => b \in pids'
    <3>1. \A a \in pids, b \in Pids : b < a => b \in pids
      BY DEF ProcInv, ListOK
    <3>. QED  BY <1>1, <1>2, <3>1
  <2>. QED  BY <2>2, <2>3, <2>6, <2>7, <2>8, <2>9 DEF ListOK
<1>11. Parents'
  <2>1. \A q \in Live : q # p /\ q \in Pids
    BY <1>1, <1>7
  <2>2. ASSUME NEW q \in Live
        PROVE  /\ pcb'[q].parent \in Live \cup {idle} /\ pcb'[q].parent < q
               /\ pcb'[q].parent = idle <=> q = init_proc
    <3>1. pcb'[q].parent = pcb[q].parent
      BY <1>6, <2>1
    <3>. QED  BY <3>1 DEF ProcInv, Parents
  <2>3. /\ pcb'[p].parent \in Live \cup {idle} /\ pcb'[p].parent < p
        /\ pcb'[p].parent = idle <=> p = init_proc
    BY <1>1, <1>6, <1>7
  <2>. QED  BY <1>2, <2>2, <2>3 DEF Parents
<1>12. States'
  <2>1. \A q \in Live : q # p /\ q \in Pids
    BY <1>1, <1>7
  <2>2. current \in Live => ~Zombie(current) /\ pcb[current].state = "TASK_RUNNABLE"
    BY <1>3, RunnerFacts
  <2>3. \A q \in {p} : ~Zombie(q)'
    BY <1>6 DEF Zombie
  <2>4. \A q \in Live' : pcb'[q].state \in {"TASK_RUNNABLE", "TASK_ZOMBIE"}
    BY <1>2, <1>6, <2>1 DEF ProcInv, States
  <2>5. current' \in Live' => pcb'[current'].state = "TASK_RUNNABLE"
    BY <1>1, <1>2, <1>3, <1>6, <1>7, <2>2
  <2>6. \A q \in Live' \ {init_proc} : Zombie(q)' => pcb'[q].cptr = NULL
    <3> SUFFICES ASSUME NEW q \in Live' \ {init_proc}, Zombie(q)'  PROVE pcb'[q].cptr = NULL
      OBVIOUS
    <3>1. q # p /\ q \in Live /\ q \in Pids \ {p}
      BY <1>2, <2>1, <2>3
    <3>2. Zombie(q) /\ q # current
      BY <1>8, <2>2, <3>1
    <3>. QED  BY <1>6, <3>1, <3>2 DEF ProcInv, States
  <2>7. ~(init_proc \in Live' /\ Zombie(init_proc)')
    <3> SUFFICES ASSUME init_proc \in Live', Zombie(init_proc)'  PROVE FALSE
      OBVIOUS
    <3>1. init_proc # p /\ init_proc \in Live /\ Zombie(init_proc)
      BY <1>2, <1>8, <2>1, <2>3
    <3>2. Live = {init_proc}
      BY <1>3, <3>1 DEF ProcInv, States
    <3>3. current = idle
      BY <1>7, <2>2, <3>1, <3>2
    <3>. QED  BY <1>1, <3>1, <3>3
  <2>. QED  BY <2>4, <2>5, <2>6, <2>7 DEF States
<1>13. Places'
  <2>1. Returned(p) \in AtRecord /\ Returned(p).wait = "no" /\ Returned(p).pc # "boot"
        /\ (pc = "boot" => Returned(p).pc = "idle")
    BY <1>1, <1>3, ReturnedIs
  <2>2. /\ At(ChildStart[pc]) \in AtRecord
        /\ At(ChildStart[pc]).wait = "no" /\ At(ChildStart[pc]).pc # "boot"
    BY <1>3, StartIs
  <2>3. at \in [Pids -> AtRecord]
    BY DEF ProcInv, Places
  <2>4. /\ at' \in [Pids -> AtRecord]
        /\ at'[current] = Returned(p) /\ at'[p] = At(ChildStart[pc])
        /\ \A x \in Pids \ {current, p} : at'[x] = at[x]
    BY <1>1, <1>3, <1>7, <2>1, <2>2, <2>3
  <2>5. current = idle => pc = "boot"
    <3>1. pc # "idle"
      BY <1>3 DEF ChildStart
    <3>. QED  BY <3>1 DEF ProcInv, Places, pc
  <2>6. \A x \in Pids \ {current, p} : at[x].pc # "boot"
    <3> SUFFICES ASSUME NEW x \in Pids \ {current, p}, at[x].pc = "boot"  PROVE FALSE
      OBVIOUS
    <3>1. x = idle /\ pids = {idle}
      BY DEF ProcInv, Places
    <3>. QED  BY <1>1, <3>1
  <2>7. \A q \in Live : q \in Live' /\ q \in Pids \ {p}
    BY <1>1, <1>2, <1>7
  <2>8. OnlyMoves({current, p})
    <3>1. \A x \in {current, p} : /\ at'[x].wait = "no" /\ at'[x].pc # "boot"
                                  /\ (x = idle => at'[x].pc = "idle")
      BY <1>1, <2>1, <2>2, <2>4, <2>5
    <3>2. \A x \in Pids \ {current, p} :
            /\ at'[x] = at[x]
            /\ pids' = pids \/ at[x].pc # "boot"
            /\ x \in Live /\ ~Zombie(x) => x \in Live' /\ ~Zombie(x)'
            /\ \A q \in Live : pcb[q].parent = x => q \in Live' /\ pcb'[q].parent = x
      BY <1>6, <1>8, <2>4, <2>6, <2>7
    <3>. QED  BY <2>4, <3>1, <3>2 DEF OnlyMoves
  <2>. QED  BY <2>8, PlacesKeep
<1>14. Mms'
  <2>1. /\ DOMAIN mms = Pids /\ MmOK(mms[idle])
        /\ \A q \in Pids : pcb[q].mm \in {NULL, q}
        /\ \A q \in Live : ~Zombie(q) /\ pcb[q].mm = q => MmOK(mms[q]) /\ mms[q].pde.page \in Pages
    BY DEF ProcInv, Mms
  <2>2. pcb[current].mm # NULL => pcb[current].mm = current /\ MmOK(mms[current])
    BY <1>3, <1>7, <2>1, RunnerFacts
  <2>3. /\ DOMAIN mms' = Pids /\ \A q \in Pids \ {p} : mms'[q] = mms[q]
        /\ pcb[current].mm # NULL => mms'[p] = copy_mm(mms[current], page)
    BY <1>1, <1>4, <2>1, <2>2
  <2>4. pcb[current].mm # NULL => MmOK(mms'[p]) /\ mms'[p].pde.page \in Pages
    BY <2>2, <2>3, CopyOne
  <2>5. m \in {NULL, p} /\ (m = p => pcb[current].mm # NULL)
    BY <1>1, <1>7 DEF m
  <2>6. MmOK(mms'[idle])
    BY <1>1, <1>7, <2>1, <2>3
  <2>7. \A q \in Pids : pcb'[q].mm \in {NULL, q}
    BY <1>6, <2>1, <2>5
  <2>8. ASSUME NEW q \in Live', ~Zombie(q)', pcb'[q].mm = q
        PROVE  MmOK(mms'[q]) /\ mms'[q].pde.page \in Pages
    <3>1. CASE q = p
      BY <1>6, <2>4, <2>5, <2>8, <3>1
    <3>2. CASE q # p
      <4>1. q \in Live /\ q \in Pids \ {p}
        BY <1>2, <1>7, <3>2
      <4>. QED  BY <1>6, <1>8, <2>1, <2>3, <2>8, <4>1
    <3>. QED  BY <3>1, <3>2
  <2>. QED  BY <2>3, <2>6, <2>7, <2>8 DEF Mms
<1>. QED  BY <1>2, <1>9, <1>10, <1>11, <1>12, <1>13, <1>14 DEF ProcInv

-----------------------------------------------------------------------------
(* A living init without children is the only process. *)
LEMMA Alone ==
  ASSUME ProcInv, init_proc \in Live, pcb[init_proc].cptr = NULL
  PROVE  Live = {init_proc}
<1> DEFINE S == Live \ {init_proc}
<1> SUFFICES ASSUME S # {}  PROVE FALSE
  OBVIOUS
<1>1. /\ Linkage(pcb, Live) /\ Live \subseteq Pids /\ idle \notin Live
      /\ \A q \in Live : /\ pcb[q].parent \in Live \cup {idle} /\ pcb[q].parent < q
                         /\ pcb[q].parent = idle <=> q = init_proc
  BY DEF ProcInv, Parents, ProcTypeOK, ListOK
<1>2. \A q \in Live : pcb[q].parent # init_proc
  <2>1. init_proc \in Live \cup {idle}
    OBVIOUS
  <2>. QED  BY <1>1, <2>1, NoChildren
<1>3. S \in SUBSET Nat
  BY <1>1, PidFacts
<1>4. PICK x \in S : \A y \in S : x <= y
  <2> HIDE DEF S
  <2>. QED  BY <1>3, MinIn
<1>5. pcb[x].parent \in S /\ pcb[x].parent < x
  BY <1>1, <1>2
<1>6. x \in Nat /\ pcb[x].parent \in Nat /\ x <= pcb[x].parent
  BY <1>3, <1>4, <1>5
<1>. QED  BY <1>5, <1>6

LEMMA InitLives ==
  ASSUME ProcInv, Live # {}
  PROVE  init_proc \in Live
<1>1. proc_list \in Seq(Pids) /\ (proc_list # <<>> => proc_list[Len(proc_list)] = init_proc)
  BY DEF ProcInv, ListOK
<1>2. Len(proc_list) \in Nat /\ Len(proc_list) # 0
  BY <1>1 DEF Live
<1>3. Len(proc_list) \in 1..Len(proc_list) /\ proc_list # <<>>
  BY <1>2
<1>. QED  BY <1>1, <1>3 DEF Live

(* What do_exit() does to the processes. *)
Exited(Q) ==
  /\ Q \in PcbTable /\ Linkage(Q, Live)
  /\ \A q \in Pids :
       /\ Q[q].state = IF q = current THEN "TASK_ZOMBIE" ELSE pcb[q].state
       /\ Q[q].mm = pcb[q].mm
       /\ q \notin {current, init_proc} => Q[q].cptr = pcb[q].cptr
       /\ \/ Q[q].parent = pcb[q].parent
          \/ q \in Live /\ pcb[q].parent = current /\ Q[q].parent = init_proc
  /\ IF current = init_proc THEN Q[current].cptr = pcb[current].cptr ELSE Q[current].cptr = NULL

LEMMA ExitPcb ==
  ASSUME ProcInv, do_exit
  PROVE  Exited(pcb') /\ current \in Live
<1> DEFINE P == [pcb EXCEPT ![current].state = "TASK_ZOMBIE"]
<1>1. ~hung /\ pc \in {"exit", "any"}
  BY DEF do_exit, Running
<1>2. current \in Live /\ current \in Pids /\ init_proc \in Live
  BY <1>1, RunnerFacts, InitLives
<1>3. pcb \in PcbTable /\ Linkage(pcb, Live) /\ Live \subseteq Pids
  BY TypeIs DEF ProcInv
<1>4. pcb' = IF current = init_proc THEN P ELSE send_chld_to_init(P, current)
  BY DEF do_exit
<1>5. /\ P \in PcbTable
      /\ \A q \in Pids :
           /\ P[q].parent = pcb[q].parent /\ P[q].cptr = pcb[q].cptr
           /\ P[q].yptr = pcb[q].yptr /\ P[q].optr = pcb[q].optr
           /\ P[q].state = IF q = current THEN "TASK_ZOMBIE" ELSE pcb[q].state
           /\ P[q].mm = pcb[q].mm
  BY <1>2, <1>3 DEF PcbTable, PcbRecord
<1> HIDE DEF P
<1>6. Linkage(P, Live)
  BY <1>3, <1>5, SameLinks
<1>7. CASE current = init_proc
  BY <1>2, <1>4, <1>5, <1>6, <1>7 DEF Exited
<1>8. CASE current # init_proc
  <2> DEFINE Q == send_chld_to_init(P, current)
  <2>1. Sent(P, Q, Live, current)
    BY <1>2, <1>6, <1>8, SendKeeps
  <2> HIDE DEF Q
  <2>2. Q \in PcbTable /\ Linkage(Q, Live)
    BY <2>1 DEF Sent, Linkage
  <2>3. \A q \in Pids :
          /\ Q[q].state = P[q].state /\ Q[q].mm = P[q].mm
          /\ q \notin {current, init_proc} => Q[q].cptr = P[q].cptr
          /\ \/ Q[q].parent = P[q].parent
             \/ q \in Live /\ P[q].parent = current /\ Q[q].parent = init_proc
    BY <2>1 DEF Sent, SameData
  <2>4. Q[current].cptr = NULL
    BY <2>1 DEF Sent
  <2>5. Exited(Q)
    BY <1>5, <1>8, <2>2, <2>3, <2>4 DEF Exited
  <2>. QED  BY <1>2, <1>4, <1>8, <2>5 DEF Q
<1>. QED  BY <1>7, <1>8

LEMMA ExitStep == ASSUME ProcInv, do_exit  PROVE ProcInv'
<1> DEFINE endless == current = init_proc /\ pcb[current].cptr # NULL
<1>1. /\ ~hung /\ hung' = endless /\ UNCHANGED <<proc_list, pids>>
      /\ current' = IF endless THEN current ELSE Target(current, pcb', proc_list)
      /\ at' = [at EXCEPT ![current] = At("none")]
      /\ mms' = delete_mm(mms, free, pcb[current].mm).mms
      /\ free' = delete_mm(mms, free, pcb[current].mm).free
  BY DEF do_exit, Running
<1>2. Exited(pcb') /\ current \in Live
  BY ExitPcb
<1>3. /\ current \in Pids /\ current # idle /\ pcb[current].state = "TASK_RUNNABLE"
      /\ init_proc \in Live /\ idle \notin Live /\ Live \subseteq Pids /\ Live \subseteq pids
      /\ pids \subseteq Pids /\ free \subseteq Pages /\ ListOK
      /\ Pids \subseteq Nat /\ NULL \notin Pids /\ idle \in Pids /\ idle # init_proc
  BY <1>1, <1>2, RunnerFacts, InitLives, PidFacts DEF ProcInv, ProcTypeOK, ListOK
<1>4. Live' = Live
  BY <1>1 DEF Live
<1>5. \A q \in Pids : Zombie(q)' <=> (q = current \/ Zombie(q))
  BY <1>2 DEF Exited, Zombie
<1>6. Linkage(pcb, Live)'
  BY <1>2, <1>4 DEF Exited
<1>7. /\ current' \in Live \cup {idle}
      /\ ~hung' /\ current' \in Live => pcb'[current'].state = "TASK_RUNNABLE"
  <2>1. CASE endless
    BY <1>1, <1>2, <2>1
  <2>2. CASE ~endless
    <3>1. current' = Target(current, pcb', proc_list)
      BY <1>1, <2>2
    <3>. QED  BY <1>3, <3>1, TargetOK
  <2>. QED  BY <2>1, <2>2
<1>8. /\ DOMAIN mms' = Pids /\ \A q \in Pids \ {current} : mms'[q] = mms[q]
      /\ free' \subseteq Pages
  <2>1. /\ DOMAIN mms = Pids /\ pcb[current].mm \in {NULL, current}
        /\ pcb[current].mm = current => mms[current].pde.page \in Pages
    BY <1>1, <1>2, <1>3, RunnerFacts DEF ProcInv, Mms
  <2>2. CASE pcb[current].mm = NULL
    BY <1>1, <1>3, <2>1, <2>2 DEF delete_mm
  <2>3. CASE pcb[current].mm = current
    <3>1. pcb[current].mm # NULL
      BY <1>3, <2>3
    <3>2. CASE mms[current].num = 1
      BY <1>1, <1>3, <2>1, <2>3, <3>1, <3>2 DEF delete_mm
    <3>3. CASE mms[current].num # 1
      BY <1>1, <1>3, <2>1, <2>3, <3>1, <3>3 DEF delete_mm
    <3>. QED  BY <3>2, <3>3
  <2>. QED  BY <2>1, <2>2, <2>3
<1>9. ProcTypeOK'
  <2>1. pcb' \in PcbTable /\ hung' \in BOOLEAN
    BY <1>1, <1>2 DEF Exited
  <2>. QED  BY <1>1, <1>3, <1>4, <1>7, <1>8, <2>1 DEF ProcTypeOK, PcbTable, PcbRecord
<1>10. ListOK'
  BY <1>1, <1>4 DEF ProcInv, ListOK
<1>11. Parents'
  <2> SUFFICES ASSUME NEW q \in Live
               PROVE  /\ pcb'[q].parent \in Live \cup {idle} /\ pcb'[q].parent < q
                      /\ pcb'[q].parent = idle <=> q = init_proc
    BY <1>4 DEF Parents
  <2>1. /\ pcb[q].parent \in Live \cup {idle} /\ pcb[q].parent < q
        /\ pcb[q].parent = idle <=> q = init_proc
    BY DEF ProcInv, Parents
  <2>2. CASE pcb'[q].parent = pcb[q].parent
    BY <2>1, <2>2
  <2>3. CASE pcb'[q].parent # pcb[q].parent
    <3>1. pcb[q].parent = current /\ pcb'[q].parent = init_proc
      BY <1>2, <1>3, <2>3 DEF Exited
    <3>2. q # init_proc /\ q # idle /\ q \in Nat
      BY <1>3, <2>1, <3>1
    <3>3. init_proc < q
      BY <3>2 DEF init_proc, idle
    <3>. QED  BY <1>3, <3>1, <3>2, <3>3
  <2>. QED  BY <2>2, <2>3
<1>12. States'
  <2>1. \A q \in Live : pcb'[q].state \in {"TASK_RUNNABLE", "TASK_ZOMBIE"}
    BY <1>2, <1>3 DEF Exited, ProcInv, States
  <2>2. ASSUME NEW q \in Live \ {init_proc}, Zombie(q)'  PROVE pcb'[q].cptr = NULL
    <3>1. CASE q = current
      BY <1>2, <2>2, <3>1 DEF Exited
    <3>2. CASE q # current
      <4>1. q \in Pids /\ Zombie(q)
        BY <1>3, <1>5, <2>2, <3>2
      <4>2. pcb[q].cptr = NULL
        BY <2>2, <4>1 DEF ProcInv, States
      <4>3. pcb'[q].cptr = pcb[q].cptr
        BY <1>2, <2>2, <3>2, <4>1 DEF Exited
      <4>. QED  BY <4>2, <4>3
    <3>. QED  BY <3>1, <3>2
  <2>3. ASSUME ~hung', Zombie(init_proc)'  PROVE Live = {init_proc}
    <3>1. CASE current = init_proc
      <4>1. pcb[init_proc].cptr = NULL
        BY <1>1, <2>3, <3>1
      <4>. QED  BY <1>3, <4>1, Alone
    <3>2. CASE current # init_proc
      <4>1. Zombie(init_proc)
        BY <1>3, <1>5, <2>3, <3>2
      <4>. QED  BY <1>1, <1>3, <4>1 DEF ProcInv, States
    <3>. QED  BY <3>1, <3>2
  <2>. QED  BY <1>4, <1>7, <2>1, <2>2, <2>3 DEF States
<1>13. Places'
  <2>1. At("none") \in AtRecord /\ At("none").wait = "no" /\ At("none").pc = "none"
    BY DEF At, AtRecord, Steps
  <2>2. at \in [Pids -> AtRecord]
    BY DEF ProcInv, Places
  <2>3. /\ at' \in [Pids -> AtRecord] /\ at'[current] = At("none")
        /\ \A x \in Pids \ {current} : at'[x] = at[x]
    BY <1>1, <1>3, <2>1, <2>2
  <2>4. ASSUME NEW x \in Pids \ {current}, NEW q \in Live, pcb[q].parent = x
        PROVE  pcb'[q].parent = x
    BY <1>2, <1>3, <2>4 DEF Exited
  <2>5. OnlyMoves({current})
    <3>1. \A x \in {current} : /\ at'[x].wait = "no" /\ at'[x].pc # "boot"
                               /\ (x = idle => at'[x].pc = "idle")
      BY <1>3, <2>1, <2>3
    <3>2. \A x \in Pids \ {current} :
            /\ at'[x] = at[x]
            /\ pids' = pids \/ at[x].pc # "boot"
            /\ x \in Live /\ ~Zombie(x) => x \in Live' /\ ~Zombie(x)'
            /\ \A q \in Live : pcb[q].parent = x => q \in Live' /\ pcb'[q].parent = x
      BY <1>1, <1>4, <1>5, <2>3, <2>4
    <3>. QED  BY <2>3, <3>1, <3>2 DEF OnlyMoves
  <2>. QED  BY <2>5, PlacesKeep
<1>14. Mms'
  <2>1. /\ MmOK(mms[idle])
        /\ \A q \in Pids : pcb[q].mm \in {NULL, q}
        /\ \A q \in Live : ~Zombie(q) /\ pcb[q].mm = q => MmOK(mms[q]) /\ mms[q].pde.page \in Pages
    BY DEF ProcInv, Mms
  <2>2. \A q \in Pids : pcb'[q].mm = pcb[q].mm
    BY <1>2 DEF Exited
  <2>3. ASSUME NEW q \in Live, ~Zombie(q)', pcb'[q].mm = q
        PROVE  MmOK(mms'[q]) /\ mms'[q].pde.page \in Pages
    BY <1>3, <1>5, <1>8, <2>1, <2>2, <2>3
  <2>. QED  BY <1>3, <1>4, <1>8, <2>1, <2>2, <2>3 DEF Mms
<1>. QED  BY <1>6, <1>9, <1>10, <1>11, <1>12, <1>13, <1>14 DEF ProcInv

-----------------------------------------------------------------------------
(* The three outcomes of a turn in do_waitpid(): a child that has exited is *)
(* collected, the call returns with nothing done, or it waits on.           *)
Collects(c) ==
  Zombie(c) /\ pcb[c].parent = current /\ recycle_child(c) /\ Returns /\ UNCHANGED current
Leaves == Returns /\ UNCHANGED <<pcb, proc_list, free, current>>
WaitsOn ==
  \/ WaitsFor("any", init_proc)
  \/ \E c \in Live : pcb[c].parent = current /\ WaitsFor("pid", c)
WaitTurn == (\E c \in Live : Collects(c)) \/ Leaves \/ WaitsOn

LEMMA WaitAnyIs ==
  ASSUME ProcInv, current \in Live, NEW has_child, WaitAny(has_child)
  PROVE  WaitTurn
<1> DEFINE I == {j \in 1..Len(proc_list) : Mine(proc_list[j]) /\ Zombie(proc_list[j])}
           z == IF I # {} THEN Min(I) ELSE 0
           has == has_child \/ \E i \in 1..Len(proc_list) : Mine(proc_list[i])
<1>1. \/ z # 0 /\ recycle_child(proc_list[z]) /\ Returns /\ UNCHANGED current
      \/ z = 0 /\ ~has /\ Returns /\ UNCHANGED <<pcb, proc_list, free, current>>
      \/ z = 0 /\ has /\ WaitsFor("any", proc_list[Len(proc_list)])
  BY DEF WaitAny, SelectInSeq
<1>2. /\ proc_list \in Seq(Pids) /\ Len(proc_list) \in Nat
      /\ proc_list # <<>> => proc_list[Len(proc_list)] = init_proc
  BY DEF ProcInv, ListOK
<1>3. proc_list # <<>>
  BY <1>2 DEF Live
<1>4. I \in SUBSET Nat
  BY <1>2
<1>5. z # 0 => z \in I
  <2> HIDE DEF I
  <2>. QED  BY <1>4, MinIn
<1> HIDE DEF z
<1>6. z # 0 => /\ proc_list[z] \in Live /\ Zombie(proc_list[z])
               /\ pcb[proc_list[z]].parent = current
  BY <1>5 DEF Live, Mine
<1>7. CASE z # 0 /\ recycle_child(proc_list[z]) /\ Returns /\ UNCHANGED current
  <2>1. Collects(proc_list[z])
    BY <1>6, <1>7 DEF Collects
  <2>. QED  BY <1>6, <1>7, <2>1 DEF WaitTurn
<1>8. CASE Returns /\ UNCHANGED <<pcb, proc_list, free, current>>
  BY <1>8 DEF WaitTurn, Leaves
<1>9. CASE WaitsFor("any", proc_list[Len(proc_list)])
  BY <1>2, <1>3, <1>9 DEF WaitTurn, WaitsOn
<1>. QED  BY <1>1, <1>7, <1>8, <1>9

LEMMA WaitPidIs ==
  ASSUME NEW c \in Live, pcb[c].parent = current, WaitPid(c)
  PROVE  WaitTurn
  BY DEF WaitPid, WaitTurn, Collects, WaitsOn

(* Every turn is one of these.  With pid 0 the loop asks whether init is a  *)
(* zombie, which it is not while another process runs.                      *)
LEMMA WaitSplit ==
  ASSUME ProcInv, (\E pid \in Pids \cup {NULL} : do_waitpid(pid)) \/ Resume
  PROVE  /\ ~hung /\ current \in Live /\ pc \in WaitSteps
         /\ UNCHANGED <<pids, mms, hung>> /\ WaitTurn
<1>1. CASE \E pid \in Pids \cup {NULL} : do_waitpid(pid)
  <2>1. PICK pid \in Pids \cup {NULL} : do_waitpid(pid)
    BY <1>1
  <2>2. ~hung /\ pid \in Asked /\ UNCHANGED <<pids, mms, hung>>
    BY <2>1 DEF do_waitpid, Running
  <2>3. pc \in WaitSteps
    BY <2>2 DEF Asked, WaitSteps
  <2>4. current \in Live
    BY <2>3, RunnerFacts DEF WaitSteps
  <2>5. \/ WaitAny(FALSE)
        \/ Contains(proc_list, pid) /\ Mine(pid) /\ WaitPid(pid)
        \/ Leaves
    BY <2>1 DEF do_waitpid, Leaves
  <2>6. CASE Contains(proc_list, pid) /\ Mine(pid) /\ WaitPid(pid)
    <3>1. pid \in Live /\ pcb[pid].parent = current
      BY <2>6 DEF Contains, Live, Mine
    <3>. QED  BY <2>2, <2>3, <2>4, <2>6, <3>1, WaitPidIs
  <2>7. CASE WaitAny(FALSE)
    BY <2>2, <2>3, <2>4, <2>7, WaitAnyIs
  <2>8. CASE Leaves
    BY <2>2, <2>3, <2>4, <2>8 DEF WaitTurn
  <2>. QED  BY <2>5, <2>6, <2>7, <2>8
<1>2. CASE Resume
  <2>1. /\ ~hung /\ UNCHANGED <<pids, mms, hung>> /\ at[current].wait \in {"pid", "any"}
    BY <1>2 DEF Resume
  <2>2. /\ current \in Live /\ pc \in WaitSteps /\ ~Zombie(current)
        /\ at[current].wait = "pid" => at[current].chd \in Live /\ pcb[at[current].chd].parent = current
        /\ at[current].wait = "any" => at[current].chd = init_proc
    BY <2>1, RunnerFacts DEF ProcInv, Places
  <2>3. CASE at[current].wait = "pid"
    <3>1. WaitPid(at[current].chd)
      BY <1>2, <2>3 DEF Resume
    <3>. QED  BY <2>1, <2>2, <2>3, <3>1, WaitPidIs
  <2>4. CASE at[current].wait = "any"
    <3>1. ~Zombie(init_proc)
      <4>1. init_proc \in Live
        BY <2>2, InitLives
      <4>2. Zombie(init_proc) => Live = {init_proc}
        BY <2>1, <4>1 DEF ProcInv, States
      <4>. QED  BY <2>2, <4>2
    <3>2. WaitAny(TRUE)
      BY <1>2, <2>2, <2>4, <3>1 DEF Resume
    <3>. QED  BY <2>1, <2>2, <3>2, WaitAnyIs
  <2>. QED  BY <2>1, <2>3, <2>4
<1>. QED  BY <1>1, <1>2

LEMMA LeaveStep ==
  ASSUME ProcInv, pc \in WaitSteps, UNCHANGED <<pids, mms, hung>>, Leaves
  PROVE  ProcInv'
<1>1. /\ UNCHANGED <<pcb, proc_list, pids, current, mms, hung>> /\ free' \subseteq Pages
      /\ at' = [at EXCEPT ![current] = Returned(NULL)]
  BY TypeIs DEF Leaves, Returns, ProcInv
<1>2. pc # "boot"
  BY DEF WaitSteps
<1>. QED  BY <1>1, <1>2, Fails

(* Waiting on: schedule() gives the CPU away. *)
LEMMA WaitsOnStep ==
  ASSUME ProcInv, ~hung, current \in Live, pc \in WaitSteps,
         UNCHANGED <<pids, mms, hung>>, WaitsOn
  PROVE  ProcInv'
<1>1. PICK kind \in {"pid", "any"}, c \in Pids :
        /\ WaitsFor(kind, c)
        /\ kind = "pid" => c \in Live /\ pcb[c].parent = current
        /\ kind = "any" => c = init_proc
  <2>1. Live \subseteq Pids /\ init_proc \in Pids
    BY PidFacts DEF ProcInv, ProcTypeOK
  <2>. QED  BY <2>1 DEF WaitsOn
<1>2. /\ UNCHANGED <<pcb, proc_list, pids, mms, free, hung>>
      /\ at' = [at EXCEPT ![current].wait = kind, ![current].chd = c]
      /\ current' = Target(current, pcb, proc_list)
  BY <1>1 DEF WaitsFor
<1>3. /\ Live' = Live /\ Linkage(pcb, Live)' /\ ListOK' /\ Parents'
      /\ \A q : Zombie(q)' <=> Zombie(q)
  BY <1>2, Quiet
<1>4. /\ current' \in Live \cup {idle}
      /\ current' \in Live => pcb[current'].state = "TASK_RUNNABLE"
  <2>1. ListOK
    BY DEF ProcInv
  <2>. QED  BY <1>2, <2>1, TargetOK
<1>5. ProcTypeOK'
  BY <1>2, <1>3, <1>4, TypeIs DEF ProcInv, ProcTypeOK
<1>6. States'
  BY <1>2, <1>3, <1>4 DEF ProcInv, States
<1>7. Places'
  <2>1. current \in Pids /\ pc = at[current].pc /\ ~Zombie(current)
    BY RunnerFacts
  <2>2. at \in [Pids -> AtRecord] /\ at[current] \in AtRecord
    BY <2>1 DEF ProcInv, Places
  <2>3. /\ at'[current].wait = kind /\ at'[current].chd = c
        /\ at'[current].pc = pc /\ at'[current].arg = at[current].arg
        /\ at'[current] \in AtRecord
    BY <1>2, <2>1, <2>2 DEF AtRecord
  <2>4. at' \in [Pids -> AtRecord] /\ \A p \in Pids \ {current} : at'[p] = at[p]
    BY <1>2, <2>1, <2>2, <2>3
  <2>5. /\ idle \notin Live /\ pc # "boot"
        /\ at[idle].pc \in {"boot", "idle"}
        /\ \A p \in Pids :
             /\ at[p].pc = "boot" => p = idle /\ pids = {idle}
             /\ at[p].wait # "no" => p \in Live /\ ~Zombie(p) /\ at[p].pc \in WaitSteps
             /\ at[p].wait = "pid" => at[p].chd \in Live /\ pcb[at[p].chd].parent = p
             /\ at[p].wait = "any" => at[p].chd = init_proc
    BY DEF ProcInv, ListOK, Places, WaitSteps
  <2>6. at'[idle].pc \in {"boot", "idle"}
    BY <2>4, <2>5, PidFacts
  <2>7. ASSUME NEW p \in Pids
        PROVE  /\ at'[p].pc = "boot" => p = idle /\ pids' = {idle}
               /\ at'[p].wait # "no" => p \in Live' /\ ~Zombie(p)' /\ at'[p].pc \in WaitSteps
               /\ at'[p].wait = "pid" => at'[p].chd \in Live' /\ pcb'[at'[p].chd].parent = p
               /\ at'[p].wait = "any" => at'[p].chd = init_proc
    <3>1. CASE p = current
      BY <1>1, <1>2, <1>3, <2>1, <2>3, <2>5, <3>1
    <3>2. CASE p # current
      BY <1>2, <1>3, <2>4, <2>5, <3>2
    <3>. QED  BY <3>1, <3>2
  <2>. QED  BY <2>4, <2>6, <2>7 DEF Places
<1>8. Mms'
  BY <1>2, <1>3 DEF ProcInv, Mms
<1>. QED  BY <1>3, <1>5, <1>6, <1>7, <1>8 DEF ProcInv

(* The list loses c, which is not its last. *)
LEMMA ReapList ==
  ASSUME ProcInv, NEW c \in Live, c # init_proc, UNCHANGED pids,
         proc_list' = Without(proc_list, c)
  PROVE  ListOK' /\ Live' = Live \ {c}
<1>1. /\ proc_list \in Seq(Pids) /\ Len(proc_list) \in Nat
      /\ \A i, j \in 1..Len(proc_list) : proc_list[i] = proc_list[j] => i = j
      /\ proc_list # <<>> => proc_list[Len(proc_list)] = init_proc
      /\ idle \in pids /\ idle \notin Live
      /\ \A a \in pids, b \in Pids : b < a => b \in pids
  BY DEF ProcInv, ListOK
<1>2. PICK n \in 1..Len(proc_list) : proc_list[n] = c
  BY DEF Live
<1> DEFINE N == Len(proc_list) - 1
           M == proc_list'
<1>3. /\ M \in Seq(Pids) /\ Len(M) = N
      /\ \A j \in 1..N : M[j] = IF j < n THEN proc_list[j] ELSE proc_list[j + 1]
  <2> DEFINE R == Without(proc_list, c)
  <2>1. /\ R \in Seq(Pids) /\ Len(R) = Len(proc_list) - 1
        /\ \A j \in 1..(Len(proc_list) - 1) : R[j] = IF j < n THEN proc_list[j] ELSE proc_list[j + 1]
    BY <1>1, <1>2, RemoveIs
  <2>2. M = R
    OBVIOUS
  <2> HIDE DEF R, M
  <2>. QED  BY <2>1, <2>2
<1>4. n \in Nat /\ 1 <= n /\ n <= Len(proc_list) /\ N \in Nat
  BY <1>1
<1>5. n # Len(proc_list)
  <2>1. proc_list # <<>>
    BY <1>1, <1>4
  <2>. QED  BY <1>1, <1>2, <2>1
<1> HIDE DEF M
<1>6. \A i, j \in 1..N : M[i] = M[j] => i = j
  <2> SUFFICES ASSUME NEW i \in 1..N, NEW j \in 1..N, M[i] = M[j]  PROVE i = j
    OBVIOUS
  <2> DEFINE a == IF i < n THEN i ELSE i + 1
             b == IF j < n THEN j ELSE j + 1
  <2>1. a \in 1..Len(proc_list) /\ b \in 1..Len(proc_list)
    BY <1>1, <1>4
  <2>2. proc_list[a] = M[i] /\ proc_list[b] = M[j]
    BY <1>3
  <2>3. a = b
    BY <1>1, <2>1, <2>2
  <2>. QED  BY <1>4, <2>3
<1>7. {M[j] : j \in 1..N} = Live \ {c}
  <2>1. ASSUME NEW j \in 1..N  PROVE M[j] \in Live \ {c}
    <3> DEFINE a == IF j < n THEN j ELSE j + 1
    <3>1. a \in 1..Len(proc_list) /\ a # n
      BY <1>1, <1>4
    <3>2. M[j] = proc_list[a]
      BY <1>3
    <3> HIDE DEF a
    <3>3. M[j] # c
      BY <1>1, <1>2, <3>1, <3>2
    <3>. QED  BY <3>1, <3>2, <3>3 DEF Live
  <2>2. ASSUME NEW q \in Live \ {c}  PROVE \E j \in 1..N : M[j] = q
    <3>1. PICK i \in 1..Len(proc_list) : proc_list[i] = q
      BY DEF Live
    <3>2. i # n /\ i \in Nat
      BY <1>1, <1>2, <3>1
    <3>3. CASE i < n
      <4>1. i \in 1..N
        BY <1>4, <3>2, <3>3
      <4>. QED  BY <1>3, <3>1, <3>3, <4>1
    <3>4. CASE i > n
      <4>1. i - 1 \in 1..N /\ ~(i - 1 < n) /\ (i - 1) + 1 = i
        BY <1>4, <3>1, <3>2, <3>4
      <4>2. M[i - 1] = proc_list[i]
        BY <1>3, <4>1
      <4>. QED  BY <3>1, <4>1, <4>2
    <3>. QED  BY <1>4, <3>2, <3>3, <3>4
  <2>. QED  BY <2>1, <2>2
<1>8. Live' = Live \ {c}
  BY <1>3, <1>7 DEF Live, M
<1>9. M # <<>> => M[N] = init_proc
  <2>1. ~(N < n) /\ N + 1 = Len(proc_list) /\ N \in 1..N
    BY <1>1, <1>4, <1>5
  <2>2. M[N] = proc_list[Len(proc_list)]
    BY <1>3, <2>1
  <2>3. proc_list # <<>>
    BY <1>1, <1>4
  <2>. QED  BY <1>1, <2>2, <2>3
<1>10. /\ M \in Seq(Pids)
       /\ \A i, j \in 1..Len(M) : M[i] = M[j] => i = j
       /\ M # <<>> => M[Len(M)] = init_proc
  BY <1>3, <1>6, <1>9
<1>11. ListOK'
  BY <1>1, <1>8, <1>10 DEF ListOK, M
<1>. QED  BY <1>8, <1>11

LEMMA CollectStep ==
  ASSUME ProcInv, ~hung, current \in Live, pc \in WaitSteps,
         UNCHANGED <<pids, mms, hung>>, NEW c \in Live, Collects(c)
  PROVE  ProcInv'
<1>1. /\ Zombie(c) /\ pcb[c].parent = current /\ current' = current
      /\ pcb' = [Unlinked(pcb, c) EXCEPT ![c] = create_pcb]
      /\ free' = free \cup ({pcb[c].stack - 1, pcb[c].stack} \cap Pages)
      /\ proc_list' = Without(proc_list, c)
      /\ at' = [at EXCEPT ![current] = Returned(NULL)]
  BY DEF Collects, recycle_child, Returns, Without
<1>2. /\ idle \notin Live /\ Live \subseteq Pids /\ Live \subseteq pids /\ pids \subseteq Pids
      /\ free \subseteq Pages /\ Linkage(pcb, Live) /\ c \in Pids
      /\ NULL \notin Pids /\ hung \in BOOLEAN
  BY PidFacts DEF ProcInv, ListOK, ProcTypeOK
<1>3. c # init_proc
  BY <1>1, <1>2 DEF ProcInv, Parents
<1>4. pcb[c].cptr = NULL
  BY <1>1, <1>3 DEF ProcInv, States
<1>5. Reaped(pcb, pcb', c) /\ Linkage(pcb', Live \ {c}) /\ \A q \in Live : pcb[q].parent # c
  BY <1>1, <1>2, <1>4, ReapKeeps
<1>6. ListOK' /\ Live' = Live \ {c}
  BY <1>1, <1>3, ReapList
<1>7. /\ ~Zombie(current) /\ current # c /\ current \in Pids /\ current # idle
      /\ pcb[current].state = "TASK_RUNNABLE"
  BY <1>1, <1>2, RunnerFacts
<1>8. \A q \in Pids \ {c} : (Zombie(q)' <=> Zombie(q)) /\ pcb'[q].state = pcb[q].state
                            /\ pcb'[q].parent = pcb[q].parent /\ pcb'[q].mm = pcb[q].mm
  BY <1>5 DEF Reaped, Zombie
<1>9. ProcTypeOK'
  <2>1. pcb' \in PcbTable /\ free' \subseteq Pages
    BY <1>1, <1>2, <1>5 DEF Reaped
  <2>2. Live' \subseteq pids' /\ current' \in Live' \cup {idle}
    BY <1>1, <1>2, <1>6, <1>7
  <2>. QED  BY <1>2, <2>1, <2>2 DEF ProcTypeOK, PcbTable, PcbRecord
<1>10. Linkage(pcb, Live)'
  BY <1>5, <1>6
<1>11. Parents'
  <2> SUFFICES ASSUME NEW q \in Live \ {c}
               PROVE  /\ pcb'[q].parent \in (Live \ {c}) \cup {idle} /\ pcb'[q].parent < q
                      /\ pcb'[q].parent = idle <=> q = init_proc
    BY <1>6 DEF Parents
  <2>1. pcb'[q].parent = pcb[q].parent /\ pcb[q].parent # c
    BY <1>2, <1>5, <1>8
  <2>. QED  BY <2>1 DEF ProcInv, Parents
<1>12. States'
  <2>1. \A q \in Live \ {c} : pcb'[q].state \in {"TASK_RUNNABLE", "TASK_ZOMBIE"}
    BY <1>2, <1>8 DEF ProcInv, States
  <2>2. pcb'[current].state = "TASK_RUNNABLE"
    BY <1>7, <1>8
  <2>3. ASSUME NEW q \in (Live \ {c}) \ {init_proc}, Zombie(q)'  PROVE pcb'[q].cptr = NULL
    <3>1. q \in Pids \ {c} /\ Zombie(q)
      BY <1>2, <1>8, <2>3
    <3>2. pcb[q].cptr = NULL
      BY <2>3, <3>1 DEF ProcInv, States
    <3>3. q # current
      BY <1>7, <3>1
    <3>4. pcb'[q].cptr = pcb[q].cptr
      BY <1>1, <1>5, <3>1, <3>3 DEF Reaped
    <3>. QED  BY <3>2, <3>4
  <2>4. ASSUME Zombie(init_proc)'  PROVE FALSE
    <3>1. init_proc \in Live /\ init_proc \in Pids \ {c}
      BY <1>2, <1>3, InitLives
    <3>2. Zombie(init_proc)
      BY <1>8, <2>4, <3>1
    <3>3. Live = {init_proc}
      BY <3>1, <3>2 DEF ProcInv, States
    <3>. QED  BY <1>3, <3>3
  <2>. QED  BY <1>1, <1>6, <2>1, <2>2, <2>3, <2>4 DEF States
<1>13. Places'
  <2>1. /\ Returned(NULL) \in AtRecord
        /\ Returned(NULL).wait = "no" /\ Returned(NULL).pc # "boot"
    BY ReturnedIs
  <2>2. at \in [Pids -> AtRecord]
    BY DEF ProcInv, Places
  <2>3. /\ at' \in [Pids -> AtRecord] /\ at'[current] = Returned(NULL)
        /\ \A x \in Pids \ {current} : at'[x] = at[x]
    BY <1>1, <1>7, <2>1, <2>2
  <2>4. OnlyMoves({current})
    <3>1. \A x \in {current} : /\ at'[x].wait = "no" /\ at'[x].pc # "boot"
                               /\ (x = idle => at'[x].pc = "idle")
      BY <1>7, <2>1, <2>3
    <3>2. ASSUME NEW x \in Pids \ {current}
          PROVE  /\ at'[x] = at[x]
                 /\ pids' = pids \/ at[x].pc # "boot"
                 /\ x \in Live /\ ~Zombie(x) => x \in Live' /\ ~Zombie(x)'
                 /\ \A q \in Live : pcb[q].parent = x => q \in Live' /\ pcb'[q].parent = x
      <4>1. x \in Live /\ ~Zombie(x) => x \in Live' /\ ~Zombie(x)'
        BY <1>1, <1>6, <1>8
      <4>2. ASSUME NEW q \in Live, pcb[q].parent = x
            PROVE  q \in Live' /\ pcb'[q].parent = x
        BY <1>1, <1>2, <1>6, <1>8, <4>2
      <4>. QED  BY <2>3, <4>1, <4>2
    <3>. QED  BY <2>3, <3>1, <3>2 DEF OnlyMoves
  <2>. QED  BY <2>4, PlacesKeep
<1>14. Mms'
  <2>1. /\ DOMAIN mms = Pids /\ MmOK(mms[idle])
        /\ \A q \in Pids : pcb[q].mm \in {NULL, q}
        /\ \A q \in Live : ~Zombie(q) /\ pcb[q].mm = q => MmOK(mms[q]) /\ mms[q].pde.page \in Pages
    BY DEF ProcInv, Mms
  <2>2. pcb'[c].mm = NULL
    BY <1>5 DEF Reaped, create_pcb
  <2>3. \A q \in Pids : pcb'[q].mm \in {NULL, q}
    BY <1>8, <2>1, <2>2
  <2>4. ASSUME NEW q \in Live \ {c}, ~Zombie(q)', pcb'[q].mm = q
        PROVE  MmOK(mms[q]) /\ mms[q].pde.page \in Pages
    BY <1>2, <1>8, <2>1, <2>4
  <2>. QED  BY <1>6, <2>1, <2>3, <2>4 DEF Mms
<1>. QED  BY <1>6, <1>9, <1>10, <1>11, <1>12, <1>13, <1>14 DEF ProcInv

LEMMA WaitStep ==
  ASSUME ProcInv, (\E pid \in Pids \cup {NULL} : do_waitpid(pid)) \/ Resume
  PROVE  ProcInv'
<1>1. /\ ~hung /\ current \in Live /\ pc \in WaitSteps
      /\ UNCHANGED <<pids, mms, hung>> /\ WaitTurn
  BY WaitSplit
<1>. QED  BY <1>1, CollectStep, LeaveStep, WaitsOnStep DEF WaitTurn

-----------------------------------------------------------------------------
LEMMA InvStep == ProcInv /\ [ProcNext]_procVars => ProcInv'
<1> SUFFICES ASSUME ProcInv, [ProcNext]_procVars  PROVE ProcInv'
  OBVIOUS
<1>1. CASE Timer
  BY <1>1, TimerStep
<1>2. CASE do_fork
  BY <1>2, ForkStep
<1>3. CASE ForkFails
  BY <1>3, ForkFailsStep
<1>4. CASE ForkNoPid
  BY <1>4, ForkNoPidStep
<1>5. CASE sys_execve
  BY <1>5, ExecStep
<1>6. CASE do_exit
  BY <1>6, ExitStep
<1>7. CASE (\E pid \in Pids \cup {NULL} : do_waitpid(pid)) \/ Resume
  BY <1>7, WaitStep
<1>8. CASE UNCHANGED procVars
  <2>1. UNCHANGED <<pcb, proc_list, pids, current, mms, free, at, hung>>
    BY <1>8 DEF procVars
  <2>2. /\ Live' = Live /\ Linkage(pcb, Live)' /\ ListOK' /\ Parents'
        /\ \A q : Zombie(q)' <=> Zombie(q)
    BY <2>1, Quiet
  <2>3. ProcTypeOK'
    BY <2>1, <2>2 DEF ProcInv, ProcTypeOK
  <2>4. States'
    BY <2>1, <2>2 DEF ProcInv, States
  <2>5. Places'
    BY <2>1, <2>2 DEF ProcInv, Places
  <2>6. Mms'
    BY <2>1, <2>2 DEF ProcInv, Mms
  <2>. QED  BY <2>2, <2>3, <2>4, <2>5, <2>6 DEF ProcInv
<1>. QED
  BY <1>1, <1>2, <1>3, <1>4, <1>5, <1>6, <1>7, <1>8
  DEF ProcNext, Call, sys_fork, sys_exit, sys_wait

(* The inductive invariant holds: whatever the programs do, and wherever    *)
(* the timer strikes, fork, execve, exit and wait of proc.c keep the list   *)
(* of processes, the links between relatives, the states and the mms in     *)
(* step with one another.                                                   *)
THEOREM ProcInvariant == ProcSpec => []ProcInv
<1>1. proc_init => ProcInv
  BY InvInit
<1>2. ProcInv /\ [ProcNext]_procVars => ProcInv'
  BY InvStep
<1>. QED  BY <1>1, <1>2, PTL DEF ProcSpec

(* The process table, the list, the free pages and current keep their       *)
(* types; current is a process of the list, or idle.                        *)
THEOREM ProcTypeCorrect == ProcSpec => []ProcTypeOK
<1>1. ProcInv => ProcTypeOK
  BY DEF ProcInv
<1>. QED  BY <1>1, ProcInvariant, PTL

LEMMA TreeOf == ProcInv => FamilyTree
<1> SUFFICES ASSUME ProcInv, NEW p \in Live \cup {idle}
             PROVE  LET c == Brothers(pcb, pcb[p].cptr)
                        children == {q \in Live : pcb[q].parent = p}
                    IN  /\ Len(c) = Cardinality(children)
                        /\ {c[i] : i \in 1..Len(c)} = children
                        /\ \A i \in 1..Len(c) : pcb[c[i]].yptr = IF i = 1 THEN NULL ELSE c[i - 1]
  BY DEF FamilyTree
<1>1. pcb \in PcbTable /\ Live \in SUBSET Pids
  BY DEF ProcInv, Linkage
<1>2. PICK r \in [Pids -> Nat] : Family(pcb, Live, r)
  BY DEF ProcInv, Linkage
<1>3. IsFamily(pcb, Live, p, Brothers(pcb, pcb[p].cptr))
  BY <1>1, <1>2, BrothersFamily
<1>. QED  BY <1>3 DEF IsFamily, Children

(* From ->cptr along ->optr a process meets its children, each of them once *)
(* and no others, and ->yptr leads back, whichever children do_exit() hands *)
(* to init and whichever recycle_child() takes out.                         *)
THEOREM ProcFamilyTree == ProcSpec => []FamilyTree
  BY ProcInvariant, TreeOf, PTL

LEMMA FoundIn == ProcInv => AreasFound
<1> SUFFICES ASSUME ProcInv, NEW p \in Live, ~Zombie(p), pcb[p].mm # NULL
             PROVE  LET A == mms[pcb[p].mm]
                    IN  /\ WalkEnds(A)
                        /\ \A addr \in SwapArea..(SwapAreaEnd - 1) :
                             LET found == find_vma(A, pcb[p].mm, addr)
                             IN  found.start = SwapArea /\ SwapArea \in ToSet(Areas(mms[found.of]))
  BY DEF AreasFound
<1>1. p \in Pids
  BY DEF ProcInv, ProcTypeOK
<1>2. pcb[p].mm = p /\ MmOK(mms[p])
  BY <1>1 DEF ProcInv, Mms
<1>3. WalkEnds(mms[p])
  BY <1>2, AreasOne DEF MmOK
<1>4. MmOK(mms[idle])
  BY DEF ProcInv, Mms
<1>5. \A q \in {p, idle} : SwapArea \in ToSet(Areas(mms[q]))
  <2>1. \A q \in {p, idle} : Areas(mms[q]) = <<1>>
    BY <1>2, <1>4, AreasOne DEF MmOK
  <2>2. 1 \in ToSet(<<1>>)
    BY DEF ToSet
  <2>. QED  BY <2>1, <2>2, NodeFacts
<1>6. ASSUME NEW addr \in SwapArea..(SwapAreaEnd - 1)
      PROVE  LET found == find_vma(mms[p], p, addr)
             IN  found.start = SwapArea /\ found.of \in {p, idle}
  <2>1. find_vma(mms[p], p, addr) \in {KernelArea, Area(p, SwapArea, SwapAreaEnd)}
    BY <1>2, FindOne
  <2>. QED  BY <2>1 DEF KernelArea, Area
<1>. QED  BY <1>2, <1>3, <1>5, <1>6

(* Every walk through the list of areas of a process ends, and find_vma()   *)
(* finds the area of test_swap() for each address in it: the order in which *)
(* the kernel, copy_mm() and execve call create_vma() never ties the list   *)
(* into a loop or loses that area, and the ->cache that copies inherit only *)
(* points into the global mm, which is never freed.                         *)
THEOREM ProcAreasFound == ProcSpec => []AreasFound
  BY ProcInvariant, FoundIn, PTL

LEMMA ReapsOwn ==
  ASSUME ProcInv, [ProcNext]_procVars, NEW c \in Live, c \notin Live'
  PROVE  pcb[c].parent = current /\ pcb[c].state = "TASK_ZOMBIE"
<1>1. CASE proc_list' = proc_list
  BY <1>1 DEF Live
<1>2. CASE do_fork
  <2>1. PICK p : p \in Pids /\ proc_list' = <<p>> \o proc_list
    BY <1>2, ForkPid DEF do_fork
  <2>2. proc_list \in Seq(Pids)
    BY DEF ProcInv, ListOK
  <2>3. Live' = Live \cup {p}
    BY <2>1, <2>2, PrependIs DEF Live
  <2>. QED  BY <2>3
<1>3. CASE (\E pid \in Pids \cup {NULL} : do_waitpid(pid)) \/ Resume
  <2>1. WaitTurn
    BY <1>3, WaitSplit
  <2>2. CASE \E q \in Live : Collects(q)
    <3>1. PICK q \in Live : Collects(q)
      BY <2>2
    <3>2. /\ Zombie(q) /\ pcb[q].parent = current /\ UNCHANGED pids
          /\ proc_list' = Without(proc_list, q)
      BY <1>3, <3>1, WaitSplit DEF Collects, recycle_child, Without
    <3>3. q # init_proc
      <4>1. current \in Live /\ idle \notin Live
        BY <1>3, WaitSplit DEF ProcInv, ListOK
      <4>. QED  BY <3>2, <4>1 DEF ProcInv, Parents
    <3>4. Live' = Live \ {q}
      BY <3>2, <3>3, ReapList
    <3>. QED  BY <3>2, <3>4 DEF Zombie
  <2>3. CASE Leaves \/ WaitsOn
    BY <1>1, <2>3 DEF Leaves, WaitsOn, WaitsFor
  <2>. QED  BY <2>1, <2>2, <2>3 DEF WaitTurn
<1>. QED
  BY <1>1, <1>2, <1>3
  DEF ProcNext, Call, sys_fork, sys_exit, sys_wait, Timer, ForkFails, ForkNoPid, sys_execve,
      do_exit, procVars

(* Only a zombie leaves the list of processes, and it is its own parent     *)
(* that takes it out: the test of the oldest pcb in do_waitpid(0), which    *)
(* asks nothing about the parent, never reaps the child of another.         *)
THEOREM ProcReapsOwnChild == ProcSpec => ReapsOwnChild
<1>1. ProcInv /\ [ProcNext]_procVars =>
        [\A c \in Live : c \notin Live' =>
           pcb[c].parent = current /\ pcb[c].state = "TASK_ZOMBIE"]_procVars
  BY ReapsOwn
<1>. QED  BY <1>1, ProcInvariant, PTL DEF ProcSpec, ReapsOwnChild

=============================================================================
