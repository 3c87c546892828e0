--------------------------------- MODULE Vmm ---------------------------------
(***************************************************************************)
(* The area list of an mm_struct: create_mm(), create_vma() and find_vma() *)
(* of vmm.c.  Within its mm an area is named by its vmm_start, a number    *)
(* from 1 to MaxStart; 0 stands for the list head &mm->node.  Only ->next  *)
(* is kept: every walk in vmm.c and proc.c goes forward.  A pointer to an  *)
(* area also says which mm the area was created for, its ->back_link.      *)
(***************************************************************************)
EXTENDS Naturals, Sequences, FiniteSets

CONSTANT MaxStart    \* largest vmm_start

ASSUME VmmAssumption == MaxStart \in Nat

HEAD == 0
Nodes == 0..MaxStart

(* A pointer to an area of mm `of'; NULL starts at HEAD. *)
Area(of, start, end) == [of |-> of, start |-> start, end |-> end]
NoArea == Area(0, HEAD, 0)

(* pde: the page directory; num: ->num, which create_vma() uses to count    *)
(* areas and proc.c to count the processes that share the mm; cache: the    *)
(* area found last.                                                         *)
create_mm(pde) ==
  [pde |-> pde, next |-> [n \in Nodes |-> HEAD], end |-> [n \in Nodes |-> 0],
   num |-> 0, cache |-> NoArea]

(* The k-th node after the head. *)
Visit(A) ==
  LET at[k \in 0..(MaxStart + 1)] == IF k = 0 THEN A.next[HEAD] ELSE A.next[at[k - 1]]
  IN  at

(* A walk visits the nodes up to the first that is the head or passes the   *)
(* test.  A list with a loop that it does not leave has no such node.       *)
Stops(A, Test(_)) ==
  {k \in DOMAIN Visit(A) :
     LET v == Visit(A) IN
       /\ v[k] = HEAD \/ Test(v[k])
       /\ \A j \in 0..(k - 1) : v[j] # HEAD /\ ~Test(v[j])}

(* The areas of a list, in order; a circular list does not end. *)
WalkEnds(A) == Stops(A, LAMBDA n : FALSE) # {}
Areas(A) ==
  LET k == CHOOSE j \in Stops(A, LAMBDA n : FALSE) : TRUE
  IN  [i \in 1..k |-> Visit(A)[i - 1]]

(* list_insert_after(), on the links that are followed. *)
list_insert_after(A, b, s) ==
  [A EXCEPT !.next[s] = A.next[b], !.next[b] = s]

(* create_vma() without the code for a list in which nothing was greater.   *)
create_vma_OnlyBefore(A, s, e) ==
  LET B == [A EXCEPT !.end[s] = e]
      k == CHOOSE j \in Stops(B, LAMBDA n : n > s) : TRUE
      begin == IF k = 0 THEN HEAD ELSE Visit(B)[k - 1]
  IN  IF Visit(B)[k] # HEAD THEN [list_insert_after(B, begin, s) EXCEPT !.num = @ + 1] ELSE B

(* create_vma() on a list that ends: the area goes behind `begin', the node *)
(* in front of the first greater one, if there is a greater one; then, if   *)
(* `begin' is the head, behind the head, even when it is there already.     *)
(* An area greater than all others goes nowhere.                            *)
create_vma(A, s, e) ==
  LET B == [A EXCEPT !.end[s] = e]
      k == CHOOSE j \in Stops(B, LAMBDA n : n > s) : TRUE
      begin == IF k = 0 THEN HEAD ELSE Visit(B)[k - 1]
      C == IF Visit(B)[k] # HEAD
           THEN [list_insert_after(B, begin, s) EXCEPT !.num = @ + 1] ELSE B
  IN  IF begin = HEAD THEN [list_insert_after(C, HEAD, s) EXCEPT !.num = @ + 1] ELSE C

(* The area find_vma() returns for the mm A with the name `of': the one in  *)
(* the cache, which must start below addr, or the first in the list that    *)
(* contains addr.                                                           *)
find_vma(A, of, addr) ==
  LET c == A.cache
      k == CHOOSE j \in Stops(A, LAMBDA n : n <= addr /\ A.end[n] > addr) : TRUE
  IN  IF c.start # HEAD /\ c.start < addr /\ c.end > addr THEN c
      ELSE Area(of, Visit(A)[k], A.end[Visit(A)[k]])

=============================================================================
