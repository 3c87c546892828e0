------------------------------- MODULE Process -------------------------------
(***************************************************************************)
(* Processes: do_fork(), do_exit(), do_waitpid() and what they call in     *)
(* proc.c, and the system calls of user.c on top of them, run by the init  *)
(* process of proc.c (fn_init_kern_thread() and fn_sec_kern_thread()) and  *)
(* by user_main() of user.c, or by a user program that makes these calls   *)
(* in any order.  proc_init() is taken with the call that creates init,    *)
(* which is commented out at this commit: without init no process forks,   *)
(* waits or exits.                                                         *)
(*                                                                         *)
(* A system call runs behind an interrupt gate with IF clear and gives the *)
(* CPU away only in schedule(), so it is one step up to there.  The kernel *)
(* thread init does run with interrupts on, but no other process can touch *)
(* its links while it is in a call: all others descend from process 2, its *)
(* child.                                                                  *)
(*                                                                         *)
(* pids are never given back, so a pcb is named by its pid.  What a freed  *)
(* pcb holds is not looked at.  A write through a null pcb pointer hits    *)
(* the page directory at address 0 in entries nothing reads, and has no    *)
(* effect here.  Pages are only taken and given back; what a program loses *)
(* when a page of its own is given to another is not modelled.             *)
(***************************************************************************)
EXTENDS Integers, Sequences, FiniteSets, SequencesExt, Vmm

CONSTANTS
  MAX_PROCESS,   \* also the number of bits in pids, as in the code
  NPages,        \* pages alloc_page() has
  Programs       \* what process 2 may run: "user_main", "any"

Pids == 0..(MAX_PROCESS - 1)
Pages == 1..NPages
NULL == -1
KTHREAD_STACK_PAGE == 2
idle == 0
init_proc == 1

ASSUME ProcessAssumption ==
  /\ MAX_PROCESS \in Nat \ (0..2)
  /\ NPages \in Nat /\ NPages >= 3 * MAX_PROCESS + 4
  /\ Programs \subseteq {"user_main", "any"}
  /\ MaxStart = 6

VARIABLES
  pcb,        \* state, parent, cptr, yptr, optr, mm and the first stack page of each pcb
  proc_list,  \* the pcbs in the list, newest first; idle is not in it
  pids,       \* the pids given out
  current,
  mms,        \* the global mm under idle, the others by the pid they were made for
  free,       \* the pages on the free list
  at,         \* pc: where the process is in its program; wait: what do_waitpid() waits
              \* for, "no", "pid" or "any"; chd: its local chd; arg: the pid init got
  hung        \* do_exit() is in a loop that does not end

procVars == <<pcb, proc_list, pids, current, mms, free, at, hung>>

(* What create_pcb() sets. *)
create_pcb ==
  [state |-> "TASK_READY", parent |-> NULL, cptr |-> NULL, yptr |-> NULL, optr |-> NULL,
   mm |-> NULL, stack |-> 0]

(* A page directory: its page, and the user pages it maps. *)
Directory(page, maps) == [page |-> page, maps |-> maps]
NoMm == create_mm(Directory(0, {}))

(* The global mm with the area of test_swap(), which find_vma() has found.  *)
SwapArea == 1
SwapAreaEnd == 5
CodeArea == 6
kernel_mm == [create_vma(NoMm, SwapArea, SwapAreaEnd)
                EXCEPT !.cache = Area(idle, SwapArea, SwapAreaEnd)]

At(pc) == [pc |-> pc, wait |-> "no", chd |-> NULL, arg |-> NULL]

proc_init ==
  /\ pcb = [p \in Pids |-> create_pcb]
  /\ proc_list = <<>>
  /\ pids = {idle}
  /\ current = idle
  /\ mms = [p \in Pids |-> IF p = idle THEN kernel_mm ELSE NoMm]
  /\ free = Pages
  /\ at = [p \in Pids |-> At(IF p = idle THEN "boot" ELSE "none")]
  /\ hung = FALSE

-----------------------------------------------------------------------------
(* The programs.  Where a call leaves its caller, and where a fork starts   *)
(* the child.  A failed fork() returns -1, which user_main() takes for the  *)
(* pid of a child.                                                          *)
AfterCall == [boot |-> "idle", init |-> "initwait", initwait |-> "exit",
              u0 |-> "u1", u1 |-> "u2", u2 |-> "u3", u3 |-> "exit", any |-> "any"]
ChildStart == [boot |-> "init", init |-> "sec", u0 |-> "exit", u1 |-> "exit", any |-> "any"]

pc == at[current].pc

(* A call has returned; only init uses the pid it returns. *)
Returned(pid) == [At(AfterCall[pc]) EXCEPT !.arg = IF pc = "init" THEN pid ELSE NULL]

(* The process runs its program, with interrupts on. *)
Running == ~hung /\ at[current].wait = "no"

-----------------------------------------------------------------------------
(* A search that finds nothing when nobody is runnable. *)
Target_NoIdle(c, P, L) ==
  LET k == SelectInSeq(L, LAMBDA q : q # c /\ P[q].state = "TASK_RUNNABLE")
  IN  IF k = 0 THEN NULL ELSE L[k]

(* A search that starts from the front of the list every time. *)
Target_FromFront(c, P, L) ==
  LET k == SelectInSeq(L, LAMBDA q : q # c /\ P[q].state = "TASK_RUNNABLE")
  IN  IF k = 0 THEN idle ELSE L[k]

(* schedule(): the first runnable pcb behind c in the ring, c excluded, or  *)
(* idle.  P is the table of pcbs and L the list.                            *)
Target(c, P, L) ==
  LET i == IF c = idle THEN 0 ELSE SelectInSeq(L, LAMBDA q : q = c)
      ring == SubSeq(L, i + 1, Len(L)) \o SubSeq(L, 1, i - 1)
      k == SelectInSeq(ring, LAMBDA q : P[q].state = "TASK_RUNNABLE")
  IN  IF k = 0 THEN idle ELSE ring[k]

(* The timer interrupts the program. *)
Timer ==
  /\ Running
  /\ current' = Target(current, pcb, proc_list)
  /\ UNCHANGED <<pcb, proc_list, pids, mms, free, at, hung>>

-----------------------------------------------------------------------------
(* alloc_page(): the first of the lowest n free pages in a row; no page at  *)
(* all if there are none.                                                   *)
alloc_page(F, n) ==
  LET rows == {k \in F : k..(k + n - 1) \subseteq F}
  IN  {k \in rows : \A j \in rows : k <= j}

(* set_kthread_stack(): the first of the pages of the stack. *)
set_kthread_stack(F) == alloc_page(F, KTHREAD_STACK_PAGE)

(* get_pid(): the lowest pid never given out. *)
get_pid == CHOOSE p \in Pids \ pids : \A q \in Pids \ pids : p <= q

(* copy_mm() with is_share = 0: the copy starts with ->num and ->cache of   *)
(* the old mm, which points to an area of that mm, and a directory of its   *)
(* own that maps the same pages; the areas are created anew, and counted on *)
(* top of ->num.  No page of an area is there to be copied: alloc_page(1)   *)
(* has just swapped out the only one.                                       *)
copy_mm(old, page) ==
  FoldLeft(LAMBDA A, s : create_vma(A, s, old.end[s]),
           [old EXCEPT !.next = NoMm.next, !.pde.page = page], Areas(old))

(* do_fork() links the child as the youngest of its brothers. *)
Linked(P, p, parent, k) ==
  LET elder == P[parent].cptr
      Q == [P EXCEPT ![p] = [create_pcb EXCEPT !.state = "TASK_RUNNABLE", !.parent = parent,
                                               !.optr = elder, !.stack = k],
                     ![parent].cptr = p]
  IN  IF elder = NULL THEN Q ELSE [Q EXCEPT ![elder].yptr = p]

(* kernel_thread() or fork(): there is a stack and a pid.  The only caller  *)
(* that wants to share its mm, init, has none.                              *)
do_fork ==
  /\ Running /\ pc \in DOMAIN ChildStart
  /\ Cardinality(pids) <= MAX_PROCESS
  /\ pids # Pids
  /\ \E k \in set_kthread_stack(free) : \E page \in alloc_page(free \ {k, k + 1}, 1) :
       LET p == get_pid
           m == pcb[current].mm
       IN  /\ pids' = pids \cup {p}
           /\ pcb' = [Linked(pcb, p, current, k) EXCEPT ![p].mm = IF m = NULL THEN NULL ELSE p]
           /\ proc_list' = <<p>> \o proc_list
           /\ mms' = IF m = NULL THEN mms ELSE [mms EXCEPT ![p] = copy_mm(mms[m], page)]
           /\ free' = free \ ({k, k + 1} \cup IF m = NULL THEN {} ELSE {page})
           /\ at' = [at EXCEPT ![current] = Returned(p), ![p] = At(ChildStart[pc])]
  /\ UNCHANGED <<current, hung>>

(* do_fork() fails for want of a pcb or a stack, which other users of       *)
(* memory may cause at any time; it has taken nothing.                      *)
ForkFails ==
  /\ Running /\ pc \in DOMAIN ChildStart \ {"boot"}
  /\ at' = [at EXCEPT ![current] = Returned(NULL)]
  /\ UNCHANGED <<pcb, proc_list, pids, current, mms, free, hung>>

(* do_fork() fails for want of a pid: MAX_PROCESS processes are not too     *)
(* many for its first test.  The address it computes for the stack lies in  *)
(* the second page of it.                                                   *)
ForkNoPid ==
  /\ Running /\ pc \in DOMAIN ChildStart
  /\ Cardinality(pids) <= MAX_PROCESS
  /\ pids = Pids
  /\ \E k \in set_kthread_stack(free) :
       /\ k + 2 \in Pages
       /\ free' = (free \ {k}) \cup {k + 1, k + 2}
  /\ at' = [at EXCEPT ![current] = Returned(NULL)]
  /\ UNCHANGED <<pcb, proc_list, pids, current, mms, hung>>

-----------------------------------------------------------------------------
(* sys_execve(user_main) by process 2: two pages of user stack, a copy m of *)
(* the global mm, a page for the code and an area for that page.            *)
sys_execve ==
  /\ Running /\ pc = "sec"
  /\ \E k \in alloc_page(free, KTHREAD_STACK_PAGE) :
     \E page \in alloc_page(free \ {k, k + 1}, 1) :
     \E code \in alloc_page(free \ {k, k + 1, page}, 1) :
     \E m \in {copy_mm(mms[idle], page)} :
       /\ mms' = [mms EXCEPT ![current] = [create_vma(m, CodeArea, CodeArea + 1)
                                            EXCEPT !.pde.maps = {k, k + 1, code}]]
       /\ free' = free \ {k, k + 1, page, code}
  /\ pcb' = [pcb EXCEPT ![current].mm = current]
  /\ \E program \in Programs :
       at' = [at EXCEPT ![current].pc = IF program = "any" THEN "any" ELSE "u0"]
  /\ UNCHANGED <<proc_list, pids, current, hung>>

-----------------------------------------------------------------------------
(* delete_mm(): the directory is freed when nobody is counted any more.     *)
delete_mm(M, F, m) ==
  IF m = NULL THEN [mms |-> M, free |-> F]
  ELSE IF M[m].num = 1
  THEN [mms |-> [M EXCEPT ![m] = NoMm], free |-> F \cup {M[m].pde.page}]
  ELSE [mms |-> [M EXCEPT ![m].num = @ - 1], free |-> F]

(* The brothers from c to the eldest, along ->optr. *)
Brothers(P, c) ==
  LET older[n \in 0..MAX_PROCESS] ==
        IF n = 0 THEN c ELSE IF older[n - 1] = NULL THEN NULL ELSE P[older[n - 1]].optr
      k == Cardinality({n \in 0..MAX_PROCESS : older[n] # NULL})
  IN  [i \in 1..k |-> older[i - 1]]

(* An adoption that leaves ->yptr of init's youngest child so far alone. *)
Adopt_NoYptr(P, c) ==
  [P EXCEPT ![P[c].parent].cptr = P[c].optr, ![c].yptr = NULL, ![c].optr = P[init_proc].cptr,
            ![c].parent = init_proc, ![init_proc].cptr = c]

(* One turn of the loop in send_chld_to_init(): the youngest child of p     *)
(* becomes the youngest child of init.                                      *)
Adopt(P, c) ==
  LET p == P[c].parent
      elder == P[c].optr
      first == P[init_proc].cptr
      Q == [P EXCEPT ![p].cptr = elder, ![c].yptr = NULL]
      R == IF elder = NULL THEN Q ELSE [Q EXCEPT ![elder].yptr = NULL]
      S == [R EXCEPT ![c].optr = first, ![c].parent = init_proc]
      T == IF first = NULL THEN S ELSE [S EXCEPT ![first].yptr = c]
  IN  [T EXCEPT ![init_proc].cptr = c]

(* send_chld_to_init() of p, which is not init.  Nobody is ever in          *)
(* waitstate WT_CHILD, so it wakes nobody.                                  *)
send_chld_to_init(P, p) == FoldLeft(Adopt, P, Brothers(P, P[p].cptr))

(* do_exit() of init hands each child over to init itself, and its loop     *)
(* finds the same child again.                                              *)
do_exit ==
  /\ Running /\ pc \in {"exit", "any"}
  /\ LET D == delete_mm(mms, free, pcb[current].mm)
         P == [pcb EXCEPT ![current].state = "TASK_ZOMBIE"]
         endless == current = init_proc /\ pcb[current].cptr # NULL
         Q == IF current = init_proc THEN P ELSE send_chld_to_init(P, current)
     IN  /\ mms' = D.mms /\ free' = D.free
         /\ hung' = endless
         /\ pcb' = Q
         /\ current' = IF endless THEN current ELSE Target(current, Q, proc_list)
  /\ at' = [at EXCEPT ![current] = At("none")]
  /\ UNCHANGED <<proc_list, pids>>

-----------------------------------------------------------------------------
(* recycle_child(): the links of the brothers and of the parent. *)
Unlinked(P, c) ==
  LET Q == IF P[c].yptr # NULL THEN [P EXCEPT ![P[c].yptr].optr = P[c].optr]
           ELSE [P EXCEPT ![P[c].parent].cptr = P[c].optr]
  IN  IF P[c].optr # NULL THEN [Q EXCEPT ![P[c].optr].yptr = P[c].yptr] ELSE Q

(* start_stack is 4 below the end of the stack: the two pages given back    *)
(* begin one page before it.  What lies in front of the first page is not   *)
(* kept track of.                                                           *)
recycle_child(c) ==
  /\ pcb' = [Unlinked(pcb, c) EXCEPT ![c] = create_pcb]
  /\ free' = free \cup ({pcb[c].stack - 1, pcb[c].stack} \cap Pages)
  /\ proc_list' = RemoveAt(proc_list, SelectInSeq(proc_list, LAMBDA q : q = c))

(* do_waitpid() returns. *)
Returns == at' = [at EXCEPT ![current] = Returned(NULL)]

(* do_waitpid() goes round its loop, for c. *)
WaitsFor(kind, c) ==
  /\ at' = [at EXCEPT ![current].wait = kind, ![current].chd = c]
  /\ current' = Target(current, pcb, proc_list)
  /\ UNCHANGED <<pcb, proc_list, free>>

Zombie(c) == pcb[c].state = "TASK_ZOMBIE"

(* A wait that takes any process for its child. *)
Mine_Any(c) == c # current

Mine(c) == pcb[c].parent = current

(* do_waitpid(pid) once it has found chd, its child. *)
WaitPid(c) ==
  \/ Zombie(c) /\ recycle_child(c) /\ Returns /\ UNCHANGED current
  \/ ~Zombie(c) /\ WaitsFor("pid", c)

(* do_waitpid(0) that gives up when no child has exited yet. *)
WaitAny_NoLoop(has_child) ==
  LET z == SelectInSeq(proc_list, LAMBDA q : Mine(q) /\ Zombie(q))
  IN  \/ z # 0 /\ recycle_child(proc_list[z]) /\ Returns /\ UNCHANGED current
      \/ z = 0 /\ Returns /\ UNCHANGED <<pcb, proc_list, free, current>>

(* do_waitpid(0) from the head of the list: the first zombie child is       *)
(* recycled; has_child tells whether there is, or has been, any.            *)
WaitAny(has_child) ==
  LET z == SelectInSeq(proc_list, LAMBDA q : Mine(q) /\ Zombie(q))
      has == has_child \/ \E i \in 1..Len(proc_list) : Mine(proc_list[i])
  IN  \/ z # 0 /\ recycle_child(proc_list[z]) /\ Returns /\ UNCHANGED current
      \/ z = 0 /\ ~has /\ Returns /\ UNCHANGED <<pcb, proc_list, free, current>>
      \/ z = 0 /\ has /\ WaitsFor("any", proc_list[Len(proc_list)])

(* The pids a program asks for. *)
Asked == CASE pc = "initwait" -> {at[current].arg}
           [] pc \in {"u2", "u3"} -> {0}
           [] pc = "any" -> Pids
           [] OTHER -> {}

do_waitpid(pid) ==
  /\ Running /\ pid \in Asked
  /\ \/ pid = 0 /\ WaitAny(FALSE)
     \/ pid # 0 /\ Contains(proc_list, pid) /\ Mine(pid) /\ WaitPid(pid)
     \/ /\ pid # 0 /\ ~(Contains(proc_list, pid) /\ Mine(pid))
        /\ Returns /\ UNCHANGED <<pcb, proc_list, free, current>>
  /\ UNCHANGED <<pids, mms, hung>>

(* schedule() has come back to a process that waits.  With pid 0 it jumps   *)
(* into the loop with the pcb it looked at last, the oldest in the list,    *)
(* and asks whether that one is a zombie, whosever child it is.             *)
Resume ==
  /\ ~hung
  /\ \/ at[current].wait = "pid" /\ WaitPid(at[current].chd)
     \/ /\ at[current].wait = "any"
        /\ \/ /\ Zombie(at[current].chd)
              /\ recycle_child(at[current].chd) /\ Returns /\ UNCHANGED current
           \/ ~Zombie(at[current].chd) /\ WaitAny(TRUE)
  /\ UNCHANGED <<pids, mms, hung>>

-----------------------------------------------------------------------------
(* The calls of the running program, which init, a kernel thread, makes     *)
(* without the int 0x80.                                                    *)
sys_fork == do_fork \/ ForkFails \/ ForkNoPid
sys_exit == do_exit
sys_wait == \E pid \in Pids \cup {NULL} : do_waitpid(pid)

Call == sys_fork \/ sys_execve \/ sys_exit \/ sys_wait

ProcNext == Timer \/ Call \/ Resume

(* The timer goes on; a process that waits runs on when it has the CPU; the *)
(* programs of the kernel (all but "any"), which end, go on when they get   *)
(* the CPU again and again.                                                 *)
ProcFairness ==
  /\ SF_procVars(Timer)
  /\ WF_procVars(Resume)
  /\ SF_procVars(pc # "any" /\ Call)

ProcSpec == proc_init /\ [][ProcNext]_procVars /\ ProcFairness

-----------------------------------------------------------------------------
Live == {proc_list[i] : i \in 1..Len(proc_list)}

(* The type invariant. *)
ProcTypeOK ==
  /\ pcb \in [Pids -> [state : {"TASK_READY", "TASK_RUNNABLE", "TASK_ZOMBIE"},
                       parent : Pids \cup {NULL}, cptr : Pids \cup {NULL},
                       yptr : Pids \cup {NULL}, optr : Pids \cup {NULL},
                       mm : Pids \cup {NULL}, stack : Pages \cup {0}]]
  /\ Live \subseteq pids /\ pids \subseteq Pids
  /\ current \in Live \cup {idle}
  /\ free \subseteq Pages
  /\ hung \in BOOLEAN

(* The links of fork, exit and wait describe one family: from ->cptr along  *)
(* ->optr one meets every process whose parent this is, each once and no    *)
(* pcb that was freed, and ->yptr leads back.  An adopted child, a child    *)
(* reaped out of the middle, and an exit with zombies among the children    *)
(* must all keep it.                                                        *)
FamilyTree ==
  ~hung => \A p \in Live \cup {idle} :
    LET c == Brothers(pcb, pcb[p].cptr)
        children == {q \in Live : pcb[q].parent = p}
    IN  /\ Len(c) = Cardinality(children)
        /\ {c[i] : i \in 1..Len(c)} = children
        /\ \A i \in 1..Len(c) : pcb[c[i]].yptr = IF i = 1 THEN NULL ELSE c[i - 1]

(* No process is reaped but a zombie, by the process that is its parent:    *)
(* do_waitpid(0) tests the oldest pcb without looking at its parent.        *)
ReapsOwnChild ==
  [][\A c \in Live : c \notin Live' => pcb[c].parent = current /\ pcb[c].state = "TASK_ZOMBIE"]_procVars

(* create_vma() can tie a list into a loop or lose an area; for the areas   *)
(* the kernel and execve create, in the order in which they do, every walk  *)
(* through the mm of a process ends, and find_vma() finds the area of       *)
(* test_swap() for every address in it: one that is still in the list of    *)
(* the mm it was created for, although the ->cache that copy_mm() hands on  *)
(* points to an area of another mm.                                         *)
AreasFound ==
  \A p \in Live : ~Zombie(p) /\ pcb[p].mm # NULL =>
    LET A == mms[pcb[p].mm]
    IN  /\ WalkEnds(A)
        /\ \A addr \in SwapArea..(SwapAreaEnd - 1) :
             LET found == find_vma(A, pcb[p].mm, addr)
             IN  found.start = SwapArea /\ SwapArea \in ToSet(Areas(mms[found.of]))

(* A process that waits for a child that has exited comes back from         *)
(* do_waitpid(), whoever else waits, forks or exits meanwhile.              *)
Awaited(p) ==
  \E c \in Live : /\ Zombie(c) /\ pcb[c].parent = p
                  /\ at[p].wait = "any" \/ (at[p].wait = "pid" /\ at[p].chd = c)
WaitersReturn == \A p \in Pids : Awaited(p) ~> (at[p].wait = "no" \/ hung)

(* user_main() and init collect every process: nothing is left but init,    *)
(* which nobody waits for.                                                  *)
AllCollected == at[2].pc = "u0" ~> (proc_list = <<init_proc>> /\ Zombie(init_proc))

(* proc.c:108, "free stack": recycling a child gives back the child's       *)
(* stack.  So no page that a process still uses, be it its kernel stack,    *)
(* its page directory, its user stack or its code, is on the free list.     *)
PagesKept ==
  \A p \in Live : ~Zombie(p) =>
    LET dir == IF pcb[p].mm = NULL THEN {} ELSE {mms[pcb[p].mm].pde.page} \cup mms[pcb[p].mm].pde.maps
    IN  free \cap ({pcb[p].stack, pcb[p].stack + 1} \cup dir) = {}

(* proc.c:272 hands all living children to init, and proc.c:256 then        *)
(* switches away from the process that exits: the loop ends.                *)
ExitEnds == ~hung

=============================================================================
