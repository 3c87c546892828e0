------------------------------ MODULE Semaphore ------------------------------
(***************************************************************************)
(* The counting semaphore of schedule/synchronize/semaphore.c, seen by its *)
(* callers: P() and V() each take effect in one indivisible step, because  *)
(* their bodies run with interrupts disabled on a single CPU.  That they   *)
(* really do so is not assumed: module SchedSemaphore models the same code *)
(* instruction by instruction under a timer and implements this one.       *)
(*                                                                         *)
(* A P() that must block puts the caller at the tail of the semaphore's    *)
(* wait queue and marks it TASK_SLEEPING; a sleeping process takes no step *)
(* until a V() marks it TASK_RUNNABLE.  Any runnable process may step      *)
(* next: the scheduler is abstracted to a free choice.                     *)
(***************************************************************************)
EXTENDS Integers, Sequences, FiniteSets

CONSTANTS
  Procs,      \* the kernel threads (struct pcb_t) that use the semaphores
  Sems,       \* the semaphores (struct semaphore_t)
  MaxInit     \* largest value a semaphore is initialised with

ASSUME SemaphoreAssumption ==
  /\ IsFiniteSet(Procs)
  /\ MaxInit \in Nat

VARIABLES
  value,      \* s->value
  queue,      \* s->queue: the sleeping processes, longest waiting first
  state       \* pcb->state

semVars == <<value, queue, state>>

RUNNABLE == "TASK_RUNNABLE"
SLEEPING == "TASK_SLEEPING"

-----------------------------------------------------------------------------
(* semaphore_init() for every semaphore: its value, an empty queue. *)
semaphore_init(v) ==
  /\ value = v
  /\ queue = [s \in Sems |-> <<>>]

SemInit ==
  /\ \E v \in [Sems -> 0..MaxInit] : semaphore_init(v)
  /\ state = [p \in Procs |-> RUNNABLE]

(* P without the sleep: the caller goes on although the value is negative. *)
P_NoSleep(p, s) ==
  /\ state[p] = RUNNABLE
  /\ value' = [value EXCEPT ![s] = @ - 1]
  /\ queue' = [queue EXCEPT ![s] = IF value[s] - 1 < 0 THEN Append(@, p) ELSE @]
  /\ UNCHANGED state

(* The caller p takes a unit of s, or queues up for one and sleeps. *)
P(p, s) ==
  /\ state[p] = RUNNABLE
  /\ value' = [value EXCEPT ![s] = @ - 1]
  /\ \/ /\ value[s] - 1 < 0
        /\ queue' = [queue EXCEPT ![s] = Append(@, p)]
        /\ state' = [state EXCEPT ![p] = SLEEPING]
     \/ /\ value[s] - 1 >= 0
        /\ UNCHANGED <<queue, state>>

(* V that wakes on < 0 where the code has <= 0: the last sleeper is missed. *)
V_OffByOne(p, s) ==
  /\ state[p] = RUNNABLE
  /\ value' = [value EXCEPT ![s] = @ + 1]
  /\ \/ /\ value[s] + 1 < 0 /\ queue[s] # <<>>
        /\ state' = [state EXCEPT ![Head(queue[s])] = RUNNABLE]
        /\ queue' = [queue EXCEPT ![s] = Tail(@)]
     \/ /\ value[s] + 1 >= 0 \/ queue[s] = <<>>
        /\ UNCHANGED <<queue, state>>

(* V that puts the woken process into a state schedule() never picks. *)
V_WrongState(p, s) ==
  /\ state[p] = RUNNABLE
  /\ value' = [value EXCEPT ![s] = @ + 1]
  /\ \/ /\ value[s] + 1 <= 0 /\ queue[s] # <<>>
        /\ state' = [state EXCEPT ![Head(queue[s])] = "TASK_READY"]
        /\ queue' = [queue EXCEPT ![s] = Tail(@)]
     \/ /\ value[s] + 1 > 0 \/ queue[s] = <<>>
        /\ UNCHANGED <<queue, state>>

(* The caller p gives a unit back; if processes sleep on s the first one is *)
(* made runnable.  With an empty queue the code would write through the     *)
(* list head as if it were a pcb: QueueMatchesValue says that this case     *)
(* never arises, and here it has no effect on any process.                  *)
V(p, s) ==
  /\ state[p] = RUNNABLE
  /\ value' = [value EXCEPT ![s] = @ + 1]
  /\ \/ /\ value[s] + 1 <= 0 /\ queue[s] # <<>>
        /\ state' = [state EXCEPT ![Head(queue[s])] = RUNNABLE]
        /\ queue' = [queue EXCEPT ![s] = Tail(@)]
     \/ /\ value[s] + 1 > 0 \/ queue[s] = <<>>
        /\ UNCHANGED <<queue, state>>

SemNext == \E p \in Procs, s \in Sems : P(p, s) \/ V(p, s)

SemSpec == SemInit /\ [][SemNext]_semVars

-----------------------------------------------------------------------------
SemTypeOK ==
  /\ value \in [Sems -> Int]
  /\ queue \in [Sems -> Seq(Procs)]
  /\ state \in [Procs -> {RUNNABLE, SLEEPING}]

(* The value and the queue never disagree: a negative value is exactly the  *)
(* number of sleepers, and a semaphore with units left has none.  This is   *)
(* what makes V's unchecked access to s->queue.next (semaphore.c:41) a pcb. *)
QueueMatchesValue ==
  \A s \in Sems : Len(queue[s]) = (IF value[s] < 0 THEN -value[s] ELSE 0)

(* No wake-up is lost: a process sleeps exactly while it is in a queue, and *)
(* since pcb_t has one semaphore_test_node it is there only once.           *)
SleepersQueued ==
  /\ \A p \in Procs :
       state[p] = SLEEPING <=> \E s \in Sems : \E i \in 1..Len(queue[s]) : queue[s][i] = p
  /\ \A s1, s2 \in Sems : \A i \in 1..Len(queue[s1]), j \in 1..Len(queue[s2]) :
       queue[s1][i] = queue[s2][j] => s1 = s2 /\ i = j

=============================================================================
