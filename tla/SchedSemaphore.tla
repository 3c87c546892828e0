---------------------------- MODULE SchedSemaphore ----------------------------
(***************************************************************************)
(* P() and V() of semaphore.c on the CPU of module Sched, statement by     *)
(* statement, with timer interrupts and other threads in between wherever  *)
(* the code leaves interrupts on.  The threads call P(), V() and do_exit() *)
(* in any order.  The module implements module Semaphore, in which P and V *)
(* are atomic.                                                             *)
(***************************************************************************)
EXTENDS Sched, Integers

CONSTANTS
  Sems,       \* the semaphores
  MaxInit,    \* largest initial value
  MaxValue    \* bound: no V on a semaphore that already has this value

ASSUME SchedSemaphoreAssumption == MaxInit \in Nat /\ MaxValue \in Nat

VARIABLES
  value,      \* s->value
  queue       \* s->queue

vars == <<IntrOn, current, proc_list, state, stack, value, queue>>

Init ==
  /\ SchedInit
  /\ value \in [Sems -> 0..MaxInit]
  /\ queue = [s \in Sems |-> <<>>]

(* A thread's function calls P(s) or V(s). *)
CallP(s) ==
  /\ At("body", "run")
  /\ Call([Frame("P", "mask") EXCEPT !.arg = s], "run")
  /\ UNCHANGED <<IntrOn, current, proc_list, state, value, queue>>

CallV(s) ==
  /\ At("body", "run")
  /\ value[s] < MaxValue
  /\ Call([Frame("V", "mask") EXCEPT !.arg = s], "run")
  /\ UNCHANGED <<IntrOn, current, proc_list, state, value, queue>>

-----------------------------------------------------------------------------
PMask ==
  /\ At("P", "mask")
  /\ atom_disable_intr("dec")
  /\ UNCHANGED <<current, proc_list, state, value, queue>>

PDec ==
  /\ At("P", "dec")
  /\ value' = [value EXCEPT ![Top.arg] = @ - 1]
  /\ Goto(IF value[Top.arg] - 1 < 0 THEN "sleep" ELSE "unmask")
  /\ UNCHANGED <<IntrOn, current, proc_list, state, queue>>

(* P() that unmasks before it sleeps. *)
PSleep_Unmasked ==
  /\ At("P", "sleep")
  /\ queue' = [queue EXCEPT ![Top.arg] = Append(@, current)]
  /\ state' = [state EXCEPT ![current] = "TASK_SLEEPING"]
  /\ IntrOn' = TRUE
  /\ Call(Frame("schedule", "mask"), "unmask")
  /\ UNCHANGED <<current, proc_list, value>>

PSleep ==
  /\ At("P", "sleep")
  /\ queue' = [queue EXCEPT ![Top.arg] = Append(@, current)]
  /\ state' = [state EXCEPT ![current] = "TASK_SLEEPING"]
  /\ Call(Frame("schedule", "mask"), "unmask")
  /\ UNCHANGED <<IntrOn, current, proc_list, value>>

(* P() that does not unmask interrupts when it returns. *)
PUnmask_Missing ==
  /\ At("P", "unmask")
  /\ Return
  /\ UNCHANGED <<IntrOn, current, proc_list, state, value, queue>>

PUnmask ==
  /\ At("P", "unmask")
  /\ atom_enable_intr
  /\ Return
  /\ UNCHANGED <<current, proc_list, state, value, queue>>

P == PMask \/ PDec \/ PSleep \/ PUnmask

-----------------------------------------------------------------------------
VMask ==
  /\ At("V", "mask")
  /\ atom_disable_intr("inc")
  /\ UNCHANGED <<current, proc_list, state, value, queue>>

VInc ==
  /\ At("V", "inc")
  /\ value' = [value EXCEPT ![Top.arg] = @ + 1]
  /\ Goto(IF value[Top.arg] + 1 <= 0 THEN "wake" ELSE "unmask")
  /\ UNCHANGED <<IntrOn, current, proc_list, state, queue>>

(* V() that takes the longest waiting thread off the queue and forgets it. *)
VWake_Forgotten ==
  /\ At("V", "wake")
  /\ queue' = [queue EXCEPT ![Top.arg] = Tail(@)]
  /\ Goto("unmask")
  /\ UNCHANGED <<IntrOn, current, proc_list, state, value>>

(* V() that leaves the woken thread in a state schedule() passes over. *)
VWake_WrongState ==
  /\ At("V", "wake")
  /\ state' = [state EXCEPT ![Head(queue[Top.arg])] = "TASK_READY"]
  /\ queue' = [queue EXCEPT ![Top.arg] = Tail(@)]
  /\ Goto("unmask")
  /\ UNCHANGED <<IntrOn, current, proc_list, value>>

(* Here the queue is never empty: QueueMatchesValue of module Semaphore.    *)
VWake ==
  /\ At("V", "wake")
  /\ state' = [state EXCEPT ![Head(queue[Top.arg])] = "TASK_RUNNABLE"]
  /\ queue' = [queue EXCEPT ![Top.arg] = Tail(@)]
  /\ Goto("unmask")
  /\ UNCHANGED <<IntrOn, current, proc_list, value>>

VUnmask ==
  /\ At("V", "unmask")
  /\ atom_enable_intr
  /\ Return
  /\ UNCHANGED <<current, proc_list, state, value, queue>>

V == VMask \/ VInc \/ VWake \/ VUnmask

-----------------------------------------------------------------------------
(* Every step of the CPU that is not up to the client. *)
Cpu == (Kernel /\ UNCHANGED <<value, queue>>) \/ P \/ V

Timer == TimerInterrupt /\ UNCHANGED <<value, queue>>

Client ==
  \/ CallExit /\ UNCHANGED <<value, queue>>
  \/ \E s \in Sems : CallP(s) \/ CallV(s)

Next == Cpu \/ Timer \/ Client

(* As for module Sched; in addition a thread inside P() or V() that gets    *)
(* the CPU again and again executes its next statement.                     *)
Fairness ==
  /\ WF_vars(Cpu)
  /\ SF_vars(Timer)
  /\ SF_vars(init /\ UNCHANGED <<value, queue>>)
  /\ \A t \in Threads : SF_vars(current = t /\ (P \/ V))

Spec == Init /\ [][Next]_vars /\ Fairness

-----------------------------------------------------------------------------
(* The refinement mapping.  P takes effect when it decrements the value and *)
(* V when it increments it; the thread that P is about to put to sleep, or  *)
(* V about to wake, has then already changed its abstract state.  To its    *)
(* users a thread that is new or has exited only takes no more steps.       *)
GoingToSleep == At("P", "sleep")
Waking == At("V", "wake")

absQueue ==
  [s \in Sems |->
     IF GoingToSleep /\ Top.arg = s THEN Append(queue[s], current)
     ELSE IF Waking /\ Top.arg = s THEN Tail(queue[s])
     ELSE queue[s]]

absState ==
  [t \in Threads |->
     IF \/ GoingToSleep /\ t = current
        \/ state[t] = "TASK_SLEEPING" /\ ~(Waking /\ t = Head(queue[Top.arg]))
     THEN "TASK_SLEEPING" ELSE "TASK_RUNNABLE"]

Abstract == INSTANCE Semaphore WITH Procs <- Threads, queue <- absQueue, state <- absState

(* The code implements the atomic semaphore: no interleaving of its         *)
(* statements with interrupts and other threads shows.                      *)
ImplementsSemaphore == Abstract!SemSpec

(* A thread that calls P() or V() returns, or sleeps in P(); a thread that  *)
(* V() has woken returns from its P().                                      *)
InCall(t) == Len(stack[t]) > 1 /\ stack[t][Len(stack[t]) - 1].fn \in {"P", "V"}

CallsReturn ==
  \A t \in Threads : InCall(t) ~> (~InCall(t) \/ state[t] = "TASK_SLEEPING")

=============================================================================
