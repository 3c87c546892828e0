------------------------------- MODULE Monitor -------------------------------
(***************************************************************************)
(* The Hoare monitor of schedule/synchronize/monitor.c: enter(), leave(),  *)
(* and wait() and signal() on a condition variable, built from semaphores. *)
(* The code does not disable interrupts inside these functions, so a timer *)
(* interrupt may switch threads between any two of their statements: each  *)
(* statement is an action of its own, and P() and V() are the atomic ones  *)
(* of module Semaphore.  An increment or a decrement of a counter is two   *)
(* actions, for the build may load the counter, add and store it back: an  *)
(* interrupt between the two is what loses an update.                      *)
(*                                                                         *)
(* pc[p] names the statement thread p executes next; a P() that blocks     *)
(* leaves pc[p] at the statement that follows it and state[p] SLEEPING.    *)
(* The client inside the monitor is the most general one: it calls wait(), *)
(* signal() and leave() in any order, any number of times.                 *)
(***************************************************************************)
EXTENDS Semaphore

CONSTANTS
  Conds,      \* monitor->cvs; the condition also stands for its x_sem
  mutex,      \* monitor->mutex, the entry queue
  next        \* monitor->next, the urgent queue of signallers

ASSUME MonitorAssumption ==
  /\ Sems = {mutex, next} \cup Conds
  /\ mutex # next
  /\ mutex \notin Conds /\ next \notin Conds

VARIABLES
  next_count, \* monitor->next_count
  x_count,    \* cvs[i].x_count
  pc,         \* the next statement of each thread
  cv,         \* the argument cond of the wait() or signal() in progress
  reg         \* the counter a thread has loaded and not yet stored, or 0

monVars == <<value, queue, state, next_count, x_count, pc, cv, reg>>

NoCond == "NoCond"

(* wait() counts its caller from the store of "w_inc" to that of "w_dec",   *)
(* signal() from that of "s_inc" to that of "s_dec".                        *)
WaitLabels   == {"w_test", "w_vnext", "w_vmutex", "w_block", "w_done", "w_dec"}
UrgentLabels == {"s_wake", "s_block", "s_done", "s_dec"}
SignalLabels == {"s_count", "s_inc"} \cup UrgentLabels
LeaveLabels  == {"l_vnext", "l_vmutex"}
Labels == {"out", "in", "w_inc"} \cup WaitLabels \cup SignalLabels \cup LeaveLabels

-----------------------------------------------------------------------------
(* monitor_init() *)
monitor_init ==
  /\ semaphore_init([s \in Sems |-> IF s = mutex THEN 1 ELSE 0])
  /\ next_count = 0
  /\ x_count = [c \in Conds |-> 0]

MonInit ==
  /\ monitor_init
  /\ state = [p \in Procs |-> RUNNABLE]
  /\ pc = [p \in Procs |-> "out"]
  /\ cv = [p \in Procs |-> NoCond]
  /\ reg = [p \in Procs |-> 0]

(* Thread p goes from statement a to statement b. *)
Step(p, a, b) == pc[p] = a /\ pc' = [pc EXCEPT ![p] = b]

(* Thread p computes: it must not be asleep; no semaphore changes. *)
Compute(p) == state[p] = RUNNABLE /\ UNCHANGED semVars

(* The counters, and what the threads hold of them. *)
counts == <<next_count, x_count, reg>>

(* Thread p loads a counter, or has stored what it computed from it. *)
Load(p, n) == reg' = [reg EXCEPT ![p] = n]
Stored(p)  == reg' = [reg EXCEPT ![p] = 0]

(* enter(): P(&monitor->mutex). *)
Enter(p) ==
  /\ Step(p, "out", "in")
  /\ P(p, mutex)
  /\ UNCHANGED <<counts, cv>>

-----------------------------------------------------------------------------
(* wait(cond) *)
WaitLoad(p, c) ==
  /\ Compute(p)
  /\ Step(p, "in", "w_inc")
  /\ cv' = [cv EXCEPT ![p] = c]
  /\ Load(p, x_count[c])
  /\ UNCHANGED <<next_count, x_count>>

WaitCount(p) ==
  /\ Compute(p)
  /\ Step(p, "w_inc", "w_test")
  /\ x_count' = [x_count EXCEPT ![cv[p]] = reg[p] + 1]
  /\ Stored(p)
  /\ UNCHANGED <<next_count, cv>>

WaitTest(p) ==
  /\ Compute(p)
  /\ Step(p, "w_test", IF next_count > 0 THEN "w_vnext" ELSE "w_vmutex")
  /\ UNCHANGED <<counts, cv>>

WaitVNext(p) ==
  /\ Step(p, "w_vnext", "w_block")
  /\ V(p, next)
  /\ UNCHANGED <<counts, cv>>

WaitVMutex(p) ==
  /\ Step(p, "w_vmutex", "w_block")
  /\ V(p, mutex)
  /\ UNCHANGED <<counts, cv>>

WaitBlock(p) ==
  /\ Step(p, "w_block", "w_done")
  /\ P(p, cv[p])
  /\ UNCHANGED <<counts, cv>>

WaitReload(p) ==
  /\ Compute(p)
  /\ Step(p, "w_done", "w_dec")
  /\ Load(p, x_count[cv[p]])
  /\ UNCHANGED <<next_count, x_count, cv>>

WaitDone(p) ==
  /\ Compute(p)
  /\ Step(p, "w_dec", "in")
  /\ x_count' = [x_count EXCEPT ![cv[p]] = reg[p] - 1]
  /\ cv' = [cv EXCEPT ![p] = NoCond]
  /\ Stored(p)
  /\ UNCHANGED next_count

-----------------------------------------------------------------------------
(* signal() that does not test x_count. *)
SignalTest_Always(p, c) ==
  /\ Compute(p)
  /\ Step(p, "in", "s_count")
  /\ cv' = [cv EXCEPT ![p] = c]
  /\ UNCHANGED counts

(* signal(cond): an empty operation when nobody waits on the condition. *)
SignalTest(p, c) ==
  /\ Compute(p)
  /\ \/ /\ x_count[c] > 0
        /\ Step(p, "in", "s_count")
        /\ cv' = [cv EXCEPT ![p] = c]
     \/ /\ ~(x_count[c] > 0)
        /\ pc[p] = "in"
        /\ UNCHANGED <<pc, cv>>
  /\ UNCHANGED counts

SignalLoad(p) ==
  /\ Compute(p)
  /\ Step(p, "s_count", "s_inc")
  /\ Load(p, next_count)
  /\ UNCHANGED <<next_count, x_count, cv>>

SignalCount(p) ==
  /\ Compute(p)
  /\ Step(p, "s_inc", "s_wake")
  /\ next_count' = reg[p] + 1
  /\ Stored(p)
  /\ UNCHANGED <<x_count, cv>>

SignalWake(p) ==
  /\ Step(p, "s_wake", "s_block")
  /\ V(p, cv[p])
  /\ UNCHANGED <<counts, cv>>

(* signal() that goes on instead of making way for the thread it woke. *)
SignalBlock_Continue(p) ==
  /\ Step(p, "s_block", "s_done")
  /\ Compute(p)
  /\ UNCHANGED <<counts, cv>>

SignalBlock(p) ==
  /\ Step(p, "s_block", "s_done")
  /\ P(p, next)
  /\ UNCHANGED <<counts, cv>>

SignalReload(p) ==
  /\ Compute(p)
  /\ Step(p, "s_done", "s_dec")
  /\ Load(p, next_count)
  /\ UNCHANGED <<next_count, x_count, cv>>

SignalDone(p) ==
  /\ Compute(p)
  /\ Step(p, "s_dec", "in")
  /\ next_count' = reg[p] - 1
  /\ cv' = [cv EXCEPT ![p] = NoCond]
  /\ Stored(p)
  /\ UNCHANGED x_count

-----------------------------------------------------------------------------
(* leave() that always releases the entry lock, urgent queue or not. *)
LeaveTest_IgnoreUrgent(p) ==
  /\ Compute(p)
  /\ Step(p, "in", "l_vmutex")
  /\ UNCHANGED <<counts, cv>>

(* leave() *)
LeaveTest(p) ==
  /\ Compute(p)
  /\ Step(p, "in", IF next_count > 0 THEN "l_vnext" ELSE "l_vmutex")
  /\ UNCHANGED <<counts, cv>>

LeaveVNext(p) ==
  /\ Step(p, "l_vnext", "out")
  /\ V(p, next)
  /\ UNCHANGED <<counts, cv>>

LeaveVMutex(p) ==
  /\ Step(p, "l_vmutex", "out")
  /\ V(p, mutex)
  /\ UNCHANGED <<counts, cv>>

-----------------------------------------------------------------------------
(* The statements of the monitor functions after their first one. *)
Inside(p) ==
  \/ WaitCount(p) \/ WaitTest(p) \/ WaitVNext(p) \/ WaitVMutex(p) \/ WaitBlock(p)
  \/ WaitReload(p) \/ WaitDone(p)
  \/ SignalLoad(p) \/ SignalCount(p) \/ SignalWake(p) \/ SignalBlock(p)
  \/ SignalReload(p) \/ SignalDone(p)
  \/ LeaveVNext(p) \/ LeaveVMutex(p)

MonNext ==
  \E p \in Procs :
    \/ Enter(p)
    \/ \E c \in Conds : WaitLoad(p, c) \/ SignalTest(p, c)
    \/ LeaveTest(p)
    \/ Inside(p)

MonSpec == MonInit /\ [][MonNext]_monVars

-----------------------------------------------------------------------------
MonTypeOK ==
  /\ SemTypeOK
  /\ next_count \in Nat
  /\ x_count \in [Conds -> Nat]
  /\ pc \in [Procs -> Labels]
  /\ cv \in [Procs -> Conds \cup {NoCond}]
  /\ reg \in [Procs -> Int]

(* The thread that has the monitor: it runs, and it is neither outside nor  *)
(* between handing the monitor on and blocking.                             *)
Active(p) == state[p] = RUNNABLE /\ pc[p] \notin {"out", "w_block", "s_block"}

(* At most one thread is inside the monitor, although a signaller and the   *)
(* thread it wakes, or a waiter and its successor, run concurrently between *)
(* V() and the P() that follows it in wait() and signal().                  *)
MutualExclusion == \A p, q \in Procs : Active(p) /\ Active(q) => p = q

Waiting(c)  == {p \in Procs : pc[p] \in WaitLabels /\ cv[p] = c}
Signalling  == {p \in Procs : pc[p] \in UrgentLabels}

(* The unprotected counters never lose an update, although the timer may    *)
(* interrupt a thread between reading a counter and writing it back         *)
(* (monitor.c:36, 43, 59, 62): x_count is the number of threads in wait()   *)
(* and next_count the number of threads in signal().  Only the exclusion    *)
(* the semaphores provide keeps two threads from changing one at a time.    *)
CountsExact ==
  /\ next_count = Cardinality(Signalling)
  /\ \A c \in Conds : x_count[c] = Cardinality(Waiting(c))

(* A permit is never left lying for the wrong thread: no semaphore exceeds  *)
(* 1, and a unit of x_sem or of next is there only while the thread it was  *)
(* released for has yet to reach its P().                                   *)
NoStrandedPermit ==
  /\ \A s \in Sems : value[s] <= 1
  /\ value[next] = 1 => \E p \in Procs : pc[p] = "s_block"
  /\ \A c \in Conds : value[c] = 1 => \E p \in Procs : pc[p] = "w_block" /\ cv[p] = c

AsleepOn(p, s) == \E i \in 1..Len(queue[s]) : queue[s][i] = p

(* Nobody sleeps on the entry queue or on the urgent queue while the        *)
(* monitor is free: some running thread is inside and will hand it on.      *)
NotWedged ==
  (\E p \in Procs : AsleepOn(p, mutex) \/ AsleepOn(p, next))
    => \E q \in Procs : state[q] = RUNNABLE /\ pc[q] # "out"

=============================================================================
