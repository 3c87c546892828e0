--------------------------- MODULE ProdConsMonitor ---------------------------
(***************************************************************************)
(* The producer and consumer threads of productor_consumer.c that share    *)
(* buffer_m under a monitor.  Each tests the buffer with an `if', not a    *)
(* loop, before it changes it: that is right only because signal() hands   *)
(* the monitor directly to the thread it wakes.                            *)
(*                                                                         *)
(* at[p] is the statement of the thread's own loop; pc[p] of module        *)
(* Monitor is the statement of the monitor function it is in.              *)
(***************************************************************************)
EXTENDS Monitor

CONSTANTS
  Producers,  \* threads that run producer_monitor()
  Consumers,  \* threads that run consumer_monitor()
  MAX,        \* the capacity of the buffer: 5 in the code
  PRODUCER,   \* monitor.cvs[0]
  CONSUMER    \* monitor.cvs[1]

ASSUME ProdConsAssumption ==
  /\ Procs = Producers \cup Consumers
  /\ Producers \cap Consumers = {}
  /\ Conds = {PRODUCER, CONSUMER} /\ PRODUCER # CONSUMER
  /\ MAX \in Nat \ {0}

VARIABLES
  buffer_m,   \* the number of products in the buffer
  at          \* the next statement of each thread's loop

pcVars == <<monVars, buffer_m, at>>

(* test_monitor(): the monitor is initialised before the threads start. *)
PCInit ==
  /\ MonInit
  /\ buffer_m = 0
  /\ at = [p \in Procs |-> "enter"]

To(p, a, b) == at[p] = a /\ at' = [at EXCEPT ![p] = b]

(* A thread inside the monitor works on the buffer. *)
Body(p) == state[p] = RUNNABLE /\ pc[p] = "in"

CallEnter(p) ==
  /\ To(p, "enter", "test")
  /\ Enter(p)
  /\ UNCHANGED buffer_m

(* if(cond) wait(&c) *)
WaitIf(p, cond, c) ==
  /\ To(p, "test", "change")
  /\ Body(p)
  /\ \/ cond /\ WaitLoad(p, c)
     \/ ~cond /\ UNCHANGED monVars
  /\ UNCHANGED buffer_m

(* if(cond) signal(&c) *)
SignalIf(p, cond, c) ==
  /\ To(p, "signal", "leave")
  /\ Body(p)
  /\ \/ cond /\ SignalTest(p, c)
     \/ ~cond /\ UNCHANGED monVars
  /\ UNCHANGED buffer_m

CallLeave(p) ==
  /\ To(p, "leave", "enter")
  /\ LeaveTest(p)
  /\ UNCHANGED buffer_m

ChangeBuffer(p, d) ==
  /\ To(p, "change", "signal")
  /\ Body(p)
  /\ buffer_m' = buffer_m + d
  /\ UNCHANGED monVars

InMonitor(p) == Inside(p) /\ UNCHANGED <<buffer_m, at>>

(* The producer wakes the consumer one product too late. *)
producer_monitor_LateSignal(p) ==
  \/ CallEnter(p)
  \/ WaitIf(p, buffer_m = MAX, PRODUCER)
  \/ ChangeBuffer(p, 1)
  \/ SignalIf(p, buffer_m = 2, CONSUMER)
  \/ CallLeave(p)
  \/ InMonitor(p)

producer_monitor(p) ==
  \/ CallEnter(p)
  \/ WaitIf(p, buffer_m = MAX, PRODUCER)
  \/ ChangeBuffer(p, 1)
  \/ SignalIf(p, buffer_m = 1, CONSUMER)
  \/ CallLeave(p)
  \/ InMonitor(p)

(* The consumer tests the buffer for the wrong bound. *)
consumer_monitor_NoWait(p) ==
  \/ CallEnter(p)
  \/ WaitIf(p, buffer_m < 0, CONSUMER)
  \/ ChangeBuffer(p, -1)
  \/ SignalIf(p, buffer_m = MAX - 1, PRODUCER)
  \/ CallLeave(p)
  \/ InMonitor(p)

consumer_monitor(p) ==
  \/ CallEnter(p)
  \/ WaitIf(p, buffer_m = 0, CONSUMER)
  \/ ChangeBuffer(p, -1)
  \/ SignalIf(p, buffer_m = MAX - 1, PRODUCER)
  \/ CallLeave(p)
  \/ InMonitor(p)

PCNext ==
  \/ \E p \in Producers : producer_monitor(p)
  \/ \E p \in Consumers : consumer_monitor(p)

(* The timer interrupt calls schedule(), which goes round the threads: a    *)
(* thread that stays runnable gets the CPU.                                 *)
PCFairness ==
  /\ \A p \in Producers : WF_pcVars(producer_monitor(p))
  /\ \A p \in Consumers : WF_pcVars(consumer_monitor(p))

PCSpec == PCInit /\ [][PCNext]_pcVars /\ PCFairness

-----------------------------------------------------------------------------
(* The buffer neither overflows nor underflows, although the threads do not *)
(* test it again after wait() returns.                                      *)
BufferBounds == buffer_m \in 0..MAX

(* Every thread goes on producing or consuming for ever: no wake-up is lost *)
(* between the test of the buffer and the sleep, and no thread is overtaken *)
(* in the entry, urgent and condition queues for ever.                      *)
EveryThreadWorks == \A p \in Procs : []<>(at[p] = "change" /\ Body(p))

=============================================================================
