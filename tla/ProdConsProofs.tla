--------------------------- MODULE ProdConsProofs ---------------------------
(***************************************************************************)
(* Proofs about module ProdConsMonitor, for any finite sets of producers   *)
(* and consumers and any capacity: the buffer never overflows or           *)
(* underflows.                                                             *)
(*                                                                         *)
(* The argument: a thread tests the buffer once, and wait() returns to it  *)
(* without another test.  What the test would find travels with the        *)
(* monitor: from the signaller, which has seen the buffer change, through  *)
(* the unit of x_sem if the waiter has not reached its P() yet, to the     *)
(* waiter.  Nobody else has the monitor in between.                        *)
(***************************************************************************)
EXTENDS ProdConsMonitor, MonitorProofs

(* The condition a thread waits on, and the one it signals. *)
Own(p)   == IF p \in Producers THEN PRODUCER ELSE CONSUMER
Other(p) == IF p \in Producers THEN CONSUMER ELSE PRODUCER

(* What a thread that has waited on c relies on. *)
RoomFor(c) ==
  /\ c = PRODUCER => buffer_m < MAX
  /\ c = CONSUMER => buffer_m > 0

(* Where in the monitor's functions a thread can be at each statement. *)
Place(p) ==
  \/ at[p] = "enter" /\ pc[p] \in {"out", "l_vnext", "l_vmutex"}
  \/ at[p] \in {"test", "signal"} /\ pc[p] = "in"
  \/ at[p] = "change" /\ pc[p] \in {"w_inc"} \cup WaitLabels /\ cv[p] = Own(p)
  \/ at[p] = "leave" /\ pc[p] \in SignalLabels /\ cv[p] = Other(p)
  \/ at[p] \in {"change", "leave"} /\ pc[p] = "in"

(* A thread that is about to change the buffer, or has been woken to. *)
Cleared(p) == at[p] = "change" /\ pc[p] \in {"in", "w_done", "w_dec"} /\ state[p] = RUNNABLE

BufferInv ==
  /\ buffer_m \in 0..MAX
  /\ at \in [Procs -> {"enter", "test", "change", "signal", "leave"}]
  /\ \A p \in Procs : Place(p)
  /\ \A p \in Procs : pc[p] = "in" /\ state[p] = SLEEPING => at[p] = "test"
  /\ \A p \in Procs : Cleared(p) => RoomFor(Own(p))
  /\ \A p \in Procs : pc[p] \in {"s_count", "s_inc", "s_wake"} => RoomFor(Other(p))
  /\ \A c \in Conds : value[c] = 1 => RoomFor(c)

PCIInv == MonIInv /\ BufferInv

-----------------------------------------------------------------------------
(* The threads are producers or consumers, and each has its two conditions. *)
LEMMA Roles ==
  ASSUME NEW p \in Procs
  PROVE  /\ Own(p) \in Conds /\ Other(p) \in Conds /\ Own(p) # Other(p)
         /\ p \in Producers => Own(p) = PRODUCER /\ Other(p) = CONSUMER
         /\ p \in Consumers => Own(p) = CONSUMER /\ Other(p) = PRODUCER
         /\ p \in Producers \/ p \in Consumers
  BY ProdConsAssumption DEF Own, Other

(* What a step of thread p has to show for the others and for itself. *)
Local(p) ==
  /\ buffer_m' = buffer_m
  /\ \E b \in {"enter", "test", "change", "signal", "leave"} : at' = [at EXCEPT ![p] = b]
  /\ \A q \in Procs \ {p} : pc'[q] = pc[q] /\ cv'[q] = cv[q]

SelfOK(p) ==
  /\ Place(p)'
  /\ pc'[p] = "in" /\ state'[p] = SLEEPING => at'[p] = "test"
  /\ Cleared(p)' => RoomFor(Own(p))
  /\ pc'[p] \in {"s_count", "s_inc", "s_wake"} => RoomFor(Other(p))

LEMMA LocalStep ==
  ASSUME BufferInv, NEW p \in Procs, Local(p), SelfOK(p),
         \A q \in Procs \ {p} :
           \/ state'[q] = state[q]
           \/ state'[q] = RUNNABLE /\ (Cleared(q)' => RoomFor(Own(q))),
         \A c \in Conds : value'[c] = 1 => RoomFor(c)
  PROVE  BufferInv'
<1>1. /\ at' \in [Procs -> {"enter", "test", "change", "signal", "leave"}]
      /\ \A q \in Procs \ {p} : at'[q] = at[q] /\ pc'[q] = pc[q] /\ cv'[q] = cv[q]
      /\ buffer_m' = buffer_m
  BY DEF BufferInv, Local
<1>2. \A c : RoomFor(c)' <=> RoomFor(c)
  BY <1>1 DEF RoomFor
<1>3. \A q \in Procs \ {p} : Place(q)'
  BY <1>1 DEF BufferInv, Place
<1>4. ASSUME NEW q \in Procs \ {p}
      PROVE  /\ pc'[q] = "in" /\ state'[q] = SLEEPING => at'[q] = "test"
             /\ Cleared(q)' => RoomFor(Own(q))
             /\ pc'[q] \in {"s_count", "s_inc", "s_wake"} => RoomFor(Other(q))
  BY <1>1, <1>4 DEF BufferInv, Cleared, RUNNABLE, SLEEPING
<1>. QED  BY <1>1, <1>2, <1>3, <1>4 DEF BufferInv, SelfOK

(* Computing steps leave the semaphores and the sleepers alone. *)
LEMMA ComputeLocal ==
  ASSUME BufferInv, NEW p \in Procs, Local(p), SelfOK(p), UNCHANGED semVars
  PROVE  BufferInv'
  BY LocalStep DEF BufferInv, semVars

(* P() takes a unit, and so what the unit stands for. *)
LEMMA PLocal ==
  ASSUME MonIInv, BufferInv, NEW p \in Procs, NEW s \in Sems, Local(p), P(p, s),
         (state'[p] = RUNNABLE => value[s] = 1) => SelfOK(p)
  PROVE  BufferInv'
<1>0. /\ state \in [Procs -> {RUNNABLE, SLEEPING}] /\ value \in [Sems -> Int] /\ value[s] <= 1
      /\ Conds \subseteq Sems
  BY MonitorAssumption DEF MonIInv, MonTypes, SemTypeOK, OneToken
<1>1. state[p] = RUNNABLE /\ value' = [value EXCEPT ![s] = @ - 1]
  BY DEF P
<1>2. state'[p] = RUNNABLE => value[s] = 1
  <2>1. CASE value[s] - 1 < 0
    BY <1>0, <2>1 DEF P, RUNNABLE, SLEEPING
  <2>2. CASE ~(value[s] - 1 < 0)
    BY <1>0, <2>2
  <2>. QED  BY <2>1, <2>2
<1>3. \A q \in Procs \ {p} : state'[q] = state[q]
  BY <1>0 DEF P
<1>4. \A c \in Conds : value'[c] = 1 => value[c] = 1
  BY <1>0, <1>1
<1>. QED  BY <1>2, <1>3, <1>4, LocalStep DEF BufferInv

(* V() gives one, to the first sleeper or for the next P(). *)
LEMMA VLocal ==
  ASSUME MonIInv, BufferInv, NEW p \in Procs, NEW s \in Sems, Local(p), V(p, s), SelfOK(p),
         s \in Conds => RoomFor(s)
  PROVE  BufferInv'
<1>0. /\ state \in [Procs -> {RUNNABLE, SLEEPING}] /\ value \in [Sems -> Int] /\ value[s] <= 1
      /\ queue \in [Sems -> Seq(Procs)] /\ Conds \subseteq Sems
      /\ MonTypes /\ SleepersQueued /\ SleepPlaces
  BY MonitorAssumption DEF MonIInv, MonTypes, SemTypeOK, OneToken
<1>1. state[p] = RUNNABLE /\ value' = [value EXCEPT ![s] = @ + 1]
  BY DEF V
<1>2. \A c \in Conds : value'[c] = 1 => RoomFor(c)
  BY <1>0, <1>1 DEF BufferInv
<1>3. ASSUME NEW q \in Procs \ {p}, state'[q] # state[q]
      PROVE  state'[q] = RUNNABLE /\ (Cleared(q)' => RoomFor(Own(q)))
  <2>1. /\ queue[s] # <<>> /\ q = Head(queue[s])
        /\ state' = [state EXCEPT ![Head(queue[s])] = RUNNABLE]
    BY <1>0, <1>3 DEF V
  <2>2. queue[s] \in Seq(Procs) /\ 1 \in 1..Len(queue[s]) /\ q = queue[s][1]
    BY <1>0, <2>1
  <2>3. BlockedAt(q, s) /\ state[q] = SLEEPING
    BY <1>0, <2>2, QueuedSleeps DEF SleepPlaces
  <2>4. state'[q] = RUNNABLE
    BY <1>0, <2>1
  <2>5. pc'[q] = pc[q] /\ at'[q] = at[q]
    BY DEF Local, BufferInv
  <2>6. CASE s \in Conds
    <3>1. pc[q] = "w_done" /\ cv[q] = s
      BY <2>3, <2>6 DEF BlockedAt
    <3>2. Own(q) = s
      BY <3>1 DEF BufferInv, Place, SignalLabels, UrgentLabels
    <3>. QED  BY <2>4, <2>6, <3>2
  <2>7. CASE s = mutex
    <3>1. pc[q] = "in" /\ at[q] = "test"
      BY <2>3, <2>7 DEF BlockedAt, BufferInv
    <3>. QED  BY <2>4, <2>5, <3>1 DEF Cleared
  <2>8. CASE s = next
    <3>1. pc[q] = "s_done"
      BY <2>3, <2>8 DEF BlockedAt
    <3>. QED  BY <2>4, <2>5, <3>1 DEF Cleared
  <2>. QED  BY <2>6, <2>7, <2>8, MonitorAssumption
<1>. QED  BY <1>2, <1>3, LocalStep

-----------------------------------------------------------------------------
(* The statements of the monitor's functions after the first. *)
LEMMA InsideStep ==
  ASSUME MonIInv, BufferInv, NEW p \in Procs, InMonitor(p)
  PROVE  BufferInv'
<1>0. /\ MonTypes /\ HasCond /\ pc \in [Procs -> Labels]
      /\ cv \in [Procs -> Conds \cup {NoCond}]
      /\ mutex \in Sems /\ next \in Sems /\ Conds \subseteq Sems
      /\ mutex \notin Conds /\ next \notin Conds
  BY MonitorAssumption DEF MonIInv, MonTypes
<1>1. /\ at' = at /\ buffer_m' = buffer_m /\ at[p] \in {"enter", "test", "change", "signal", "leave"}
      /\ at' = [at EXCEPT ![p] = at[p]] /\ Place(p)
      /\ pc[p] \in {"s_count", "s_inc", "s_wake"} => RoomFor(Other(p))
      /\ Cleared(p) => RoomFor(Own(p))
      /\ \A c \in Conds : value[c] = 1 => RoomFor(c)
  BY DEF InMonitor, BufferInv
<1> USE DEF Step, WaitLabels, SignalLabels, UrgentLabels, RUNNABLE, SLEEPING
<1>2. CASE \/ WaitCount(p) \/ WaitTest(p) \/ WaitReload(p) \/ WaitDone(p)
          \/ SignalLoad(p) \/ SignalCount(p) \/ SignalReload(p) \/ SignalDone(p)
  <2>1. Local(p)
    BY <1>0, <1>1, <1>2
    DEF Local, WaitCount, WaitTest, WaitReload, WaitDone, SignalLoad, SignalCount,
        SignalReload, SignalDone
  <2>2. UNCHANGED semVars /\ state[p] = RUNNABLE /\ state' = state
    BY <1>2
    DEF WaitCount, WaitTest, WaitReload, WaitDone, SignalLoad, SignalCount,
        SignalReload, SignalDone, Compute, semVars
  <2>3. \/ pc[p] = "w_inc" /\ pc'[p] = "w_test" /\ cv' = cv
        \/ pc[p] = "w_test" /\ pc'[p] \in {"w_vnext", "w_vmutex"} /\ cv' = cv
        \/ pc[p] = "w_done" /\ pc'[p] = "w_dec" /\ cv' = cv
        \/ pc[p] = "w_dec" /\ pc'[p] = "in"
        \/ pc[p] = "s_count" /\ pc'[p] = "s_inc" /\ cv' = cv
        \/ pc[p] = "s_inc" /\ pc'[p] = "s_wake" /\ cv' = cv
        \/ pc[p] = "s_done" /\ pc'[p] = "s_dec" /\ cv' = cv
        \/ pc[p] = "s_dec" /\ pc'[p] = "in"
    BY <1>0, <1>2
    DEF WaitCount, WaitTest, WaitReload, WaitDone, SignalLoad, SignalCount,
        SignalReload, SignalDone
  <2>4. SelfOK(p)
    BY <1>1, <2>2, <2>3 DEF SelfOK, Place, Cleared
  <2>. QED  BY <2>1, <2>2, <2>4, ComputeLocal
<1>3. CASE WaitVNext(p) \/ WaitVMutex(p) \/ LeaveVNext(p) \/ LeaveVMutex(p)
  <2>1. Local(p)
    BY <1>0, <1>1, <1>3 DEF Local, WaitVNext, WaitVMutex, LeaveVNext, LeaveVMutex
  <2>2. PICK s \in {mutex, next} : V(p, s)
    BY <1>3 DEF WaitVNext, WaitVMutex, LeaveVNext, LeaveVMutex
  <2>3. \/ pc[p] \in {"w_vnext", "w_vmutex"} /\ pc'[p] = "w_block" /\ cv' = cv
        \/ pc[p] \in {"l_vnext", "l_vmutex"} /\ pc'[p] = "out"
    BY <1>0, <1>3 DEF WaitVNext, WaitVMutex, LeaveVNext, LeaveVMutex
  <2>4. SelfOK(p)
    BY <1>1, <2>3 DEF SelfOK, Place, Cleared
  <2>. QED  BY <1>0, <2>1, <2>2, <2>4, VLocal
<1>4. CASE SignalWake(p)
  <2>1. Local(p)
    BY <1>0, <1>1, <1>4 DEF Local, SignalWake
  <2>2. /\ V(p, cv[p]) /\ cv[p] \in Conds /\ cv' = cv
        /\ pc[p] = "s_wake" /\ pc'[p] = "s_block"
    BY <1>0, <1>4 DEF SignalWake, HasCond
  <2>3. cv[p] = Other(p) /\ at[p] = "leave"
    BY <1>1, <2>2 DEF Place
  <2>4. SelfOK(p)
    BY <1>1, <2>2, <2>3 DEF SelfOK, Place, Cleared
  <2>. QED  BY <1>0, <1>1, <2>1, <2>2, <2>3, <2>4, VLocal
<1>5. CASE SignalBlock(p)
  <2>1. Local(p)
    BY <1>0, <1>1, <1>5 DEF Local, SignalBlock
  <2>2. P(p, next) /\ cv' = cv /\ pc[p] = "s_block" /\ pc'[p] = "s_done"
    BY <1>0, <1>5 DEF SignalBlock
  <2>3. SelfOK(p)
    BY <1>1, <2>2 DEF SelfOK, Place, Cleared
  <2>. QED  BY <1>0, <2>1, <2>2, <2>3, PLocal
<1>6. CASE WaitBlock(p)
  <2>1. Local(p)
    BY <1>0, <1>1, <1>6 DEF Local, WaitBlock
  <2>2. /\ P(p, cv[p]) /\ cv[p] \in Conds /\ cv' = cv
        /\ pc[p] = "w_block" /\ pc'[p] = "w_done"
    BY <1>0, <1>6 DEF WaitBlock, HasCond
  <2>3. cv[p] = Own(p) /\ at[p] = "change"
    BY <1>1, <2>2 DEF Place
  <2>4. (state'[p] = RUNNABLE => value[cv[p]] = 1) => SelfOK(p)
    BY <1>1, <2>2, <2>3 DEF SelfOK, Place, Cleared
  <2>. QED  BY <1>0, <2>1, <2>2, <2>4, PLocal
<1>. QED  BY <1>2, <1>3, <1>4, <1>5, <1>6 DEF InMonitor, Inside

(* The five statements of a thread's own loop; full is its test before      *)
(* wait() and seen its test before signal().                                *)
LEMMA EnterLeaveStep ==
  ASSUME MonIInv, BufferInv, NEW p \in Procs, CallEnter(p) \/ CallLeave(p)
  PROVE  BufferInv'
<1>0. pc \in [Procs -> Labels] /\ mutex \in Sems /\ at \in [Procs -> {"enter", "test", "change", "signal", "leave"}]
  BY MonitorAssumption DEF MonIInv, MonTypes, BufferInv
<1>1. CASE CallEnter(p)
  <2>1. Local(p)
    BY <1>0, <1>1 DEF Local, CallEnter, To, Enter, Step
  <2>2. P(p, mutex) /\ pc'[p] = "in" /\ at'[p] = "test"
    BY <1>0, <1>1 DEF CallEnter, To, Enter, Step
  <2>3. SelfOK(p)
    BY <2>2 DEF SelfOK, Place, Cleared
  <2>. QED  BY <1>0, <2>1, <2>2, <2>3, PLocal
<1>2. CASE CallLeave(p)
  <2>1. Local(p)
    BY <1>0, <1>2 DEF Local, CallLeave, To, LeaveTest, Step
  <2>2. UNCHANGED semVars /\ pc'[p] \in {"l_vnext", "l_vmutex"} /\ at'[p] = "enter"
    BY <1>0, <1>2 DEF CallLeave, To, LeaveTest, Step, Compute
  <2>3. SelfOK(p)
    BY <2>2 DEF SelfOK, Place, Cleared
  <2>. QED  BY <2>1, <2>2, <2>3, ComputeLocal
<1>. QED  BY <1>1, <1>2

LEMMA WaitIfStep ==
  ASSUME MonIInv, BufferInv, NEW p \in Procs, NEW full \in BOOLEAN, WaitIf(p, full, Own(p)),
         ~full => RoomFor(Own(p))
  PROVE  BufferInv'
<1>0. /\ pc \in [Procs -> Labels] /\ cv \in [Procs -> Conds \cup {NoCond}]
      /\ at \in [Procs -> {"enter", "test", "change", "signal", "leave"}]
  BY DEF MonIInv, MonTypes, BufferInv
<1>1. /\ at' = [at EXCEPT ![p] = "change"] /\ at'[p] = "change" /\ buffer_m' = buffer_m
      /\ pc[p] = "in" /\ state[p] = RUNNABLE
  BY <1>0 DEF WaitIf, To, Body
<1>2. CASE full /\ WaitLoad(p, Own(p))
  <2>1. Local(p)
    BY <1>0, <1>1, <1>2 DEF Local, WaitLoad, Step
  <2>2. UNCHANGED semVars /\ pc'[p] = "w_inc" /\ cv'[p] = Own(p)
    BY <1>0, <1>2 DEF WaitLoad, Step, Compute
  <2>3. SelfOK(p)
    BY <1>1, <2>2 DEF SelfOK, Place, Cleared
  <2>. QED  BY <2>1, <2>2, <2>3, ComputeLocal
<1>3. CASE ~full /\ UNCHANGED monVars
  <2>1. UNCHANGED <<value, queue, state, pc, cv>>
    BY <1>3 DEF monVars
  <2>2. Local(p)
    BY <1>1, <2>1 DEF Local
  <2>3. SelfOK(p)
    BY <1>1, <1>3, <2>1 DEF SelfOK, Place, Cleared, RUNNABLE, SLEEPING
  <2>. QED  BY <2>1, <2>2, <2>3, ComputeLocal DEF semVars
<1>. QED  BY <1>2, <1>3 DEF WaitIf

LEMMA SignalIfStep ==
  ASSUME MonIInv, BufferInv, NEW p \in Procs, NEW seen \in BOOLEAN, SignalIf(p, seen, Other(p)),
         seen => RoomFor(Other(p))
  PROVE  BufferInv'
<1>0. /\ pc \in [Procs -> Labels] /\ cv \in [Procs -> Conds \cup {NoCond}]
      /\ at \in [Procs -> {"enter", "test", "change", "signal", "leave"}]
  BY DEF MonIInv, MonTypes, BufferInv
<1>1. /\ at' = [at EXCEPT ![p] = "leave"] /\ at'[p] = "leave" /\ buffer_m' = buffer_m
      /\ pc[p] = "in" /\ state[p] = RUNNABLE
  BY <1>0 DEF SignalIf, To, Body
<1>2. UNCHANGED <<value, queue, state>>
  BY DEF SignalIf, SignalTest, Compute, semVars, monVars
<1>3. Local(p)
  BY <1>0, <1>1 DEF Local, SignalIf, SignalTest, Step, monVars
<1>4. \/ pc'[p] = "in"
      \/ seen /\ pc'[p] = "s_count" /\ cv'[p] = Other(p)
  BY <1>0, <1>1 DEF SignalIf, SignalTest, Step, monVars
<1>5. SelfOK(p)
  BY <1>1, <1>2, <1>4 DEF SelfOK, Place, Cleared, SignalLabels, UrgentLabels, RUNNABLE, SLEEPING
<1>. QED  BY <1>2, <1>3, <1>5, ComputeLocal DEF semVars

(* Only the thread that has the monitor changes the buffer: nobody else can *)
(* be relying on it.                                                        *)
LEMMA ChangeStep ==
  ASSUME MonIInv, BufferInv, NEW p \in Procs, NEW d \in {1, -1}, ChangeBuffer(p, d),
         d = IF p \in Producers THEN 1 ELSE -1
  PROVE  BufferInv'
<1>0. /\ pc \in [Procs -> Labels] /\ MAX \in Nat /\ buffer_m \in 0..MAX
      /\ at \in [Procs -> {"enter", "test", "change", "signal", "leave"}]
      /\ MonTypes /\ SleepersQueued /\ SleepPlaces /\ OneToken /\ Conds \subseteq Sems
  BY ProdConsAssumption, MonitorAssumption DEF MonIInv, MonTypes, BufferInv
<1>1. /\ at[p] = "change" /\ at' = [at EXCEPT ![p] = "signal"] /\ buffer_m' = buffer_m + d
      /\ pc[p] = "in" /\ state[p] = RUNNABLE /\ UNCHANGED <<value, queue, state, pc, cv>>
  BY DEF ChangeBuffer, To, Body, monVars
<1>2. Active(p) /\ Cleared(p)
  BY <1>1 DEF Active, Cleared
<1>3. buffer_m' \in 0..MAX
  <2>1. RoomFor(Own(p))
    BY <1>2 DEF BufferInv
  <2>2. CASE p \in Producers
    BY <1>0, <1>1, <2>1, <2>2, Roles DEF RoomFor
  <2>3. CASE p \notin Producers
    <3>1. Own(p) = CONSUMER /\ d = -1
      BY <2>3, Roles
    <3>. QED  BY <1>0, <1>1, <2>1, <3>1 DEF RoomFor
  <2>. QED  BY <2>2, <2>3
<1>4. at'[p] = "signal" /\ \A q \in Procs \ {p} : at'[q] = at[q]
  BY <1>0, <1>1
<1>5. \A q \in Procs : Place(q)'
  BY <1>0, <1>1, <1>4 DEF BufferInv, Place
<1>6. \A q \in Procs : pc'[q] = "in" /\ state'[q] = SLEEPING => at'[q] = "test"
  BY <1>1, <1>4 DEF BufferInv, RUNNABLE, SLEEPING
<1>7. \A q \in Procs : ~Cleared(q)'
  <2> SUFFICES ASSUME NEW q \in Procs, Cleared(q)'  PROVE FALSE
    OBVIOUS
  <2>1. q # p /\ Active(q)
    BY <1>1, <1>4 DEF Cleared, Active
  <2>. QED  BY <1>0, <1>2, <2>1 DEF OneToken
<1>8. \A q \in Procs : pc'[q] \notin {"s_count", "s_inc", "s_wake"}
  BY <1>0, <1>1, <1>2, OthersNotTesting DEF ActingLabels
<1>9. \A c \in Conds : value'[c] # 1
  BY <1>0, <1>1, <1>2 DEF OneToken, MonTypes, SemTypeOK
<1>10. at' \in [Procs -> {"enter", "test", "change", "signal", "leave"}]
  BY <1>0, <1>1
<1>. QED  BY <1>3, <1>5, <1>6, <1>7, <1>8, <1>9, <1>10 DEF BufferInv

-----------------------------------------------------------------------------
LEMMA BufferStep ==
  ASSUME PCIInv, PCNext
  PROVE  BufferInv'
<1>0. MonIInv /\ BufferInv /\ MAX \in Nat /\ buffer_m \in 0..MAX
  BY ProdConsAssumption DEF PCIInv, BufferInv
<1>1. ASSUME NEW p \in Producers, producer_monitor(p)  PROVE BufferInv'
  <2>1. p \in Procs /\ Own(p) = PRODUCER /\ Other(p) = CONSUMER
    BY Roles, ProdConsAssumption
  <2>2. buffer_m # MAX => RoomFor(PRODUCER)
    BY <1>0, ProdConsAssumption DEF RoomFor
  <2>3. buffer_m = 1 => RoomFor(CONSUMER)
    BY ProdConsAssumption DEF RoomFor
  <2>4. CASE WaitIf(p, buffer_m = MAX, PRODUCER)
    BY <1>0, <2>1, <2>2, <2>4, WaitIfStep
  <2>5. CASE SignalIf(p, buffer_m = 1, CONSUMER)
    BY <1>0, <2>1, <2>3, <2>5, SignalIfStep
  <2>6. CASE ChangeBuffer(p, 1)
    BY <1>0, <2>1, <2>6, ChangeStep
  <2>. QED
    BY <1>0, <1>1, <2>1, <2>4, <2>5, <2>6, EnterLeaveStep, InsideStep DEF producer_monitor
<1>2. ASSUME NEW p \in Consumers, consumer_monitor(p)  PROVE BufferInv'
  <2>1. p \in Procs /\ p \notin Producers /\ Own(p) = CONSUMER /\ Other(p) = PRODUCER
    BY Roles, ProdConsAssumption
  <2>2. buffer_m # 0 => RoomFor(CONSUMER)
    BY <1>0, ProdConsAssumption DEF RoomFor
  <2>3. buffer_m = MAX - 1 => RoomFor(PRODUCER)
    BY <1>0, ProdConsAssumption DEF RoomFor
  <2>4. CASE WaitIf(p, buffer_m = 0, CONSUMER)
    BY <1>0, <2>1, <2>2, <2>4, WaitIfStep
  <2>5. CASE SignalIf(p, buffer_m = MAX - 1, PRODUCER)
    BY <1>0, <2>1, <2>3, <2>5, SignalIfStep
  <2>6. CASE ChangeBuffer(p, -1)
    BY <1>0, <2>1, <2>6, ChangeStep
  <2>. QED
    BY <1>0, <1>2, <2>1, <2>4, <2>5, <2>6, EnterLeaveStep, InsideStep DEF consumer_monitor
<1>. QED  BY <1>1, <1>2 DEF PCNext

(* The threads use the monitor by its functions only. *)
LEMMA MonitorUse == [PCNext]_pcVars => [MonNext]_monVars
<1>1. CASE UNCHANGED pcVars
  BY <1>1 DEF pcVars
<1>2. ASSUME NEW p \in Procs, NEW a, NEW b, NEW c \in Conds, NEW e \in Conds, NEW d,
             \/ CallEnter(p) \/ WaitIf(p, a, c) \/ ChangeBuffer(p, d)
             \/ SignalIf(p, b, e) \/ CallLeave(p) \/ InMonitor(p)
      PROVE  [MonNext]_monVars
  BY <1>2 DEF CallEnter, WaitIf, ChangeBuffer, SignalIf, CallLeave, InMonitor, MonNext
<1>3. ASSUME NEW p \in Producers, producer_monitor(p)  PROVE [MonNext]_monVars
  <2>1. p \in Procs /\ PRODUCER \in Conds /\ CONSUMER \in Conds
    BY ProdConsAssumption
  <2>. QED  BY <1>2, <1>3, <2>1 DEF producer_monitor
<1>4. ASSUME NEW p \in Consumers, consumer_monitor(p)  PROVE [MonNext]_monVars
  <2>1. p \in Procs /\ PRODUCER \in Conds /\ CONSUMER \in Conds
    BY ProdConsAssumption
  <2>. QED  BY <1>2, <1>4, <2>1 DEF consumer_monitor
<1>. QED  BY <1>1, <1>3, <1>4 DEF PCNext

(* The inductive invariant: that of the monitor, and what the threads know  *)
(* of the buffer.                                                           *)
THEOREM PCInvariant == PCSpec => []PCIInv
<1>1. ASSUME PCInit  PROVE PCIInv
  <2>1. MonIInv
    BY <1>1, MonInitInv DEF PCInit
  <2>2. /\ buffer_m = 0 /\ at = [p \in Procs |-> "enter"]
        /\ pc = [p \in Procs |-> "out"] /\ MAX \in Nat
        /\ \A c \in Conds : value[c] = 0
    BY <1>1, ProdConsAssumption, MonitorAssumption
    DEF PCInit, MonInit, monitor_init, semaphore_init
  <2>3. BufferInv
    BY <2>2 DEF BufferInv, Place, Cleared
  <2>. QED  BY <2>1, <2>3 DEF PCIInv
<1>2. ASSUME PCIInv, [PCNext]_pcVars  PROVE PCIInv'
  <2>1. MonIInv'
    BY <1>2, MonitorUse, MonStepInv DEF PCIInv
  <2>2. CASE PCNext
    BY <1>2, <2>1, <2>2, BufferStep DEF PCIInv
  <2>3. CASE UNCHANGED pcVars
    <3>1. UNCHANGED <<value, state, pc, cv, buffer_m, at>>
      BY <2>3 DEF pcVars, monVars
    <3>2. BufferInv'
      BY <1>2, <3>1 DEF PCIInv, BufferInv, Place, Cleared, RoomFor
    <3>. QED  BY <2>1, <3>2 DEF PCIInv
  <2>. QED  BY <1>2, <2>2, <2>3
<1>. QED  BY <1>1, <1>2, PTL DEF PCSpec

(* The buffer of productor_consumer.c never overflows or underflows,        *)
(* although no thread tests it again after wait() returns.                  *)
THEOREM PCBufferBounds == PCSpec => []BufferBounds
<1>1. PCIInv => BufferBounds
  BY DEF PCIInv, BufferInv, BufferBounds
<1>. QED  BY <1>1, PCInvariant, PTL

(* The threads are clients of the monitor: its theorems hold for them.      *)
THEOREM PCUsesMonitor == PCSpec => MonSpec
<1>1. PCInit => MonInit
  BY DEF PCInit
<1>. QED  BY <1>1, MonitorUse, PTL DEF PCSpec, MonSpec
=============================================================================
