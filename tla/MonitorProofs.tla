---------------------------- MODULE MonitorProofs ----------------------------
(***************************************************************************)
(* Proofs about modules Semaphore, for any processes and semaphores, and   *)
(* Monitor, for any finite set of threads and any condition variables.     *)
(*                                                                         *)
(* Semaphore: the value and the queue of a semaphore agree, and exactly    *)
(* the sleeping processes are queued, once.                                *)
(*                                                                         *)
(* Monitor: having the monitor is a token.  It is held either by the       *)
(* one Active thread or as the one unit of some semaphore; P() takes it    *)
(* from a semaphore (or waits for it), V() puts it back or passes it to    *)
(* the thread it wakes, and every other statement is executed by its       *)
(* holder.  So all the counters are changed by one thread at a time.       *)
(***************************************************************************)
EXTENDS Monitor, FiniteSetTheorems, TLAPS

(* What P and V do to a queue, position by position. *)
LEMMA AppendFacts ==
  ASSUME NEW S, NEW q \in Seq(S), NEW x \in S
  PROVE  /\ Append(q, x) \in Seq(S)
         /\ Len(Append(q, x)) = Len(q) + 1
         /\ Len(q) \in Nat
         /\ \A i \in 1..Len(q) : Append(q, x)[i] = q[i]
         /\ Append(q, x)[Len(q) + 1] = x
  OBVIOUS

LEMMA TailFacts ==
  ASSUME NEW S, NEW q \in Seq(S), q # <<>>
  PROVE  /\ Tail(q) \in Seq(S)
         /\ Len(q) \in Nat \ {0}
         /\ Len(Tail(q)) = Len(q) - 1
         /\ Head(q) = q[1] /\ Head(q) \in S
         /\ \A i \in 1..Len(Tail(q)) : Tail(q)[i] = q[i + 1]
  OBVIOUS

-----------------------------------------------------------------------------
LEMMA SemTypeStep ==
  ASSUME SemTypeOK, [SemNext]_semVars
  PROVE  SemTypeOK'
<1>1. CASE UNCHANGED semVars
  BY <1>1 DEF SemTypeOK, semVars
<1>2. ASSUME NEW p \in Procs, NEW s \in Sems, P(p, s)
      PROVE  SemTypeOK'
  <2>1. Append(queue[s], p) \in Seq(Procs)
    BY AppendFacts DEF SemTypeOK
  <2>2. value' \in [Sems -> Int]
    BY <1>2 DEF SemTypeOK, P
  <2>3. queue' \in [Sems -> Seq(Procs)]
    BY <1>2, <2>1 DEF SemTypeOK, P
  <2>4. state' \in [Procs -> {RUNNABLE, SLEEPING}]
    BY <1>2 DEF SemTypeOK, P
  <2>. QED  BY <2>2, <2>3, <2>4 DEF SemTypeOK
<1>3. ASSUME NEW p \in Procs, NEW s \in Sems, V(p, s)
      PROVE  SemTypeOK'
  <2>1. CASE UNCHANGED <<queue, state>>
    BY <1>3, <2>1 DEF SemTypeOK, V
  <2>2. CASE /\ queue[s] # <<>>
             /\ state' = [state EXCEPT ![Head(queue[s])] = RUNNABLE]
             /\ queue' = [queue EXCEPT ![s] = Tail(@)]
    <3>1. queue[s] \in Seq(Procs)
      BY DEF SemTypeOK
    <3>2. Tail(queue[s]) \in Seq(Procs) /\ Head(queue[s]) \in Procs
      BY <2>2, <3>1, TailFacts
    <3>. QED  BY <1>3, <2>2, <3>2 DEF SemTypeOK, V, RUNNABLE, SLEEPING
  <2>. QED  BY <1>3, <2>1, <2>2 DEF V
<1>. QED  BY <1>1, <1>2, <1>3 DEF SemNext

(* P and V keep every semaphore's value and queue and every process's state *)
(* in their types.                                                          *)
THEOREM SemTypeCorrect == SemSpec => []SemTypeOK
<1>1. SemInit => SemTypeOK
  BY SemaphoreAssumption DEF SemInit, semaphore_init, SemTypeOK, RUNNABLE, SLEEPING
<1>2. SemTypeOK /\ [SemNext]_semVars => SemTypeOK'
  BY SemTypeStep
<1>. QED  BY <1>1, <1>2, PTL DEF SemSpec

-----------------------------------------------------------------------------
LEMMA QueueMatchesStep ==
  ASSUME SemTypeOK, QueueMatchesValue, [SemNext]_semVars
  PROVE  QueueMatchesValue'
<1>1. CASE UNCHANGED semVars
  BY <1>1 DEF QueueMatchesValue, semVars
<1>2. ASSUME NEW p \in Procs, NEW s \in Sems, P(p, s)
      PROVE  QueueMatchesValue'
  <2>1. /\ value[s] \in Int /\ queue[s] \in Seq(Procs)
        /\ Len(queue[s]) = (IF value[s] < 0 THEN -value[s] ELSE 0)
    BY DEF SemTypeOK, QueueMatchesValue
  <2>2. Len(Append(queue[s], p)) = Len(queue[s]) + 1
    BY <2>1, AppendFacts
  <2>. QED  BY <1>2, <2>1, <2>2 DEF SemTypeOK, QueueMatchesValue, P
<1>3. ASSUME NEW p \in Procs, NEW s \in Sems, V(p, s)
      PROVE  QueueMatchesValue'
  <2>1. /\ value[s] \in Int /\ queue[s] \in Seq(Procs)
        /\ Len(queue[s]) = (IF value[s] < 0 THEN -value[s] ELSE 0)
    BY DEF SemTypeOK, QueueMatchesValue
  <2>2. queue[s] # <<>> => Len(Tail(queue[s])) = Len(queue[s]) - 1
    BY <2>1, TailFacts
  <2>3. queue[s] = <<>> => Len(queue[s]) = 0
    OBVIOUS
  <2>. QED  BY <1>3, <2>1, <2>2, <2>3 DEF SemTypeOK, QueueMatchesValue, V
<1>. QED  BY <1>1, <1>2, <1>3 DEF SemNext

(* A negative value is exactly the number of queued processes, so V() never *)
(* takes the list head for a pcb.                                           *)
THEOREM SemQueueMatchesValue == SemSpec => []QueueMatchesValue
<1>1. SemInit => QueueMatchesValue
  BY SemaphoreAssumption DEF SemInit, semaphore_init, QueueMatchesValue
<1>2. SemTypeOK /\ QueueMatchesValue /\ [SemNext]_semVars => QueueMatchesValue'
  BY QueueMatchesStep
<1>. QED  BY <1>1, <1>2, SemTypeCorrect, PTL DEF SemSpec

-----------------------------------------------------------------------------
(* SleepersQueued in two halves, as they are used below. *)
Queued(p) == \E s \in Sems : \E i \in 1..Len(queue[s]) : queue[s][i] = p

OnePlace ==
  \A s1, s2 \in Sems : \A i \in 1..Len(queue[s1]), j \in 1..Len(queue[s2]) :
    queue[s1][i] = queue[s2][j] => s1 = s2 /\ i = j

LEMMA SleepersQueuedP ==
  ASSUME SemTypeOK, SleepersQueued, NEW p \in Procs, NEW s \in Sems, P(p, s)
  PROVE  SleepersQueued'
<1>1. CASE UNCHANGED <<queue, state>>
  BY <1>1 DEF SleepersQueued
<1>2. CASE /\ queue' = [queue EXCEPT ![s] = Append(@, p)]
           /\ state' = [state EXCEPT ![p] = SLEEPING]
  <2>0. /\ queue[s] \in Seq(Procs) /\ queue \in [Sems -> Seq(Procs)]
        /\ state \in [Procs -> {RUNNABLE, SLEEPING}]
        /\ Len(queue[s]) \in Nat
    BY DEF SemTypeOK
  <2>1. /\ queue'[s] = Append(queue[s], p)
        /\ \A r \in Sems \ {s} : queue'[r] = queue[r]
    BY <1>2, <2>0
  <2>2. /\ Len(queue'[s]) = Len(queue[s]) + 1
        /\ \A i \in 1..Len(queue[s]) : queue'[s][i] = queue[s][i]
        /\ queue'[s][Len(queue[s]) + 1] = p
    BY <2>0, <2>1, AppendFacts
  <2>a. ASSUME NEW r \in Sems, NEW i \in 1..Len(queue[r])
        PROVE  i \in 1..Len(queue'[r]) /\ queue'[r][i] = queue[r][i]
    <3>1. CASE r = s
      BY <2>0, <2>2, <3>1
    <3>2. CASE r # s
      BY <2>1, <3>2
    <3>. QED  BY <3>1, <3>2
  <2>b. ASSUME NEW r \in Sems, NEW i \in 1..Len(queue'[r])
        PROVE  \/ r = s /\ i = Len(queue[s]) + 1 /\ queue'[r][i] = p
               \/ i \in 1..Len(queue[r]) /\ queue'[r][i] = queue[r][i]
    <3>1. CASE r = s
      BY <2>0, <2>2, <3>1
    <3>2. CASE r # s
      BY <2>1, <3>2
    <3>. QED  BY <3>1, <3>2
  <2>3. \A r \in Sems : \A i \in 1..Len(queue[r]) : queue[r][i] # p
    BY DEF P, SleepersQueued, RUNNABLE, SLEEPING
  <2>4. \A q \in Procs : state'[q] = SLEEPING <=> Queued(q)'
    <3> SUFFICES ASSUME NEW q \in Procs
                 PROVE  state'[q] = SLEEPING <=> Queued(q)'
      OBVIOUS
    <3>1. CASE q = p
      BY <1>2, <2>0, <2>2, <3>1 DEF Queued
    <3>2. CASE q # p
      <4>1. state'[q] = state[q]
        BY <1>2, <2>0, <3>2
      <4>2. state[q] = SLEEPING <=> Queued(q)
        BY DEF SleepersQueued, Queued
      <4>3. Queued(q) => Queued(q)'
        <5> SUFFICES ASSUME NEW r \in Sems, NEW i \in 1..Len(queue[r]), queue[r][i] = q
                     PROVE  Queued(q)'
          BY DEF Queued
        <5>1. i \in 1..Len(queue'[r]) /\ queue'[r][i] = q
          BY <2>a
        <5>. QED  BY <5>1 DEF Queued
      <4>4. Queued(q)' => Queued(q)
        <5> SUFFICES ASSUME NEW r \in Sems, NEW i \in 1..Len(queue'[r]), queue'[r][i] = q
                     PROVE  Queued(q)
          BY DEF Queued
        <5>1. i \in 1..Len(queue[r]) /\ queue[r][i] = q
          BY <2>b, <3>2
        <5>. QED  BY <5>1 DEF Queued
      <4>. QED  BY <4>1, <4>2, <4>3, <4>4
    <3>. QED  BY <3>1, <3>2
  <2>5. OnePlace'
    <3> SUFFICES ASSUME NEW s1 \in Sems, NEW s2 \in Sems,
                        NEW i \in 1..Len(queue'[s1]), NEW j \in 1..Len(queue'[s2]),
                        queue'[s1][i] = queue'[s2][j]
                 PROVE  s1 = s2 /\ i = j
      BY DEF OnePlace
    <3>1. \/ s1 = s /\ i = Len(queue[s]) + 1 /\ queue'[s1][i] = p
          \/ i \in 1..Len(queue[s1]) /\ queue'[s1][i] = queue[s1][i]
      BY <2>b
    <3>2. \/ s2 = s /\ j = Len(queue[s]) + 1 /\ queue'[s2][j] = p
          \/ j \in 1..Len(queue[s2]) /\ queue'[s2][j] = queue[s2][j]
      BY <2>b
    <3>. QED  BY <2>3, <3>1, <3>2 DEF SleepersQueued
  <2>. QED  BY <2>4, <2>5 DEF SleepersQueued, Queued, OnePlace
<1>. QED  BY <1>1, <1>2 DEF P

LEMMA SleepersQueuedV ==
  ASSUME SemTypeOK, SleepersQueued, NEW p \in Procs, NEW s \in Sems, V(p, s)
  PROVE  SleepersQueued'
<1>1. CASE UNCHANGED <<queue, state>>
  BY <1>1 DEF SleepersQueued
<1>2. CASE /\ queue[s] # <<>>
           /\ state' = [state EXCEPT ![Head(queue[s])] = RUNNABLE]
           /\ queue' = [queue EXCEPT ![s] = Tail(@)]
  <2>0. /\ queue[s] \in Seq(Procs) /\ queue \in [Sems -> Seq(Procs)]
        /\ state \in [Procs -> {RUNNABLE, SLEEPING}]
    BY DEF SemTypeOK
  <2> DEFINE h == Head(queue[s])
  <2>1. /\ queue'[s] = Tail(queue[s])
        /\ \A r \in Sems \ {s} : queue'[r] = queue[r]
    BY <1>2, <2>0
  <2>2. /\ h = queue[s][1] /\ h \in Procs
        /\ Len(queue[s]) \in Nat \ {0}
        /\ Len(queue'[s]) = Len(queue[s]) - 1
        /\ \A i \in 1..Len(queue'[s]) : queue'[s][i] = queue[s][i + 1]
    BY <1>2, <2>0, <2>1, TailFacts
  <2> DEFINE k(r, n) == IF r = s THEN n + 1 ELSE n
  <2>b. ASSUME NEW r \in Sems, NEW i \in 1..Len(queue'[r])
        PROVE  /\ k(r, i) \in 1..Len(queue[r]) /\ queue'[r][i] = queue[r][k(r, i)]
               /\ i \in Nat /\ (r = s => k(r, i) # 1)
    <3>1. CASE r = s
      <4>1. i \in Nat /\ i >= 1 /\ i <= Len(queue[s]) - 1
        BY <2>2, <3>1
      <4>2. i + 1 \in 1..Len(queue[s]) /\ i + 1 # 1
        BY <2>2, <4>1
      <4>3. queue'[s][i] = queue[s][i + 1]
        BY <2>2, <3>1
      <4>. QED  BY <3>1, <4>1, <4>2, <4>3
    <3>2. CASE r # s
      BY <2>1, <3>2
    <3>. QED  BY <3>1, <3>2
  <2>3. \A r \in Sems : \A i \in 1..Len(queue[r]) :
          queue[r][i] = h => r = s /\ i = 1
    BY <2>2 DEF SleepersQueued
  <2> HIDE DEF h, k
  <2>4. \A q \in Procs : state'[q] = SLEEPING <=> Queued(q)'
    <3> SUFFICES ASSUME NEW q \in Procs
                 PROVE  state'[q] = SLEEPING <=> Queued(q)'
      OBVIOUS
    <3>1. CASE q = h
      <4>1. state'[q] = RUNNABLE
        BY <1>2, <2>0, <3>1 DEF h
      <4>2. ASSUME NEW r \in Sems, NEW i \in 1..Len(queue'[r]), queue'[r][i] = q
            PROVE  FALSE
        <5>1. k(r, i) \in 1..Len(queue[r]) /\ queue[r][k(r, i)] = h
          BY <2>b, <3>1, <4>2
        <5>2. r = s /\ k(r, i) = 1
          BY <2>3, <5>1
        <5>. QED  BY <2>b, <5>2
      <4>. QED  BY <4>1, <4>2 DEF Queued, RUNNABLE, SLEEPING
    <3>2. CASE q # h
      <4>1. state'[q] = state[q]
        BY <1>2, <2>0, <3>2 DEF h
      <4>2. state[q] = SLEEPING <=> Queued(q)
        BY DEF SleepersQueued, Queued
      <4>3. Queued(q) => Queued(q)'
        <5> SUFFICES ASSUME NEW r \in Sems, NEW i \in 1..Len(queue[r]), queue[r][i] = q
                     PROVE  Queued(q)'
          BY DEF Queued
        <5>1. CASE r = s
          <6>1. i - 1 \in 1..Len(queue'[s]) /\ queue'[s][i - 1] = q
            BY <2>2, <3>2, <5>1
          <6>. QED  BY <6>1 DEF Queued
        <5>2. CASE r # s
          BY <2>1, <5>2 DEF Queued
        <5>. QED  BY <5>1, <5>2
      <4>4. Queued(q)' => Queued(q)
        <5> SUFFICES ASSUME NEW r \in Sems, NEW i \in 1..Len(queue'[r]), queue'[r][i] = q
                     PROVE  Queued(q)
          BY DEF Queued
        <5>. QED  BY <2>b DEF Queued
      <4>. QED  BY <4>1, <4>2, <4>3, <4>4
    <3>. QED  BY <3>1, <3>2
  <2>5. OnePlace'
    <3> SUFFICES ASSUME NEW s1 \in Sems, NEW s2 \in Sems,
                        NEW i \in 1..Len(queue'[s1]), NEW j \in 1..Len(queue'[s2]),
                        queue'[s1][i] = queue'[s2][j]
                 PROVE  s1 = s2 /\ i = j
      BY DEF OnePlace
    <3>1. queue[s1][k(s1, i)] = queue[s2][k(s2, j)]
      BY <2>b
    <3>2. s1 = s2 /\ k(s1, i) = k(s2, j)
      BY <2>b, <3>1 DEF SleepersQueued
    <3>3. i \in Nat /\ j \in Nat
      BY <2>b
    <3>. QED  BY <3>2, <3>3 DEF k
  <2>. QED  BY <2>4, <2>5 DEF SleepersQueued, Queued, OnePlace
<1>. QED  BY <1>1, <1>2 DEF V

LEMMA SleepersQueuedStep ==
  ASSUME SemTypeOK, SleepersQueued, [SemNext]_semVars
  PROVE  SleepersQueued'
<1>1. UNCHANGED semVars => SleepersQueued'
  BY DEF SleepersQueued, semVars
<1>. QED  BY <1>1, SleepersQueuedP, SleepersQueuedV DEF SemNext

(* A process sleeps exactly while it is in a queue, in one place of one     *)
(* queue: no wake-up is lost or given twice.                                *)
THEOREM SemSleepersQueued == SemSpec => []SleepersQueued
<1>1. SemInit => SleepersQueued
  BY DEF SemInit, semaphore_init, SleepersQueued, RUNNABLE, SLEEPING
<1>2. SemTypeOK /\ SleepersQueued /\ [SemNext]_semVars => SleepersQueued'
  BY SleepersQueuedStep
<1>. QED  BY <1>1, <1>2, SemTypeCorrect, PTL DEF SemSpec

-----------------------------------------------------------------------------
(* P and V as their callers see them: what they do to the states, and that  *)
(* a queue gains at most the caller.                                        *)
LEMMA EffectOfP ==
  ASSUME SemTypeOK, NEW p \in Procs, NEW s \in Sems, P(p, s)
  PROVE  /\ state[p] = RUNNABLE
         /\ value'[s] = value[s] - 1
         /\ \A r \in Sems \ {s} : value'[r] = value[r]
         /\ \A q \in Procs \ {p} : state'[q] = state[q]
         /\ state'[p] = IF value[s] > 0 THEN RUNNABLE ELSE SLEEPING
         /\ \A r \in Sems : \A i \in 1..Len(queue'[r]) :
              \/ r = s /\ queue'[r][i] = p
              \/ \E j \in 1..Len(queue[r]) : queue'[r][i] = queue[r][j]
<1>1. value[s] \in Int /\ queue[s] \in Seq(Procs) /\ Len(queue[s]) \in Nat
  BY DEF SemTypeOK
<1>2. /\ state[p] = RUNNABLE
      /\ value'[s] = value[s] - 1
      /\ \A r \in Sems \ {s} : value'[r] = value[r]
  BY DEF SemTypeOK, P
<1>3. /\ \A q \in Procs \ {p} : state'[q] = state[q]
      /\ state'[p] = IF value[s] > 0 THEN RUNNABLE ELSE SLEEPING
  <2>1. CASE value[s] - 1 < 0
    BY <1>1, <2>1 DEF SemTypeOK, P
  <2>2. CASE value[s] - 1 >= 0
    BY <1>1, <2>2 DEF SemTypeOK, P
  <2>. QED  BY <1>1, <2>1, <2>2
<1>4. ASSUME NEW r \in Sems, NEW i \in 1..Len(queue'[r])
      PROVE  \/ r = s /\ queue'[r][i] = p
             \/ \E j \in 1..Len(queue[r]) : queue'[r][i] = queue[r][j]
  <2>1. CASE r # s \/ queue' = queue
    <3>1. queue'[r] = queue[r]
      BY <2>1 DEF SemTypeOK, P
    <3>. QED  BY <3>1
  <2>2. CASE r = s /\ queue' # queue
    <3>1. queue'[s] = Append(queue[s], p)
      BY <2>2 DEF SemTypeOK, P
    <3>2. i \in 1..(Len(queue[s]) + 1)
      BY <1>1, <2>2, <3>1, AppendFacts
    <3>3. CASE i = Len(queue[s]) + 1
      BY <1>1, <2>2, <3>1, <3>3, AppendFacts
    <3>4. CASE i \in 1..Len(queue[s])
      BY <1>1, <2>2, <3>1, <3>4, AppendFacts
    <3>. QED  BY <1>1, <3>2, <3>3, <3>4
  <2>. QED  BY <2>1, <2>2
<1>. QED  BY <1>2, <1>3, <1>4

LEMMA EffectOfV ==
  ASSUME SemTypeOK, QueueMatchesValue, NEW p \in Procs, NEW s \in Sems, V(p, s)
  PROVE  /\ state[p] = RUNNABLE
         /\ value'[s] = value[s] + 1
         /\ \A r \in Sems \ {s} : value'[r] = value[r]
         /\ value[s] >= 0 => state' = state
         /\ value[s] < 0 => \E h \in Procs :
              /\ \E i \in 1..Len(queue[s]) : queue[s][i] = h
              /\ state' = [state EXCEPT ![h] = RUNNABLE]
         /\ \A r \in Sems : \A i \in 1..Len(queue'[r]) :
              \E j \in 1..Len(queue[r]) : queue'[r][i] = queue[r][j]
<1>1. /\ value[s] \in Int /\ queue[s] \in Seq(Procs)
      /\ Len(queue[s]) = (IF value[s] < 0 THEN -value[s] ELSE 0)
  BY DEF SemTypeOK, QueueMatchesValue
<1>2. /\ state[p] = RUNNABLE
      /\ value'[s] = value[s] + 1
      /\ \A r \in Sems \ {s} : value'[r] = value[r]
  BY DEF SemTypeOK, V
<1>3. CASE value[s] >= 0
  <2>1. queue' = queue /\ state' = state
    BY <1>1, <1>3 DEF V
  <2>. QED  BY <1>1, <1>2, <1>3, <2>1
<1>4. CASE value[s] < 0
  <2>1. queue[s] # <<>>
    BY <1>1, <1>4
  <2>2. /\ state' = [state EXCEPT ![Head(queue[s])] = RUNNABLE]
        /\ queue' = [queue EXCEPT ![s] = Tail(@)]
    BY <1>1, <1>4, <2>1 DEF V
  <2>3. /\ Head(queue[s]) = queue[s][1] /\ Head(queue[s]) \in Procs
        /\ Len(queue[s]) \in Nat \ {0}
        /\ Len(Tail(queue[s])) = Len(queue[s]) - 1
        /\ \A i \in 1..Len(Tail(queue[s])) : Tail(queue[s])[i] = queue[s][i + 1]
    BY <1>1, <2>1, TailFacts
  <2>4. ASSUME NEW r \in Sems, NEW i \in 1..Len(queue'[r])
        PROVE  \E j \in 1..Len(queue[r]) : queue'[r][i] = queue[r][j]
    <3>1. CASE r # s
      BY <2>2, <3>1 DEF SemTypeOK
    <3>2. CASE r = s
      <4>1. queue'[r] = Tail(queue[s])
        BY <2>2, <3>2 DEF SemTypeOK
      <4>2. i + 1 \in 1..Len(queue[s])
        BY <2>3, <4>1
      <4>3. queue'[r][i] = queue[s][i + 1]
        BY <2>3, <4>1
      <4>. QED  BY <3>2, <4>2, <4>3
    <3>. QED  BY <3>1, <3>2
  <2>5. \E i \in 1..Len(queue[s]) : queue[s][i] = Head(queue[s])
    BY <2>3
  <2>6. \E h \in Procs :
          /\ \E i \in 1..Len(queue[s]) : queue[s][i] = h
          /\ state' = [state EXCEPT ![h] = RUNNABLE]
    BY <2>2, <2>3, <2>5, Zenon
  <2>7. ~(value[s] >= 0)
    BY <1>1, <1>4
  <2>. QED  BY <1>2, <2>4, <2>6, <2>7, Zenon
<1>. QED  BY <1>1, <1>3, <1>4

-----------------------------------------------------------------------------
(* The monitor. *)
ActiveLabels == Labels \ {"out", "w_block", "s_block"}

MonTypes ==
  /\ SemTypeOK
  /\ next_count \in Int
  /\ x_count \in [Conds -> Int]
  /\ pc \in [Procs -> Labels]
  /\ cv \in [Procs -> Conds \cup {NoCond}]
  /\ reg \in [Procs -> Int]

(* wait() and signal() know their condition. *)
HasCond ==
  \A p \in Procs : pc[p] \in {"w_inc"} \cup WaitLabels \cup SignalLabels => cv[p] \in Conds

(* Where a thread that sleeps on s was put to sleep. *)
BlockedAt(p, s) ==
  /\ s = mutex => pc[p] = "in"
  /\ s = next => pc[p] = "s_done"
  /\ s \in Conds => pc[p] = "w_done" /\ cv[p] = s

SleepPlaces == \A s \in Sems : \A i \in 1..Len(queue[s]) : BlockedAt(queue[s][i], s)

(* At most one token, and at least one. *)
OneToken ==
  /\ \A p, q \in Procs : Active(p) /\ Active(q) => p = q
  /\ \A s \in Sems : value[s] <= 1
  /\ \A s, t \in Sems : value[s] = 1 /\ value[t] = 1 => s = t
  /\ \A p \in Procs, s \in Sems : Active(p) => value[s] <= 0

SomeToken == (\E p \in Procs : Active(p)) \/ (\E s \in Sems : value[s] = 1)

(* What the tests in wait(), signal() and leave() found, and what their     *)
(* loads of a counter read, still holds when the thread acts on it.         *)
TestsHold ==
  \A p \in Procs :
    /\ pc[p] \in {"w_vnext", "l_vnext"} => next_count > 0
    /\ pc[p] \in {"w_vmutex", "l_vmutex"} => next_count = 0
    /\ pc[p] \in {"s_count", "s_inc", "s_wake"} => x_count[cv[p]] > 0
    /\ pc[p] \in {"w_inc", "w_dec"} => reg[p] = x_count[cv[p]]
    /\ pc[p] \in {"s_inc", "s_dec"} => reg[p] = next_count

(* The statements that act on such a test or load. *)
ActingLabels ==
  {"w_vnext", "l_vnext", "w_vmutex", "l_vmutex", "s_count", "s_wake",
   "w_inc", "w_dec", "s_inc", "s_dec"}

(* The entry lock is released only when no signaller waits. *)
FreeIfNoUrgent == value[mutex] = 1 => next_count = 0

MonIInv ==
  /\ MonTypes
  /\ QueueMatchesValue
  /\ SleepersQueued
  /\ HasCond
  /\ SleepPlaces
  /\ OneToken
  /\ SomeToken
  /\ CountsExact
  /\ TestsHold
  /\ NoStrandedPermit
  /\ FreeIfNoUrgent

-----------------------------------------------------------------------------
(* The three kinds of statements: a computation of the thread that has the  *)
(* monitor, a P(), and a V().                                               *)
MovesTo(p, b) ==
  /\ pc' = [pc EXCEPT ![p] = b]
  /\ \A q \in Procs \ {p} : cv'[q] = cv[q]

(* The statements that load or store a counter or set the condition. *)
CounterStep(p) ==
  \/ \E c \in Conds : WaitLoad(p, c) \/ SignalTest(p, c)
  \/ WaitCount(p) \/ WaitReload(p) \/ WaitDone(p)
  \/ SignalLoad(p) \/ SignalCount(p) \/ SignalReload(p) \/ SignalDone(p)

ComputeStep(p) ==
  /\ Active(p)
  /\ UNCHANGED semVars
  /\ \E b \in ActiveLabels : MovesTo(p, b)

PStep(p, s) ==
  /\ P(p, s)
  /\ pc[p] \notin ActiveLabels
  /\ \E b \in ActiveLabels : MovesTo(p, b)
  /\ cv' = cv
  /\ BlockedAt(p, s)'

VStep(p, s) ==
  /\ V(p, s)
  /\ pc[p] \in ActiveLabels
  /\ \E b \in Labels \ ActiveLabels : MovesTo(p, b)
  /\ cv' = cv

LEMMA ComputeKind ==
  ASSUME MonTypes, NEW p \in Procs, CounterStep(p) \/ LeaveTest(p) \/ WaitTest(p)
  PROVE  ComputeStep(p)
<1> USE DEF MonTypes, ComputeStep, MovesTo, Active, ActiveLabels, Labels, WaitLabels,
            SignalLabels, UrgentLabels, LeaveLabels, Compute, Step
<1>1. ASSUME NEW c \in Conds, WaitLoad(p, c)  PROVE ComputeStep(p)
  BY <1>1 DEF WaitLoad
<1>2. ASSUME NEW c \in Conds, SignalTest(p, c)  PROVE ComputeStep(p)
  BY <1>2 DEF SignalTest
<1>3. ASSUME LeaveTest(p)  PROVE ComputeStep(p)
  BY <1>3 DEF LeaveTest
<1>4. ASSUME WaitTest(p)  PROVE ComputeStep(p)
  BY <1>4 DEF WaitTest
<1>5. ASSUME WaitCount(p) \/ WaitReload(p)  PROVE ComputeStep(p)
  BY <1>5 DEF WaitCount, WaitReload
<1>6. ASSUME WaitDone(p)  PROVE ComputeStep(p)
  BY <1>6 DEF WaitDone
<1>7. ASSUME SignalLoad(p) \/ SignalCount(p) \/ SignalReload(p)  PROVE ComputeStep(p)
  BY <1>7 DEF SignalLoad, SignalCount, SignalReload
<1>8. ASSUME SignalDone(p)  PROVE ComputeStep(p)
  BY <1>8 DEF SignalDone
<1>. QED  BY <1>1, <1>2, <1>3, <1>4, <1>5, <1>6, <1>7, <1>8 DEF CounterStep

LEMMA PKind ==
  ASSUME MonTypes, HasCond, NEW p \in Procs
  PROVE  /\ Enter(p) => PStep(p, mutex)
         /\ WaitBlock(p) => cv[p] \in Conds /\ PStep(p, cv[p])
         /\ SignalBlock(p) => PStep(p, next)
<1> USE MonitorAssumption
        DEF MonTypes, PStep, MovesTo, ActiveLabels, Labels, WaitLabels,
            SignalLabels, UrgentLabels, LeaveLabels, BlockedAt, Step
<1>1. Enter(p) => PStep(p, mutex)
  BY DEF Enter
<1>2. WaitBlock(p) => cv[p] \in Conds /\ PStep(p, cv[p])
  BY DEF WaitBlock, HasCond
<1>3. SignalBlock(p) => PStep(p, next)
  BY DEF SignalBlock
<1>. QED  BY <1>1, <1>2, <1>3

LEMMA VKind ==
  ASSUME MonTypes, HasCond, NEW p \in Procs
  PROVE  /\ WaitVNext(p) \/ LeaveVNext(p) => VStep(p, next)
         /\ WaitVMutex(p) \/ LeaveVMutex(p) => VStep(p, mutex)
         /\ SignalWake(p) => cv[p] \in Conds /\ VStep(p, cv[p])
<1> USE MonitorAssumption
        DEF MonTypes, VStep, MovesTo, ActiveLabels, Labels, WaitLabels,
            SignalLabels, UrgentLabels, LeaveLabels, Step
<1>1. WaitVNext(p) \/ LeaveVNext(p) => VStep(p, next)
  BY DEF WaitVNext, LeaveVNext
<1>2. WaitVMutex(p) \/ LeaveVMutex(p) => VStep(p, mutex)
  BY DEF WaitVMutex, LeaveVMutex
<1>3. SignalWake(p) => cv[p] \in Conds /\ VStep(p, cv[p])
  BY DEF SignalWake, HasCond
<1>. QED  BY <1>1, <1>2, <1>3

-----------------------------------------------------------------------------
(* A thread in a queue is asleep, so it is not the one that steps. *)
LEMMA QueuedSleeps ==
  ASSUME MonTypes, SleepersQueued, NEW s \in Sems, NEW i \in 1..Len(queue[s])
  PROVE  queue[s][i] \in Procs /\ state[queue[s][i]] = SLEEPING
<1>1. queue[s][i] \in Procs
  BY DEF MonTypes, SemTypeOK
<1>. QED  BY <1>1 DEF SleepersQueued

LEMMA OthersStay ==
  ASSUME MonTypes, NEW p \in Procs, NEW q \in Procs \ {p}, NEW b, MovesTo(p, b)
  PROVE  pc'[q] = pc[q] /\ cv'[q] = cv[q] /\ pc'[p] = b
BY DEF MonTypes, MovesTo

LEMMA SleepPlacesStep ==
  ASSUME MonTypes, QueueMatchesValue, SleepersQueued, SleepPlaces, NEW p \in Procs,
         \/ ComputeStep(p)
         \/ \E s \in Sems : PStep(p, s) \/ VStep(p, s)
  PROVE  SleepPlaces'
<1>0. SemTypeOK
  BY DEF MonTypes
<1>1. PICK b : MovesTo(p, b)
  BY DEF ComputeStep, PStep, VStep
<1>2. state[p] = RUNNABLE
  BY DEF ComputeStep, PStep, VStep, P, V, Active
<1>3. ASSUME NEW r \in Sems, NEW q, NEW j \in 1..Len(queue[r]), queue[r][j] = q
      PROVE  BlockedAt(q, r)'
  <2>1. q \in Procs \ {p}
    BY <1>2, <1>3, QueuedSleeps DEF RUNNABLE, SLEEPING
  <2>2. BlockedAt(q, r)
    BY <1>3 DEF SleepPlaces
  <2>3. pc'[q] = pc[q] /\ cv'[q] = cv[q]
    BY <1>1, <2>1, OthersStay
  <2>. QED  BY <2>2, <2>3 DEF BlockedAt
<1>4. SUFFICES ASSUME NEW r \in Sems, NEW i \in 1..Len(queue'[r]), NEW q, queue'[r][i] = q
               PROVE  BlockedAt(q, r)'
  BY DEF SleepPlaces, BlockedAt
<1>5. CASE ComputeStep(p)
  BY <1>3, <1>4, <1>5 DEF ComputeStep, semVars
<1>6. ASSUME NEW s \in Sems, PStep(p, s)
      PROVE  BlockedAt(q, r)'
  <2>1. P(p, s) /\ BlockedAt(p, s)'
    BY <1>6 DEF PStep
  <2>2. \/ r = s /\ q = p
        \/ \E j \in 1..Len(queue[r]) : q = queue[r][j]
    BY <1>0, <1>4, <2>1, EffectOfP
  <2>. QED  BY <1>3, <2>1, <2>2 DEF BlockedAt
<1>7. ASSUME NEW s \in Sems, VStep(p, s)
      PROVE  BlockedAt(q, r)'
  <2>1. V(p, s)
    BY <1>7 DEF VStep
  <2>2. \E j \in 1..Len(queue[r]) : q = queue[r][j]
    BY <1>0, <1>4, <2>1, EffectOfV
  <2>. QED  BY <1>3, <2>2
<1>. QED  BY <1>5, <1>6, <1>7

(* A step of the token's holder that touches no semaphore leaves it there. *)
LEMMA TokenCompute ==
  ASSUME MonTypes, OneToken, SomeToken, NEW p \in Procs, ComputeStep(p)
  PROVE  OneToken' /\ SomeToken'
<1>1. PICK b \in ActiveLabels : MovesTo(p, b)
  BY DEF ComputeStep
<1>2. UNCHANGED <<value, state>>
  BY DEF ComputeStep, semVars
<1>3. \A q \in Procs : Active(q)' <=> Active(q)
  <2>1. Active(p) /\ Active(p)'
    BY <1>1, <1>2 DEF ComputeStep, Active, MovesTo, MonTypes, ActiveLabels
  <2>2. ASSUME NEW q \in Procs \ {p}
        PROVE  Active(q)' <=> Active(q)
    BY <1>1, <1>2, OthersStay DEF Active
  <2>. QED  BY <2>1, <2>2
<1>. QED  BY <1>2, <1>3 DEF OneToken, SomeToken

(* P() takes the token from the semaphore, or leaves it where it is. *)
LEMMA TokenP ==
  ASSUME MonTypes, OneToken, SomeToken, NEW p \in Procs, NEW s \in Sems, PStep(p, s)
  PROVE  OneToken' /\ SomeToken'
<1>0. SemTypeOK /\ P(p, s)
  BY DEF MonTypes, PStep
<1>1. PICK b \in ActiveLabels : MovesTo(p, b)
  BY DEF PStep
<1>2. /\ value'[s] = value[s] - 1
      /\ \A r \in Sems \ {s} : value'[r] = value[r]
      /\ \A q \in Procs \ {p} : state'[q] = state[q]
      /\ state'[p] = IF value[s] > 0 THEN RUNNABLE ELSE SLEEPING
  BY <1>0, EffectOfP
<1>3. ~Active(p)
  BY DEF PStep, Active, ActiveLabels, MonTypes
<1>4. \A q \in Procs \ {p} : Active(q)' <=> Active(q)
  <2> SUFFICES ASSUME NEW q \in Procs \ {p}
               PROVE  Active(q)' <=> Active(q)
    OBVIOUS
  <2>. QED  BY <1>1, <1>2, OthersStay DEF Active
<1>5. Active(p)' <=> value[s] > 0
  BY <1>1, <1>2 DEF Active, MovesTo, MonTypes, ActiveLabels, RUNNABLE, SLEEPING
<1>6. \A r \in Sems : value[r] \in Int /\ value[r] <= 1
  BY <1>0 DEF SemTypeOK, OneToken
<1>7. CASE value[s] > 0
  <2>1. value[s] = 1 /\ value'[s] = 0
    BY <1>2, <1>6, <1>7
  <2>2. \A q \in Procs : ~Active(q)
    BY <2>1 DEF OneToken
  <2>3. \A r \in Sems : value'[r] <= 0
    <3> SUFFICES ASSUME NEW r \in Sems \ {s}  PROVE value'[r] <= 0
      BY <2>1
    <3>1. value[r] # 1
      BY <2>1 DEF OneToken
    <3>. QED  BY <1>2, <1>6, <3>1
  <2>4. \A r \in Sems : value'[r] <= 1 /\ value'[r] # 1
    BY <1>2, <1>6, <2>1, <2>3
  <2>. QED  BY <1>4, <1>5, <1>7, <2>2, <2>3, <2>4 DEF OneToken, SomeToken
<1>8. CASE value[s] <= 0
  <2>1. ~Active(p)' /\ \A q \in Procs : Active(q)' <=> Active(q)
    BY <1>3, <1>4, <1>5, <1>6, <1>8
  <2>2. \A r \in Sems :
          /\ value'[r] <= 1
          /\ value'[r] = 1 <=> value[r] = 1
          /\ value[r] <= 0 => value'[r] <= 0
    BY <1>2, <1>6, <1>8
  <2>. QED  BY <2>1, <2>2 DEF OneToken, SomeToken
<1>. QED  BY <1>6, <1>7, <1>8

(* V() returns the token to the semaphore, or gives it to the thread it     *)
(* wakes, which was put to sleep on its way into the monitor.               *)
LEMMA TokenV ==
  ASSUME MonTypes, QueueMatchesValue, SleepersQueued, SleepPlaces, OneToken,
         NEW p \in Procs, NEW s \in Sems, VStep(p, s)
  PROVE  OneToken' /\ SomeToken'
<1>0. SemTypeOK /\ V(p, s)
  BY DEF MonTypes, VStep
<1>1. PICK b \in Labels \ ActiveLabels : MovesTo(p, b)
  BY DEF VStep
<1>2. /\ state[p] = RUNNABLE
      /\ value'[s] = value[s] + 1
      /\ \A r \in Sems \ {s} : value'[r] = value[r]
  BY <1>0, EffectOfV
<1>3. Active(p) /\ ~Active(p)'
  BY <1>1, <1>2 DEF VStep, Active, MovesTo, MonTypes, ActiveLabels
<1>4. \A r \in Sems : value[r] \in Int /\ value[r] <= 0
  BY <1>0, <1>3 DEF SemTypeOK, OneToken
<1>5. \A q \in Procs \ {p} : ~Active(q) /\ pc'[q] = pc[q]
  BY <1>1, <1>3, OthersStay DEF OneToken
<1>6. CASE value[s] >= 0
  <2>1. state' = state
    BY <1>0, <1>6, EffectOfV
  <2>2. \A q \in Procs : ~Active(q)'
    BY <1>3, <1>5, <2>1 DEF Active
  <2>3. value'[s] = 1 /\ \A r \in Sems \ {s} : value'[r] <= 0 /\ value'[r] # 1
    BY <1>2, <1>4, <1>6
  <2>4. \A r \in Sems : value'[r] <= 1
    BY <1>2, <1>4, <2>3
  <2>. QED  BY <2>2, <2>3, <2>4 DEF OneToken, SomeToken
<1>7. CASE value[s] < 0
  <2>1. PICK h \in Procs :
          /\ \E i \in 1..Len(queue[s]) : queue[s][i] = h
          /\ state' = [state EXCEPT ![h] = RUNNABLE]
    BY <1>0, <1>7, EffectOfV
  <2>2. state[h] = SLEEPING /\ BlockedAt(h, s)
    BY <2>1, QueuedSleeps DEF SleepPlaces
  <2>3. h # p
    BY <1>2, <2>2 DEF RUNNABLE, SLEEPING
  <2>4. Active(h)'
    <3>1. pc[h] \in {"in", "s_done", "w_done"}
      BY <2>2, MonitorAssumption DEF BlockedAt
    <3>2. pc'[h] = pc[h] /\ state'[h] = RUNNABLE
      BY <1>0, <1>5, <2>1, <2>3 DEF SemTypeOK
    <3>. QED  BY <3>1, <3>2 DEF Active
  <2>5. \A q \in Procs \ {h} : ~Active(q)'
    BY <1>0, <1>3, <1>5, <2>1 DEF Active, SemTypeOK
  <2>6. \A r \in Sems : value'[r] <= 0 /\ value'[r] <= 1 /\ value'[r] # 1
    BY <1>2, <1>4, <1>7
  <2>. QED  BY <2>4, <2>5, <2>6 DEF OneToken, SomeToken
<1>. QED  BY <1>4, <1>6, <1>7

-----------------------------------------------------------------------------
(* How the number of threads in signal() and in wait() changes when p moves *)
(* to statement b.                                                          *)

LEMMA FiniteCounts ==
  /\ IsFiniteSet(Signalling) /\ Cardinality(Signalling) \in Nat
  /\ \A c : IsFiniteSet(Waiting(c)) /\ Cardinality(Waiting(c)) \in Nat
<1>1. IsFiniteSet(Procs)
  BY SemaphoreAssumption
<1>2. Signalling \in SUBSET Procs /\ \A c : Waiting(c) \in SUBSET Procs
  BY DEF Signalling, Waiting
<1>3. IsFiniteSet(Signalling) /\ \A c : IsFiniteSet(Waiting(c))
  BY <1>1, <1>2, FS_Subset
<1>. QED  BY <1>3, FS_CardinalityType

LEMMA SignallingStep ==
  ASSUME MonTypes, NEW p \in Procs, NEW b, MovesTo(p, b)
  PROVE  Cardinality(Signalling)' =
           IF pc[p] \in UrgentLabels
           THEN IF b \in UrgentLabels THEN Cardinality(Signalling)
                                      ELSE Cardinality(Signalling) - 1
           ELSE IF b \in UrgentLabels THEN Cardinality(Signalling) + 1
                                      ELSE Cardinality(Signalling)
<1>1. p \in Signalling <=> pc[p] \in UrgentLabels
  BY DEF Signalling, UrgentLabels
<1>2. CASE b \in UrgentLabels
  <2>1. Signalling' = Signalling \cup {p}
    BY <1>2 DEF Signalling, UrgentLabels, MovesTo, MonTypes
  <2>. QED  BY <1>1, <1>2, <2>1, FiniteCounts, FS_AddElement
<1>3. CASE b \notin UrgentLabels
  <2>1. Signalling' = Signalling \ {p}
    BY <1>3 DEF Signalling, UrgentLabels, MovesTo, MonTypes
  <2>. QED  BY <1>1, <1>3, <2>1, FiniteCounts, FS_RemoveElement
<1>. QED  BY <1>2, <1>3

LEMMA WaitingStep ==
  ASSUME MonTypes, NEW p \in Procs, NEW b, MovesTo(p, b), NEW c
  PROVE  LET was == pc[p] \in WaitLabels /\ cv[p] = c
             is  == b \in WaitLabels /\ cv'[p] = c
         IN  Cardinality(Waiting(c))' =
               IF was THEN IF is THEN Cardinality(Waiting(c))
                                 ELSE Cardinality(Waiting(c)) - 1
                      ELSE IF is THEN Cardinality(Waiting(c)) + 1
                                 ELSE Cardinality(Waiting(c))
<1> DEFINE was == pc[p] \in WaitLabels /\ cv[p] = c
           is  == b \in WaitLabels /\ cv'[p] = c
<1>1. p \in Waiting(c) <=> was
  BY DEF Waiting
<1>2. CASE is
  <2>1. Waiting(c)' = Waiting(c) \cup {p}
    BY <1>2 DEF Waiting, MovesTo, MonTypes
  <2>. QED  BY <1>1, <1>2, <2>1, FiniteCounts, FS_AddElement
<1>3. CASE ~is
  <2>1. Waiting(c)' = Waiting(c) \ {p}
    BY <1>3 DEF Waiting, MovesTo, MonTypes
  <2>. QED  BY <1>1, <1>3, <2>1, FiniteCounts, FS_RemoveElement
<1>. QED  BY <1>2, <1>3

-----------------------------------------------------------------------------
(* Only at these statements can a thread be asleep. *)
LEMMA AsleepWhere ==
  ASSUME MonTypes, SleepersQueued, SleepPlaces, NEW q \in Procs, state[q] = SLEEPING
  PROVE  \E s \in Sems : /\ BlockedAt(q, s)
                         /\ pc[q] \in {"in", "s_done", "w_done"}
                         /\ Len(queue[s]) > 0
<1>1. PICK s \in Sems : \E i \in 1..Len(queue[s]) : queue[s][i] = q
  BY DEF SleepersQueued
<1>2. BlockedAt(q, s)
  BY <1>1 DEF SleepPlaces
<1>3. Len(queue[s]) > 0
  BY <1>1 DEF MonTypes, SemTypeOK
<1>4. pc[q] \in {"in", "s_done", "w_done"}
  BY <1>2, MonitorAssumption DEF BlockedAt
<1>. QED  BY <1>2, <1>3, <1>4

LEMMA ActiveAt ==
  ASSUME MonTypes, SleepersQueued, SleepPlaces, NEW q \in Procs,
         pc[q] \in ActiveLabels \ {"in", "s_done", "w_done"}
  PROVE  Active(q)
<1>1. state[q] # SLEEPING
  BY AsleepWhere
<1>2. state[q] = RUNNABLE
  BY <1>1 DEF MonTypes, SemTypeOK
<1>. QED  BY <1>2 DEF Active, ActiveLabels

(* When p takes a computing step, no other thread is acting on a test or    *)
(* holds a counter in a register.                                           *)
LEMMA OthersNotTesting ==
  ASSUME MonTypes, SleepersQueued, SleepPlaces, OneToken,
         NEW p \in Procs, Active(p), NEW q \in Procs \ {p}
  PROVE  pc[q] \notin ActingLabels
<1>1. ~Active(q)
  BY DEF OneToken
<1>. QED
  BY <1>1, ActiveAt
  DEF ActingLabels, ActiveLabels, Labels, WaitLabels, SignalLabels, UrgentLabels, LeaveLabels

-----------------------------------------------------------------------------
(* A permit put into `next' or x_sem is for a thread on its way to it. *)
LEMMA UrgentOnItsWay ==
  ASSUME MonTypes, QueueMatchesValue, SleepersQueued, SleepPlaces, OneToken, CountsExact,
         NEW p \in Procs, Active(p), pc[p] \notin UrgentLabels,
         next_count > 0, value[next] = 0
  PROVE  \E q \in Procs \ {p} : pc[q] = "s_block"
<1>1. Signalling # {}
  BY FiniteCounts, FS_EmptySet DEF CountsExact
<1>2. PICK q \in Procs : pc[q] \in UrgentLabels
  BY <1>1 DEF Signalling, UrgentLabels
<1>3. q # p /\ ~Active(q)
  BY <1>2 DEF OneToken
<1>4. CASE state[q] = RUNNABLE
  BY <1>2, <1>3, <1>4 DEF Active, UrgentLabels
<1>5. CASE state[q] = SLEEPING
  <2>1. PICK s \in Sems :
          /\ BlockedAt(q, s) /\ Len(queue[s]) > 0
          /\ pc[q] \in {"in", "s_done", "w_done"}
    BY <1>5, AsleepWhere
  <2>2. s = next
    BY <1>2, <2>1, MonitorAssumption DEF BlockedAt, UrgentLabels
  <2>. QED  BY <2>1, <2>2 DEF QueueMatchesValue
<1>. QED  BY <1>4, <1>5 DEF MonTypes, SemTypeOK

LEMMA WaiterOnItsWay ==
  ASSUME MonTypes, QueueMatchesValue, SleepersQueued, SleepPlaces, OneToken, CountsExact,
         NEW p \in Procs, Active(p), pc[p] \notin WaitLabels,
         NEW c \in Conds, x_count[c] > 0, value[c] = 0
  PROVE  \E q \in Procs \ {p} : pc[q] = "w_block" /\ cv[q] = c
<1>1. Waiting(c) # {}
  BY FiniteCounts, FS_EmptySet DEF CountsExact
<1>2. PICK q \in Procs : pc[q] \in WaitLabels /\ cv[q] = c
  BY <1>1 DEF Waiting
<1>3. q # p /\ ~Active(q)
  BY <1>2 DEF OneToken
<1>4. CASE state[q] = RUNNABLE
  BY <1>2, <1>3, <1>4 DEF Active, WaitLabels
<1>5. CASE state[q] = SLEEPING
  <2>1. PICK s \in Sems :
          /\ BlockedAt(q, s) /\ Len(queue[s]) > 0
          /\ pc[q] \in {"in", "s_done", "w_done"}
    BY <1>5, AsleepWhere
  <2>2. s = c
    BY <1>2, <2>1, MonitorAssumption DEF BlockedAt, WaitLabels
  <2>. QED  BY <2>1, <2>2 DEF QueueMatchesValue
<1>. QED  BY <1>4, <1>5 DEF MonTypes, SemTypeOK

-----------------------------------------------------------------------------
(* The part of the invariant that depends only on the kind of the step. *)
LEMMA KindStep ==
  ASSUME MonIInv, NEW p \in Procs,
         \/ ComputeStep(p)
         \/ \E s \in Sems : PStep(p, s) \/ VStep(p, s)
  PROVE  /\ SemTypeOK' /\ QueueMatchesValue' /\ SleepersQueued'
         /\ SleepPlaces' /\ OneToken' /\ SomeToken'
<1> USE DEF MonIInv
<1>1. [SemNext]_semVars
  BY DEF ComputeStep, PStep, VStep, SemNext
<1>2. SemTypeOK' /\ QueueMatchesValue' /\ SleepersQueued'
  BY <1>1, SemTypeStep, QueueMatchesStep, SleepersQueuedStep DEF MonTypes
<1>3. SleepPlaces'
  BY SleepPlacesStep
<1>4. OneToken' /\ SomeToken'
  BY TokenCompute, TokenP, TokenV
<1>. QED  BY <1>2, <1>3, <1>4

(* Types, conditions and counters when no counter changes and p stays in    *)
(* the function it is in.                                                   *)
DataInv ==
  /\ next_count \in Int
  /\ x_count \in [Conds -> Int]
  /\ pc \in [Procs -> Labels]
  /\ cv \in [Procs -> Conds \cup {NoCond}]
  /\ reg \in [Procs -> Int]
  /\ HasCond
  /\ CountsExact

LEMMA DataUnchanged ==
  ASSUME MonIInv, NEW p \in Procs, NEW b \in Labels, MovesTo(p, b),
         UNCHANGED <<next_count, x_count, cv>>, reg' \in [Procs -> Int],
         b \in UrgentLabels <=> pc[p] \in UrgentLabels,
         b \in WaitLabels <=> pc[p] \in WaitLabels,
         b \in SignalLabels => pc[p] \in SignalLabels, b # "w_inc"
  PROVE  DataInv'
<1>1. MonTypes /\ HasCond /\ CountsExact
  BY DEF MonIInv
<1>2. pc' \in [Procs -> Labels]
  BY <1>1 DEF MovesTo, MonTypes
<1>3. HasCond'
  BY <1>1 DEF HasCond, MovesTo, MonTypes
<1>4. Cardinality(Signalling)' = Cardinality(Signalling)
  BY <1>1, SignallingStep
<1>5. \A c \in Conds : Cardinality(Waiting(c))' = Cardinality(Waiting(c))
  BY <1>1, WaitingStep
<1>6. CountsExact'
  BY <1>1, <1>4, <1>5 DEF CountsExact
<1>. QED  BY <1>1, <1>2, <1>3, <1>6 DEF DataInv, MonTypes

(* The statements that load or store a counter or set the condition: what   *)
(* a store writes is one more or less than the counter itself, because the  *)
(* loaded value still is its value.                                         *)
LEMMA DataChanged ==
  ASSUME MonIInv, NEW p \in Procs, CounterStep(p)
  PROVE  DataInv'
<1>0. MonTypes /\ HasCond /\ CountsExact /\ TestsHold
  BY DEF MonIInv
<1>r. reg' \in [Procs -> Int]
  <2>1. \A n \in Int : Load(p, n) => reg' \in [Procs -> Int]
    BY <1>0 DEF Load, MonTypes
  <2>2. Stored(p) => reg' \in [Procs -> Int]
    BY <1>0 DEF Stored, MonTypes
  <2>3. \A c \in Conds : x_count[c] \in Int
    BY <1>0 DEF MonTypes
  <2>4. pc[p] = "w_done" => cv[p] \in Conds
    BY <1>0 DEF HasCond, WaitLabels
  <2>5. next_count \in Int /\ reg \in [Procs -> Int]
    BY <1>0 DEF MonTypes
  <2>. QED
    BY <2>1, <2>2, <2>3, <2>4, <2>5
    DEF CounterStep, WaitLoad, SignalTest, WaitCount, WaitReload, WaitDone, SignalLoad,
        SignalCount, SignalReload, SignalDone, Step, counts
<1> USE DEF WaitLabels, SignalLabels, LeaveLabels, Labels, UrgentLabels
<1>a. ASSUME NEW c \in Conds, WaitLoad(p, c)  PROVE DataInv'
  <2>1. MovesTo(p, "w_inc") /\ pc[p] = "in" /\ UNCHANGED <<next_count, x_count>>
        /\ cv' = [cv EXCEPT ![p] = c]
    BY <1>0, <1>a DEF WaitLoad, MovesTo, Step, MonTypes
  <2>2. pc' \in [Procs -> Labels] /\ cv' \in [Procs -> Conds \cup {NoCond}]
    BY <1>0, <2>1 DEF MonTypes, MovesTo
  <2>3. HasCond'
    BY <1>0, <2>1 DEF HasCond, MonTypes, MovesTo
  <2>4. Cardinality(Signalling)' = Cardinality(Signalling)
    BY <1>0, <2>1, SignallingStep
  <2>5. \A d \in Conds : Cardinality(Waiting(d))' = Cardinality(Waiting(d))
    BY <1>0, <2>1, WaitingStep
  <2>6. CountsExact'
    BY <1>0, <2>1, <2>4, <2>5 DEF CountsExact
  <2>. QED  BY <1>0, <1>r, <2>1, <2>2, <2>3, <2>6 DEF DataInv, MonTypes
<1>b. ASSUME WaitReload(p) \/ SignalLoad(p) \/ SignalReload(p)  PROVE DataInv'
  <2>1. PICK b \in {"w_dec", "s_inc", "s_dec"} :
          /\ MovesTo(p, b) /\ UNCHANGED <<next_count, x_count, cv>>
          /\ \/ b = "w_dec" /\ pc[p] = "w_done"
             \/ b = "s_inc" /\ pc[p] = "s_count"
             \/ b = "s_dec" /\ pc[p] = "s_done"
    BY <1>0, <1>b DEF WaitReload, SignalLoad, SignalReload, Step, MovesTo
  <2>. QED  BY <1>r, <2>1, DataUnchanged
<1>1. ASSUME WaitCount(p)  PROVE DataInv'
  <2> DEFINE c == cv[p]
  <2>0. pc[p] = "w_inc" /\ c \in Conds /\ reg[p] = x_count[c]
    BY <1>0, <1>1 DEF WaitCount, Step, HasCond, TestsHold
  <2>1. MovesTo(p, "w_test") /\ UNCHANGED <<next_count, cv>>
        /\ x_count' = [x_count EXCEPT ![c] = @ + 1]
    BY <1>0, <1>1, <2>0 DEF WaitCount, MovesTo, Step, MonTypes
  <2>2. x_count' \in [Conds -> Int] /\ pc' \in [Procs -> Labels]
    BY <1>0, <2>0, <2>1 DEF MonTypes, MovesTo
  <2>3. HasCond'
    BY <1>0, <2>0, <2>1 DEF HasCond, MonTypes, MovesTo
  <2>4. Cardinality(Signalling)' = Cardinality(Signalling)
    BY <1>0, <2>0, <2>1, SignallingStep
  <2>5. \A d \in Conds : Cardinality(Waiting(d))' =
          IF d = c THEN Cardinality(Waiting(d)) + 1 ELSE Cardinality(Waiting(d))
    BY <1>0, <2>0, <2>1, WaitingStep
  <2>6. CountsExact'
    BY <1>0, <2>0, <2>1, <2>4, <2>5 DEF CountsExact, MonTypes
  <2>. QED  BY <1>0, <1>r, <2>1, <2>2, <2>3, <2>6 DEF DataInv, MonTypes
<1>2. ASSUME NEW c \in Conds, SignalTest(p, c)  PROVE DataInv'
  <2>1. UNCHANGED <<next_count, x_count>> /\ pc[p] = "in"
    BY <1>2 DEF SignalTest, Step, counts
  <2>2. PICK b \in {"in", "s_count"} :
          MovesTo(p, b) /\ (b = "s_count" => cv' = [cv EXCEPT ![p] = c])
                        /\ (b = "in" => cv' = cv)
    BY <1>0, <1>2 DEF SignalTest, Step, MovesTo, MonTypes
  <2>3. pc' \in [Procs -> Labels] /\ cv' \in [Procs -> Conds \cup {NoCond}]
    BY <1>0, <2>2 DEF MonTypes, MovesTo
  <2>4. HasCond'
    BY <1>0, <2>2 DEF HasCond, MonTypes, MovesTo
  <2>5. Cardinality(Signalling)' = Cardinality(Signalling)
    BY <1>0, <2>1, <2>2, SignallingStep
  <2>6. \A d \in Conds : Cardinality(Waiting(d))' = Cardinality(Waiting(d))
    BY <1>0, <2>1, <2>2, WaitingStep
  <2>7. CountsExact'
    BY <1>0, <2>1, <2>5, <2>6 DEF CountsExact
  <2>. QED  BY <1>0, <1>r, <2>1, <2>3, <2>4, <2>7 DEF DataInv, MonTypes
<1>3. ASSUME WaitDone(p)  PROVE DataInv'
  <2>2. pc[p] = "w_dec" /\ cv[p] \in Conds /\ reg[p] = x_count[cv[p]]
    BY <1>0, <1>3 DEF WaitDone, Step, HasCond, TestsHold
  <2>1. MovesTo(p, "in") /\ pc[p] = "w_dec" /\ next_count' = next_count
        /\ cv' = [cv EXCEPT ![p] = NoCond] /\ x_count' = [x_count EXCEPT ![cv[p]] = @ - 1]
    BY <1>0, <1>3, <2>2 DEF WaitDone, MovesTo, Step, MonTypes
  <2>3. /\ next_count' \in Int /\ x_count' \in [Conds -> Int]
        /\ pc' \in [Procs -> Labels] /\ cv' \in [Procs -> Conds \cup {NoCond}]
    BY <1>0, <2>1, <2>2 DEF MonTypes, MovesTo
  <2>4. HasCond'
    BY <1>0, <2>1 DEF HasCond, MonTypes, MovesTo
  <2>5. Cardinality(Signalling)' = Cardinality(Signalling)
    BY <1>0, <2>1, SignallingStep
  <2>6. \A d \in Conds : Cardinality(Waiting(d))' =
          IF d = cv[p] THEN Cardinality(Waiting(d)) - 1 ELSE Cardinality(Waiting(d))
    BY <1>0, <2>1, WaitingStep
  <2>7. CountsExact'
    BY <1>0, <2>1, <2>2, <2>5, <2>6 DEF CountsExact, MonTypes
  <2>. QED  BY <1>r, <2>3, <2>4, <2>7 DEF DataInv
<1>4. ASSUME SignalCount(p)  PROVE DataInv'
  <2>1. MovesTo(p, "s_wake") /\ pc[p] = "s_inc" /\ next_count' = next_count + 1
        /\ UNCHANGED <<cv, x_count>>
    BY <1>0, <1>4 DEF SignalCount, MovesTo, Step, MonTypes, TestsHold
  <2>2. next_count' \in Int /\ pc' \in [Procs -> Labels]
    BY <1>0, <2>1 DEF MonTypes, MovesTo
  <2>3. HasCond'
    BY <1>0, <2>1 DEF HasCond, MonTypes, MovesTo
  <2>4. Cardinality(Signalling)' = Cardinality(Signalling) + 1
    BY <1>0, <2>1, SignallingStep
  <2>5. \A d \in Conds : Cardinality(Waiting(d))' = Cardinality(Waiting(d))
    BY <1>0, <2>1, WaitingStep
  <2>6. CountsExact'
    BY <1>0, <2>1, <2>4, <2>5 DEF CountsExact
  <2>. QED  BY <1>0, <1>r, <2>1, <2>2, <2>3, <2>6 DEF DataInv, MonTypes
<1>5. ASSUME SignalDone(p)  PROVE DataInv'
  <2>1. MovesTo(p, "in") /\ pc[p] = "s_dec" /\ next_count' = next_count - 1
        /\ cv' = [cv EXCEPT ![p] = NoCond] /\ UNCHANGED x_count
    BY <1>0, <1>5 DEF SignalDone, MovesTo, Step, MonTypes, TestsHold
  <2>2. /\ next_count' \in Int /\ pc' \in [Procs -> Labels]
        /\ cv' \in [Procs -> Conds \cup {NoCond}]
    BY <1>0, <2>1 DEF MonTypes, MovesTo
  <2>3. HasCond'
    BY <1>0, <2>1 DEF HasCond, MonTypes, MovesTo
  <2>4. Cardinality(Signalling)' = Cardinality(Signalling) - 1
    BY <1>0, <2>1, SignallingStep
  <2>5. \A d \in Conds : Cardinality(Waiting(d))' = Cardinality(Waiting(d))
    BY <1>0, <2>1, WaitingStep
  <2>6. CountsExact'
    BY <1>0, <2>1, <2>4, <2>5 DEF CountsExact
  <2>. QED  BY <1>0, <1>r, <2>1, <2>2, <2>3, <2>6 DEF DataInv, MonTypes
<1>. QED  BY <1>a, <1>b, <1>1, <1>2, <1>3, <1>4, <1>5 DEF CounterStep

-----------------------------------------------------------------------------
(* The part of the invariant that says why the statements are right. *)
TokenUse == TestsHold /\ NoStrandedPermit /\ FreeIfNoUrgent

LEMMA UseCompute ==
  ASSUME MonIInv, NEW p \in Procs, OneToken', CounterStep(p) \/ LeaveTest(p) \/ WaitTest(p)
  PROVE  TokenUse'
<1>0. /\ MonTypes /\ OneToken /\ TestsHold /\ NoStrandedPermit
      /\ HasCond /\ CountsExact
  BY DEF MonIInv
<1>1. ComputeStep(p)
  BY <1>0, ComputeKind
<1>2. PICK b \in ActiveLabels : MovesTo(p, b)
  BY <1>1 DEF ComputeStep
<1>3. Active(p) /\ UNCHANGED <<value, queue, state>>
  BY <1>1 DEF ComputeStep, semVars
<1>4. \A q \in Procs \ {p} : pc'[q] = pc[q] /\ cv'[q] = cv[q]
  BY <1>0, <1>2, OthersStay
<1>5. ASSUME NEW q \in Procs \ {p}
      PROVE  pc'[q] \notin ActingLabels
  BY <1>3, <1>4, OthersNotTesting DEF MonIInv
<1>6. /\ pc'[p] \in {"w_vnext", "l_vnext"} => next_count' > 0
      /\ pc'[p] \in {"w_vmutex", "l_vmutex"} => next_count' = 0
      /\ pc'[p] \in {"s_count", "s_inc", "s_wake"} => x_count'[cv'[p]] > 0
      /\ pc'[p] \in {"w_inc", "w_dec"} => reg'[p] = x_count'[cv'[p]]
      /\ pc'[p] \in {"s_inc", "s_dec"} => reg'[p] = next_count'
  <2>0. /\ next_count \in Nat /\ pc \in [Procs -> Labels]
        /\ cv \in [Procs -> Conds \cup {NoCond}] /\ reg \in [Procs -> Int]
    BY <1>0, FiniteCounts DEF CountsExact, MonTypes
  <2>1. ASSUME NEW c \in Conds, WaitLoad(p, c)
        PROVE  pc'[p] = "w_inc" /\ reg'[p] = x_count'[cv'[p]]
    BY <2>0, <2>1 DEF WaitLoad, Load, Step
  <2>2. ASSUME NEW c \in Conds, SignalTest(p, c)
        PROVE  pc'[p] = "in" \/ (pc'[p] = "s_count" /\ x_count'[cv'[p]] > 0)
    BY <2>0, <2>2 DEF SignalTest, Step, counts
  <2>3. ASSUME LeaveTest(p)
        PROVE  \/ pc'[p] = "l_vnext" /\ next_count' > 0
               \/ pc'[p] = "l_vmutex" /\ next_count' = 0
    BY <2>0, <2>3 DEF LeaveTest, Step, counts
  <2>4. ASSUME WaitTest(p)
        PROVE  \/ pc'[p] = "w_vnext" /\ next_count' > 0
               \/ pc'[p] = "w_vmutex" /\ next_count' = 0
    BY <2>0, <2>4 DEF WaitTest, Step, counts
  <2>5. ASSUME WaitCount(p) \/ WaitDone(p) \/ SignalDone(p)  PROVE pc'[p] \in {"w_test", "in"}
    BY <2>0, <2>5 DEF WaitCount, WaitDone, SignalDone, Step
  <2>6. ASSUME SignalCount(p)  PROVE pc'[p] = "s_wake" /\ x_count'[cv'[p]] > 0
    BY <1>0, <2>0, <2>6 DEF SignalCount, Step, TestsHold
  <2>7. ASSUME SignalLoad(p)
        PROVE  pc'[p] = "s_inc" /\ x_count'[cv'[p]] > 0 /\ reg'[p] = next_count'
    BY <1>0, <2>0, <2>7 DEF SignalLoad, Load, Step, TestsHold
  <2>8. ASSUME WaitReload(p)  PROVE pc'[p] = "w_dec" /\ reg'[p] = x_count'[cv'[p]]
    BY <2>0, <2>8 DEF WaitReload, Load, Step
  <2>9. ASSUME SignalReload(p)  PROVE pc'[p] = "s_dec" /\ reg'[p] = next_count'
    BY <2>0, <2>9 DEF SignalReload, Load, Step
  <2>. QED  BY <2>1, <2>2, <2>3, <2>4, <2>5, <2>6, <2>7, <2>8, <2>9 DEF CounterStep
<1>7. TestsHold'
  BY <1>5, <1>6 DEF TestsHold, ActingLabels
<1>8. pc[p] # "s_block" /\ pc[p] # "w_block"
  BY <1>3 DEF Active
<1>9. NoStrandedPermit'
  BY <1>0, <1>3, <1>4, <1>8 DEF NoStrandedPermit
<1>10. FreeIfNoUrgent'
  <2>1. value[mutex] \in Int /\ value[mutex] <= 0
    BY <1>0, <1>3, MonitorAssumption DEF OneToken, MonTypes, SemTypeOK
  <2>. QED  BY <1>3, <2>1 DEF FreeIfNoUrgent
<1>. QED  BY <1>7, <1>9, <1>10 DEF TokenUse

(* P() and V() are no tests: what earlier tests found is untouched. *)
LEMMA TestsStay ==
  ASSUME MonTypes, TestsHold, NEW p \in Procs, UNCHANGED <<counts, cv>>,
         NEW b \in {"in", "w_done", "s_done", "w_block", "s_block", "out"}, MovesTo(p, b)
  PROVE  TestsHold'
<1>1. UNCHANGED <<next_count, x_count, cv, reg>> /\ pc'[p] = b
  BY DEF counts, MovesTo, MonTypes
<1>2. \A q \in Procs \ {p} : pc'[q] = pc[q]
  BY OthersStay
<1>. QED  BY <1>1, <1>2 DEF TestsHold

LEMMA UseP ==
  ASSUME MonIInv, NEW p \in Procs, OneToken',
         Enter(p) \/ WaitBlock(p) \/ SignalBlock(p)
  PROVE  TokenUse'
<1>0. MonTypes /\ OneToken /\ TestsHold /\ NoStrandedPermit /\ FreeIfNoUrgent /\ HasCond
  BY DEF MonIInv
<1>1. PICK s \in Sems :
        /\ P(p, s)
        /\ pc[p] = "s_block" => s = next
        /\ pc[p] = "w_block" => s = cv[p]
  BY <1>0, MonitorAssumption DEF Enter, WaitBlock, SignalBlock, Step, HasCond, WaitLabels
<1>2. UNCHANGED <<counts, cv>>
  BY DEF Enter, WaitBlock, SignalBlock
<1>3. PICK b \in {"in", "w_done", "s_done"} : MovesTo(p, b)
  BY <1>0 DEF Enter, WaitBlock, SignalBlock, Step, MovesTo
<1>4. TestsHold'
  BY <1>0, <1>2, <1>3, TestsStay
<1>5. \A r \in Sems : value[r] \in Int /\ value[r] <= 1
  BY <1>0 DEF MonTypes, SemTypeOK, OneToken
<1>6. ASSUME NEW r \in Sems, value'[r] = 1
      PROVE  value[r] = 1 /\ r # s
  <2>1. value'[s] = value[s] - 1 /\ \A t \in Sems \ {s} : value'[t] = value[t]
    BY <1>0, <1>1, EffectOfP DEF MonTypes
  <2>. QED  BY <1>5, <1>6, <2>1
<1>7. \A q \in Procs \ {p} : pc'[q] = pc[q] /\ cv'[q] = cv[q]
  BY <1>0, <1>3, OthersStay
<1>8. value'[next] = 1 => \E q \in Procs : pc'[q] = "s_block"
  <2> SUFFICES ASSUME value'[next] = 1  PROVE \E q \in Procs : pc'[q] = "s_block"
    OBVIOUS
  <2>1. PICK q \in Procs : pc[q] = "s_block"
    BY <1>0, <1>6, MonitorAssumption DEF NoStrandedPermit
  <2>2. q # p
    BY <1>1, <1>6, <2>1, MonitorAssumption
  <2>. QED  BY <1>7, <2>1, <2>2
<1>9. ASSUME NEW c \in Conds, value'[c] = 1
      PROVE  \E q \in Procs : pc'[q] = "w_block" /\ cv'[q] = c
  <2>1. PICK q \in Procs : pc[q] = "w_block" /\ cv[q] = c
    BY <1>0, <1>6, <1>9, MonitorAssumption DEF NoStrandedPermit
  <2>2. q # p
    BY <1>1, <1>6, <1>9, <2>1, MonitorAssumption
  <2>. QED  BY <1>7, <2>1, <2>2
<1>10. NoStrandedPermit'
  BY <1>8, <1>9 DEF NoStrandedPermit, OneToken
<1>11. FreeIfNoUrgent'
  BY <1>0, <1>2, <1>6, MonitorAssumption DEF FreeIfNoUrgent, counts
<1>. QED  BY <1>4, <1>10, <1>11 DEF TokenUse

LEMMA UseV ==
  ASSUME MonIInv, NEW p \in Procs, OneToken',
         WaitVNext(p) \/ WaitVMutex(p) \/ LeaveVNext(p) \/ LeaveVMutex(p) \/ SignalWake(p)
  PROVE  TokenUse'
<1>0. MonTypes /\ OneToken /\ TestsHold /\ HasCond /\ QueueMatchesValue
  BY DEF MonIInv
<1>1. PICK s \in Sems :
        /\ V(p, s)
        /\ s = next => pc[p] \in {"w_vnext", "l_vnext"}
        /\ s = mutex => pc[p] \in {"w_vmutex", "l_vmutex"}
        /\ s \in Conds => pc[p] = "s_wake" /\ cv[p] = s
  BY <1>0, MonitorAssumption
     DEF WaitVNext, WaitVMutex, LeaveVNext, LeaveVMutex, SignalWake, Step, HasCond, SignalLabels,
         UrgentLabels
<1>2. UNCHANGED <<counts, cv>>
  BY DEF WaitVNext, WaitVMutex, LeaveVNext, LeaveVMutex, SignalWake
<1>3. PICK b \in {"w_block", "s_block", "out"} : MovesTo(p, b)
  BY <1>0 DEF WaitVNext, WaitVMutex, LeaveVNext, LeaveVMutex, SignalWake, Step, MovesTo
<1>4. TestsHold'
  BY <1>0, <1>2, <1>3, TestsStay
<1>5. Active(p)
  BY DEF WaitVNext, WaitVMutex, LeaveVNext, LeaveVMutex, SignalWake, Step, V, Active
<1>6. \A r \in Sems : value[r] \in Int /\ value[r] <= 0
  BY <1>0, <1>5 DEF MonTypes, SemTypeOK, OneToken
<1>7. ASSUME NEW r \in Sems, value'[r] = 1
      PROVE  r = s /\ value[s] = 0
  <2>1. value'[s] = value[s] + 1 /\ \A t \in Sems \ {s} : value'[t] = value[t]
    BY <1>0, <1>1, EffectOfV DEF MonTypes
  <2>. QED  BY <1>6, <1>7, <2>1
<1>8. \A q \in Procs \ {p} : pc'[q] = pc[q] /\ cv'[q] = cv[q]
  BY <1>0, <1>3, OthersStay
<1>9. value'[next] = 1 => \E q \in Procs : pc'[q] = "s_block"
  <2> SUFFICES ASSUME value'[next] = 1  PROVE \E q \in Procs : pc'[q] = "s_block"
    OBVIOUS
  <2>1. s = next /\ value[next] = 0
    BY <1>7, MonitorAssumption
  <2>2. next_count > 0 /\ pc[p] \notin UrgentLabels
    BY <1>0, <1>1, <2>1 DEF TestsHold, UrgentLabels
  <2>3. \E q \in Procs \ {p} : pc[q] = "s_block"
    BY <1>5, <2>1, <2>2, UrgentOnItsWay DEF MonIInv
  <2>. QED  BY <1>8, <2>3
<1>10. ASSUME NEW c \in Conds, value'[c] = 1
       PROVE  \E q \in Procs : pc'[q] = "w_block" /\ cv'[q] = c
  <2>1. s = c /\ value[c] = 0
    BY <1>7, <1>10, MonitorAssumption
  <2>2. x_count[c] > 0 /\ pc[p] \notin WaitLabels
    BY <1>0, <1>1, <2>1 DEF TestsHold, WaitLabels
  <2>3. \E q \in Procs \ {p} : pc[q] = "w_block" /\ cv[q] = c
    BY <1>5, <2>1, <2>2, WaiterOnItsWay DEF MonIInv
  <2>. QED  BY <1>8, <2>3
<1>11. NoStrandedPermit'
  BY <1>9, <1>10 DEF NoStrandedPermit, OneToken
<1>12. FreeIfNoUrgent'
  <2> SUFFICES ASSUME value'[mutex] = 1  PROVE next_count' = 0
    BY DEF FreeIfNoUrgent
  <2>1. s = mutex
    BY <1>7, MonitorAssumption
  <2>. QED  BY <1>0, <1>1, <1>2, <2>1 DEF TestsHold, counts
<1>. QED  BY <1>4, <1>11, <1>12 DEF TokenUse

-----------------------------------------------------------------------------
LEMMA MonInitInv == MonInit => MonIInv
<1> SUFFICES ASSUME MonInit  PROVE MonIInv
  OBVIOUS
<1> USE MonitorAssumption DEF MonInit, monitor_init, semaphore_init
<1>1. MonTypes
  BY DEF MonTypes, SemTypeOK, Labels, NoCond, RUNNABLE, SLEEPING
<1>2. \A s \in Sems : queue[s] = <<>> /\ Len(queue[s]) = 0
  OBVIOUS
<1>3. QueueMatchesValue
  BY <1>2 DEF QueueMatchesValue
<1>4. SleepersQueued /\ SleepPlaces
  BY <1>2 DEF SleepersQueued, SleepPlaces, RUNNABLE, SLEEPING
<1>5. HasCond /\ TestsHold
  BY DEF HasCond, TestsHold, WaitLabels, SignalLabels, UrgentLabels
<1>6. OneToken /\ SomeToken /\ NoStrandedPermit /\ FreeIfNoUrgent
  BY DEF OneToken, SomeToken, NoStrandedPermit, FreeIfNoUrgent, Active
<1>7. CountsExact
  <2>1. Signalling = {} /\ \A c : Waiting(c) = {}
    BY DEF Signalling, Waiting, WaitLabels, UrgentLabels
  <2>. QED  BY <2>1, FS_EmptySet DEF CountsExact
<1>. QED  BY <1>1, <1>3, <1>4, <1>5, <1>6, <1>7 DEF MonIInv

LEMMA MonStepInv == MonIInv /\ [MonNext]_monVars => MonIInv'
<1> SUFFICES ASSUME MonIInv, [MonNext]_monVars  PROVE MonIInv'
  OBVIOUS
<1>0. MonTypes /\ HasCond
  BY DEF MonIInv
<1>a. ASSUME NEW p \in Procs, DataInv', TokenUse',
             \/ ComputeStep(p)
             \/ \E s \in Sems : PStep(p, s) \/ VStep(p, s)
      PROVE  MonIInv'
  BY <1>a, KindStep DEF MonIInv, MonTypes, DataInv, TokenUse
<1> USE DEF Labels, WaitLabels, SignalLabels, LeaveLabels, UrgentLabels
<1>1. CASE UNCHANGED monVars
  <2>1. UNCHANGED <<value, queue, state, next_count, x_count, pc, cv, reg>>
    BY <1>1 DEF monVars
  <2>2. \A q, s : (Active(q)' <=> Active(q)) /\ (BlockedAt(q, s)' <=> BlockedAt(q, s))
    BY <2>1 DEF Active, BlockedAt
  <2>3. MonTypes' /\ QueueMatchesValue' /\ SleepersQueued' /\ HasCond'
    BY <2>1 DEF MonIInv, MonTypes, SemTypeOK, QueueMatchesValue, SleepersQueued, HasCond
  <2>4. SleepPlaces' /\ OneToken' /\ SomeToken'
    BY <2>1, <2>2 DEF MonIInv, SleepPlaces, OneToken, SomeToken
  <2>5. CountsExact' /\ TestsHold' /\ NoStrandedPermit' /\ FreeIfNoUrgent'
    BY <2>1 DEF MonIInv, CountsExact, Signalling, Waiting, TestsHold, NoStrandedPermit,
                FreeIfNoUrgent
  <2>. QED  BY <2>3, <2>4, <2>5 DEF MonIInv
<1>2. ASSUME NEW p \in Procs, CounterStep(p)
      PROVE  MonIInv'
  <2>1. ComputeStep(p)
    BY <1>0, <1>2, ComputeKind
  <2>2. OneToken'
    BY <2>1, KindStep
  <2>. QED  BY <1>2, <1>a, <2>1, <2>2, DataChanged, UseCompute
<1>3. ASSUME NEW p \in Procs, LeaveTest(p) \/ WaitTest(p)
      PROVE  MonIInv'
  <2>1. ComputeStep(p)
    BY <1>0, <1>3, ComputeKind
  <2>2. OneToken'
    BY <2>1, KindStep
  <2>3. PICK b \in {"l_vnext", "l_vmutex", "w_vnext", "w_vmutex"} :
          /\ MovesTo(p, b) /\ UNCHANGED <<next_count, x_count, cv, reg>>
          /\ b \in WaitLabels <=> pc[p] \in WaitLabels
          /\ pc[p] \in {"in", "w_test"}
    BY <1>0, <1>3 DEF LeaveTest, WaitTest, Step, MovesTo, counts
  <2>4. DataInv'
    BY <1>0, <2>3, DataUnchanged DEF MonTypes
  <2>. QED  BY <1>3, <1>a, <2>1, <2>2, <2>4, UseCompute
<1>4. ASSUME NEW p \in Procs, Enter(p) \/ WaitBlock(p) \/ SignalBlock(p)
      PROVE  MonIInv'
  <2>1. \E s \in Sems : PStep(p, s)
    BY <1>0, <1>4, PKind, MonitorAssumption
  <2>2. OneToken'
    BY <2>1, KindStep
  <2>3. PICK b \in {"in", "w_done", "s_done"} :
          /\ MovesTo(p, b) /\ UNCHANGED <<next_count, x_count, cv, reg>>
          /\ \/ b = "in" /\ pc[p] = "out"
             \/ b = "w_done" /\ pc[p] = "w_block"
             \/ b = "s_done" /\ pc[p] = "s_block"
    BY <1>0, <1>4 DEF Enter, WaitBlock, SignalBlock, Step, MovesTo, counts
  <2>4. DataInv'
    BY <1>0, <2>3, DataUnchanged DEF MonTypes
  <2>. QED  BY <1>4, <1>a, <2>1, <2>2, <2>4, UseP
<1>5. ASSUME NEW p \in Procs,
             WaitVNext(p) \/ WaitVMutex(p) \/ LeaveVNext(p) \/ LeaveVMutex(p) \/ SignalWake(p)
      PROVE  MonIInv'
  <2>1. \E s \in Sems : VStep(p, s)
    BY <1>0, <1>5, VKind, MonitorAssumption
  <2>2. OneToken'
    BY <2>1, KindStep
  <2>3. PICK b \in {"w_block", "s_block", "out"} :
          /\ MovesTo(p, b) /\ UNCHANGED <<next_count, x_count, cv, reg>>
          /\ \/ b = "out" /\ pc[p] \in LeaveLabels
             \/ b = "w_block" /\ pc[p] \in {"w_vnext", "w_vmutex"}
             \/ b = "s_block" /\ pc[p] = "s_wake"
    BY <1>0, <1>5 DEF WaitVNext, WaitVMutex, LeaveVNext, LeaveVMutex, SignalWake, Step, MovesTo,
                         counts
  <2>4. DataInv'
    BY <1>0, <2>3, DataUnchanged DEF MonTypes
  <2>. QED  BY <1>5, <1>a, <2>1, <2>2, <2>4, UseV
<1>. QED  BY <1>1, <1>2, <1>3, <1>4, <1>5 DEF MonNext, Inside, CounterStep

THEOREM MonInvariant == MonSpec => []MonIInv
BY MonInitInv, MonStepInv, PTL DEF MonSpec

-----------------------------------------------------------------------------
(* The monitor's state has its type; in particular the two kinds of         *)
(* counters never go below zero.                                            *)
THEOREM MonTypeCorrect == MonSpec => []MonTypeOK
<1>1. MonIInv => MonTypeOK
  <2> SUFFICES ASSUME MonIInv  PROVE MonTypeOK
    OBVIOUS
  <2>1. next_count \in Nat /\ \A c \in Conds : x_count[c] \in Nat
    BY FiniteCounts DEF MonIInv, CountsExact
  <2>. QED  BY <2>1 DEF MonIInv, MonTypes, MonTypeOK
<1>. QED  BY <1>1, MonInvariant, PTL

(* At most one thread is inside the monitor, for any number of threads and  *)
(* condition variables.                                                     *)
THEOREM MonMutualExclusion == MonSpec => []MutualExclusion
<1>1. MonIInv => MutualExclusion
  BY DEF MonIInv, OneToken, MutualExclusion
<1>. QED  BY <1>1, MonInvariant, PTL

(* The counters that wait() and signal() load, change and store with        *)
(* interrupts enabled are exact: no update is lost.                         *)
THEOREM MonCountsExact == MonSpec => []CountsExact
<1>1. MonIInv => CountsExact
  BY DEF MonIInv
<1>. QED  BY <1>1, MonInvariant, PTL

(* No permit is left in a semaphore unless its thread is on the way to it.  *)
THEOREM MonNoStrandedPermit == MonSpec => []NoStrandedPermit
<1>1. MonIInv => NoStrandedPermit
  BY DEF MonIInv
<1>. QED  BY <1>1, MonInvariant, PTL

(* Whenever a thread sleeps on the entry or the urgent queue, some running  *)
(* thread is inside the monitor to wake it.                                 *)
THEOREM MonNotWedged == MonSpec => []NotWedged
<1>1. MonIInv => NotWedged
  <2> SUFFICES ASSUME MonIInv, NEW p \in Procs, AsleepOn(p, mutex) \/ AsleepOn(p, next)
               PROVE  \E q \in Procs : state[q] = RUNNABLE /\ pc[q] # "out"
    BY DEF NotWedged
  <2>0. /\ MonTypes /\ SleepersQueued /\ SleepPlaces /\ SomeToken /\ NoStrandedPermit
        /\ QueueMatchesValue /\ CountsExact /\ FreeIfNoUrgent
    BY DEF MonIInv
  <2>1. CASE \E q \in Procs : Active(q)
    BY <2>1 DEF Active
  <2>2. ASSUME NEW s \in Sems, value[s] = 1
        PROVE  \E q \in Procs : state[q] = RUNNABLE /\ pc[q] # "out"
    <3>1. ASSUME NEW q \in Procs, pc[q] \in {"s_block", "w_block"}
          PROVE  state[q] = RUNNABLE /\ pc[q] # "out"
      <4>1. state[q] # SLEEPING
        BY <2>0, <3>1, AsleepWhere
      <4>. QED  BY <2>0, <3>1, <4>1 DEF MonTypes, SemTypeOK
    <3>2. CASE s = next \/ s \in Conds
      BY <2>0, <2>2, <3>1, <3>2 DEF NoStrandedPermit
    <3>3. CASE s = mutex
      <4>1. Len(queue[mutex]) = 0
        BY <2>0, <2>2, <3>3 DEF QueueMatchesValue
      <4>2. PICK i \in 1..Len(queue[next]) : queue[next][i] = p
        BY <4>1 DEF AsleepOn
      <4>3. pc[p] = "s_done"
        BY <2>0, <4>2, MonitorAssumption DEF SleepPlaces, BlockedAt
      <4>4. p \in Signalling
        BY <4>3 DEF Signalling, UrgentLabels
      <4>5. next_count # 0
        BY <2>0, <4>4, FiniteCounts, FS_EmptySet DEF CountsExact
      <4>. QED  BY <2>0, <2>2, <3>3, <4>5 DEF FreeIfNoUrgent
    <3>. QED  BY <3>2, <3>3, MonitorAssumption
  <2>. QED  BY <2>0, <2>1, <2>2 DEF SomeToken
<1>. QED  BY <1>1, MonInvariant, PTL

=============================================================================
