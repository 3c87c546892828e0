---------------------------- MODULE SchedProofs ----------------------------
(***************************************************************************)
(* Proofs about module SchedSemaphore, for any number of kernel threads,   *)
(* any semaphores and any length of run: the scheduler switches only to    *)
(* threads that may run, code outside the critical sections runs with      *)
(* interrupts on, no thread returns from do_exit(), and P() and V() on the *)
(* preemptible CPU implement the atomic ones of module Semaphore.          *)
(*                                                                         *)
(* The argument: which frame can lie on which is a property of two (once,  *)
(* three) neighbouring frames, and together with it the innermost frame of *)
(* the running thread determines the interrupt flag.  Every other thread   *)
(* is suspended where schedule() left it, or is new.                       *)
(***************************************************************************)
EXTENDS SchedSemaphore, SequenceTheorems, WellFoundedInduction, TLAPS

(* What a frame can be at, and the flag it then has. *)
FrameShape(f) ==
  \/ f.fn = "init" /\ f.at \in {"insert", "copy", "wakeup", "spin"}
  \/ f.fn = "body" /\ f.at = "run"
  \/ f.fn = "schedule" /\ f.at \in {"mask", "pick", "run", "unmask"}
  \/ f.fn = "timer_handler" /\ f.at \in {"mask", "call", "unmask", "iret"} /\ ~f.flag
  \/ /\ f.fn = "P" /\ f.at \in {"mask", "dec", "sleep", "unmask"}
     /\ f.arg \in Sems /\ (f.at = "mask" \/ f.flag)
  \/ /\ f.fn = "V" /\ f.at \in {"mask", "inc", "wake", "unmask"}
     /\ f.arg \in Sems /\ (f.at = "mask" \/ f.flag)
  \/ /\ f.fn = "do_exit" /\ f.at \in {"mask", "zombie", "unmask", "call", "panic"}
     /\ (f.at \in {"zombie", "unmask"} => f.flag)

Frames ==
  [fn   : {"init", "body", "schedule", "timer_handler", "P", "V", "do_exit"},
   at   : {"insert", "copy", "wakeup", "spin", "run", "mask", "pick", "unmask", "call",
           "iret", "dec", "sleep", "inc", "wake", "zombie", "panic"},
   flag : BOOLEAN,
   arg  : Tasks \cup Sems \cup {Nothing}]

(* Whose frame it can be. *)
FrameOf(t, f) ==
  /\ f.fn = "init" => t = idle
  /\ f.fn \in {"body", "P", "V", "do_exit"} => t \in Threads

(* The statements before which a timer interrupt can come, as far as one    *)
(* frame tells: schedule() can also be called with interrupts masked.       *)
Open(f) ==
  \/ f.fn \in {"body", "init"}
  \/ f.fn \in {"P", "V", "do_exit", "schedule"} /\ f.at = "mask"
  \/ f.fn = "do_exit" /\ f.at = "call"

(* Frame f was put on top of frame g. *)
Calls(f, g) ==
  \/ /\ f.fn = "schedule" /\ ~f.flag
     /\ g.fn \in {"timer_handler", "P"} /\ g.at = "unmask"
  \/ /\ f.fn = "schedule" /\ (f.at = "mask" \/ f.flag)
     /\ \/ g.fn = "do_exit" /\ g.at = "panic"
        \/ g.fn = "init" /\ g.at = "spin"
  \/ f.fn = "timer_handler" /\ Open(g)
  \/ f.fn \in {"P", "V", "do_exit"} /\ g.fn = "body"

UnmaskedCaller(g) == g.fn \in {"do_exit", "init"}

GoodStack(t, s) ==
  /\ s \in Seq(Frames)
  /\ \A i \in 1..Len(s) : FrameShape(s[i]) /\ FrameOf(t, s[i])
  /\ \A i \in 1..(Len(s) - 1) : Calls(s[i], s[i + 1])
  /\ \A i \in 1..(Len(s) - 2) :
       s[i].fn = "timer_handler" /\ s[i + 1].fn = "schedule" => UnmaskedCaller(s[i + 2])
  /\ s # <<>> => s[Len(s)].fn \in {"body", "init"}

(* The running thread can take an interrupt. *)
OpenTop(s) == Open(s[1]) /\ (s[1].fn = "schedule" => UnmaskedCaller(s[2]))

Exited(f) == f.fn = "do_exit" /\ f.at \in {"unmask", "call", "panic"}

(* What the stack of thread t and its state have to do with each other. *)
ThreadOK(t, s, st) ==
  /\ GoodStack(t, s)
  /\ st # "TASK_READY" => s # <<>>
  /\ st = "TASK_SLEEPING" => Len(s) > 1 /\ s[1].fn = "schedule" /\ s[2].fn = "P"
  /\ \A i \in 1..Len(s) : Exited(s[i]) => st = "TASK_ZOMBIE"
  /\ t = idle => s # <<>> /\ st = "TASK_READY"

Suspended(s) ==
  s # <<>> => \/ s[1].fn = "schedule" /\ s[1].at = "unmask"
              \/ s[1].fn = "timer_handler" /\ s[1].at = "iret"

(* do_exit() has come back from its schedule(). *)
Panicking(f) == f.fn = "do_exit" /\ f.at = "panic"

(* The running thread t, when the interrupt flag is io and st the states. *)
Running(io, t, s, st) ==
  /\ s # <<>> /\ ~Panicking(s[1])
  /\ io = OpenTop(s)
  /\ t # idle => st[t] # "TASK_READY"
  /\ s[1].fn = "schedule" /\ s[1].at = "unmask" => t = idle \/ st[t] = "TASK_RUNNABLE"
  /\ s[1].fn = "schedule" /\ s[1].at = "run" =>
       \/ s[1].arg = idle
       \/ s[1].arg \in Threads /\ st[s[1].arg] = "TASK_RUNNABLE"

InList(t) == \E i \in 1..Len(proc_list) : proc_list[i] = t

(* do_fork() puts the newest thread in front. *)
ListInv ==
  /\ proc_list \in Seq(Threads)
  /\ Len(proc_list) <= Len(Order)
  /\ \A i \in 1..Len(proc_list) : proc_list[i] = Order[Len(proc_list) + 1 - i]
  /\ \A t \in Threads : stack[t] # <<>> => InList(t)

(* The boot thread is at statement a of init(), interrupted or not. *)
BootAt(a) == \E i \in 1..Len(stack[idle]) : stack[idle][i].fn = "init" /\ stack[idle][i].at = a

BootInv ==
  /\ BootAt("copy") \/ BootAt("wakeup") =>
       proc_list # <<>> /\ state[proc_list[1]] = "TASK_READY"
  /\ BootAt("copy") => stack[proc_list[1]] = <<>>
  /\ BootAt("wakeup") => stack[proc_list[1]] # <<>>

SchedInv ==
  /\ IntrOn \in BOOLEAN
  /\ current \in Tasks
  /\ state \in [Tasks -> {"TASK_READY", "TASK_SLEEPING", "TASK_RUNNABLE", "TASK_ZOMBIE"}]
  /\ stack \in [Tasks -> Seq(Frames)]
  /\ \A t \in Tasks : ThreadOK(t, stack[t], state[t])
  /\ \A t \in Tasks \ {current} : Suspended(stack[t])
  /\ Running(IntrOn, current, stack[current], state)
  /\ ListInv
  /\ BootInv

(* A thread P() or V() has accounted for in the value but not yet moved. *)
Going(s) == IF At("P", "sleep") /\ Top.arg = s THEN 1 ELSE 0
Leaving(s) == IF At("V", "wake") /\ Top.arg = s THEN 1 ELSE 0

QueueInv ==
  /\ value \in [Sems -> Int]
  /\ queue \in [Sems -> Seq(Threads)]
  /\ \A s \in Sems : \A i \in 1..Len(queue[s]) : state[queue[s][i]] = "TASK_SLEEPING"
  /\ \A r, s \in Sems : \A i \in 1..Len(queue[r]), j \in 1..Len(queue[s]) :
       queue[r][i] = queue[s][j] => r = s /\ i = j
  /\ \A s \in Sems :
       Len(queue[s]) + Going(s) - Leaving(s) = (IF value[s] < 0 THEN -value[s] ELSE 0)

IInv == SchedInv /\ QueueInv

-----------------------------------------------------------------------------
LEMMA EmptyLen ==
  ASSUME NEW S, NEW s \in Seq(S)
  PROVE  s = <<>> <=> Len(s) = 0
  OBVIOUS

(* The four ways a statement changes a stack, position by position. *)
LEMMA SetTopFacts ==
  ASSUME NEW S, NEW s \in Seq(S), s # <<>>, NEW f \in S
  PROVE  /\ <<f>> \o Tail(s) \in Seq(S)
         /\ <<f>> \o Tail(s) # <<>>
         /\ Len(s) \in Nat \ {0}
         /\ Len(<<f>> \o Tail(s)) = Len(s)
         /\ (<<f>> \o Tail(s))[1] = f
         /\ \A i \in 2..Len(s) : (<<f>> \o Tail(s))[i] = s[i]
  OBVIOUS

LEMMA PushFacts ==
  ASSUME NEW S, NEW s \in Seq(S), NEW f \in S
  PROVE  /\ <<f>> \o s \in Seq(S)
         /\ <<f>> \o s # <<>>
         /\ Len(s) \in Nat
         /\ Len(<<f>> \o s) = Len(s) + 1
         /\ (<<f>> \o s)[1] = f
         /\ \A i \in 1..Len(s) : (<<f>> \o s)[i + 1] = s[i]
  OBVIOUS

LEMMA CallFacts ==
  ASSUME NEW S, NEW s \in Seq(S), s # <<>>, NEW f \in S, NEW g \in S
  PROVE  /\ <<f, g>> \o Tail(s) \in Seq(S)
         /\ <<f, g>> \o Tail(s) # <<>>
         /\ Len(s) \in Nat \ {0}
         /\ Len(<<f, g>> \o Tail(s)) = Len(s) + 1
         /\ (<<f, g>> \o Tail(s))[1] = f
         /\ (<<f, g>> \o Tail(s))[2] = g
         /\ \A i \in 2..Len(s) : (<<f, g>> \o Tail(s))[i + 1] = s[i]
  OBVIOUS

LEMMA ReturnFacts ==
  ASSUME NEW S, NEW s \in Seq(S), s # <<>>
  PROVE  /\ Tail(s) \in Seq(S)
         /\ Len(s) \in Nat \ {0}
         /\ Len(Tail(s)) = Len(s) - 1
         /\ Head(s) = s[1] /\ s[1] \in S
         /\ (Len(s) > 1 <=> Tail(s) # <<>>)
         /\ \A i \in 1..(Len(s) - 1) : Tail(s)[i] = s[i + 1]
<1>1. Tail(s) \in Seq(S) /\ Len(s) \in Nat \ {0} /\ Len(Tail(s)) = Len(s) - 1
  OBVIOUS
<1>2. Head(s) = s[1] /\ s[1] \in S /\ \A i \in 1..(Len(s) - 1) : Tail(s)[i] = s[i + 1]
  OBVIOUS
<1>3. Tail(s) = <<>> <=> Len(Tail(s)) = 0
  BY <1>1, EmptyLen
<1>. QED  BY <1>1, <1>2, <1>3

(* Frame f takes the place of the innermost frame. *)
LEMMA SetTopGood ==
  ASSUME NEW t, NEW s, GoodStack(t, s), s # <<>>, NEW f \in Frames,
         FrameShape(f), f.fn = s[1].fn,
         Len(s) > 1 => Calls(f, s[2])
  PROVE  GoodStack(t, <<f>> \o Tail(s))
<1> DEFINE r == <<f>> \o Tail(s)
<1>1. s \in Seq(Frames)
  BY DEF GoodStack
<1>2. /\ r \in Seq(Frames) /\ r # <<>> /\ Len(s) \in Nat \ {0} /\ Len(r) = Len(s)
      /\ r[1] = f /\ \A i \in 2..Len(s) : r[i] = s[i]
  BY <1>1, SetTopFacts
<1> HIDE DEF r
<1>3. \A i \in 1..Len(r) : FrameShape(r[i]) /\ FrameOf(t, r[i])
  BY <1>2 DEF GoodStack, FrameOf
<1>4. \A i \in 1..(Len(r) - 1) : Calls(r[i], r[i + 1])
  BY <1>2 DEF GoodStack
<1>5. \A i \in 1..(Len(r) - 2) :
        r[i].fn = "timer_handler" /\ r[i + 1].fn = "schedule" => UnmaskedCaller(r[i + 2])
  BY <1>2 DEF GoodStack
<1>6. r[Len(r)].fn \in {"body", "init"}
  BY <1>2 DEF GoodStack
<1>. QED  BY <1>2, <1>3, <1>4, <1>5, <1>6 DEF GoodStack, r

(* Frame f interrupts the innermost frame. *)
LEMMA InterruptGood ==
  ASSUME NEW t, NEW s, GoodStack(t, s), s # <<>>, OpenTop(s),
         NEW f \in Frames, FrameShape(f), f.fn = "timer_handler"
  PROVE  GoodStack(t, <<f>> \o s)
<1> DEFINE r == <<f>> \o s
<1>1. s \in Seq(Frames)
  BY DEF GoodStack
<1>2. /\ r \in Seq(Frames) /\ r # <<>> /\ Len(s) \in Nat \ {0} /\ Len(r) = Len(s) + 1
      /\ r[1] = f /\ \A i \in 1..Len(s) : r[i + 1] = s[i]
  BY <1>1, PushFacts
<1> HIDE DEF r
<1>a. \A i \in 2..Len(r) : i - 1 \in 1..Len(s) /\ r[i] = s[i - 1]
  BY <1>2
<1>b. FrameOf(t, f)
  BY DEF FrameOf
<1>3. \A i \in 1..Len(r) : FrameShape(r[i]) /\ FrameOf(t, r[i])
  BY <1>2, <1>a, <1>b DEF GoodStack
<1>4. \A i \in 1..(Len(r) - 1) : Calls(r[i], r[i + 1])
  <2> SUFFICES ASSUME NEW i \in 1..(Len(r) - 1)  PROVE Calls(r[i], r[i + 1])
    OBVIOUS
  <2>1. CASE i = 1
    BY <1>2, <2>1 DEF Calls, OpenTop
  <2>2. CASE i # 1
    <3>1. i - 1 \in 1..(Len(s) - 1) /\ r[i] = s[i - 1] /\ r[i + 1] = s[(i - 1) + 1]
      BY <1>2, <1>a, <2>2
    <3>. QED  BY <3>1 DEF GoodStack
  <2>. QED  BY <2>1, <2>2
<1>5. \A i \in 1..(Len(r) - 2) :
        r[i].fn = "timer_handler" /\ r[i + 1].fn = "schedule" => UnmaskedCaller(r[i + 2])
  <2> SUFFICES ASSUME NEW i \in 1..(Len(r) - 2),
                      r[i].fn = "timer_handler", r[i + 1].fn = "schedule"
               PROVE  UnmaskedCaller(r[i + 2])
    OBVIOUS
  <2>1. CASE i = 1
    <3>1. r[2] = s[1] /\ r[3] = s[2]
      BY <1>2, <1>a, <2>1
    <3>. QED  BY <2>1, <3>1 DEF OpenTop
  <2>2. CASE i # 1
    <3>1. /\ i - 1 \in 1..(Len(s) - 2) /\ r[i] = s[i - 1] /\ r[i + 1] = s[(i - 1) + 1]
          /\ r[i + 2] = s[(i - 1) + 2]
      BY <1>2, <1>a, <2>2
    <3>. QED  BY <3>1 DEF GoodStack
  <2>. QED  BY <2>1, <2>2
<1>6. r[Len(r)].fn \in {"body", "init"}
  BY <1>2, <1>a DEF GoodStack
<1>. QED  BY <1>2, <1>3, <1>4, <1>5, <1>6 DEF GoodStack, r

(* The innermost frame, which becomes g, calls f. *)
LEMMA CallGood ==
  ASSUME NEW t, NEW s, GoodStack(t, s), s # <<>>,
         NEW f \in Frames, FrameShape(f), FrameOf(t, f), f.fn # "timer_handler",
         NEW g \in Frames, FrameShape(g), g.fn = s[1].fn,
         Calls(f, g), Len(s) > 1 => Calls(g, s[2])
  PROVE  GoodStack(t, <<f, g>> \o Tail(s))
<1> DEFINE r == <<f, g>> \o Tail(s)
<1>1. s \in Seq(Frames)
  BY DEF GoodStack
<1>2. /\ r \in Seq(Frames) /\ r # <<>> /\ Len(s) \in Nat \ {0} /\ Len(r) = Len(s) + 1
      /\ r[1] = f /\ r[2] = g /\ \A i \in 2..Len(s) : r[i + 1] = s[i]
  BY <1>1, CallFacts
<1> HIDE DEF r
<1>a. \A i \in 3..Len(r) : i - 1 \in 2..Len(s) /\ r[i] = s[i - 1]
  BY <1>2
<1>b. FrameOf(t, g)
  BY <1>2 DEF GoodStack, FrameOf
<1>3. \A i \in 1..Len(r) : FrameShape(r[i]) /\ FrameOf(t, r[i])
  BY <1>2, <1>a, <1>b DEF GoodStack
<1>4. \A i \in 1..(Len(r) - 1) : Calls(r[i], r[i + 1])
  <2> SUFFICES ASSUME NEW i \in 1..(Len(r) - 1)  PROVE Calls(r[i], r[i + 1])
    OBVIOUS
  <2>1. CASE i = 1
    BY <1>2, <2>1
  <2>2. CASE i = 2
    <3>1. r[3] = s[2] /\ Len(s) > 1
      BY <1>2, <1>a, <2>2
    <3>. QED  BY <1>2, <2>2, <3>1
  <2>3. CASE i > 2
    <3>1. i - 1 \in 1..(Len(s) - 1) /\ r[i] = s[i - 1] /\ r[i + 1] = s[(i - 1) + 1]
      BY <1>2, <1>a, <2>3
    <3>. QED  BY <3>1 DEF GoodStack
  <2>. QED  BY <2>1, <2>2, <2>3
<1>5. \A i \in 1..(Len(r) - 2) :
        r[i].fn = "timer_handler" /\ r[i + 1].fn = "schedule" => UnmaskedCaller(r[i + 2])
  <2> SUFFICES ASSUME NEW i \in 1..(Len(r) - 2),
                      r[i].fn = "timer_handler", r[i + 1].fn = "schedule"
               PROVE  UnmaskedCaller(r[i + 2])
    OBVIOUS
  <2>1. i # 1
    BY <1>2
  <2>2. /\ i - 1 \in 1..(Len(s) - 2) /\ r[i].fn = s[i - 1].fn /\ r[i + 1] = s[(i - 1) + 1]
        /\ r[i + 2] = s[(i - 1) + 2]
    BY <1>2, <1>a, <2>1
  <2>. QED  BY <2>2 DEF GoodStack
<1>6. r[Len(r)].fn \in {"body", "init"}
  <2>1. CASE Len(s) = 1
    BY <1>2, <2>1 DEF GoodStack
  <2>2. CASE Len(s) # 1
    BY <1>2, <1>a, <2>2 DEF GoodStack
  <2>. QED  BY <2>1, <2>2
<1>. QED  BY <1>2, <1>3, <1>4, <1>5, <1>6 DEF GoodStack, r

(* The innermost frame returns. *)
LEMMA ReturnGood ==
  ASSUME NEW t, NEW s, GoodStack(t, s), s # <<>>, s[1].fn \notin {"body", "init"}
  PROVE  GoodStack(t, Tail(s)) /\ Len(s) > 1 /\ Calls(s[1], s[2])
<1> DEFINE r == Tail(s)
<1>1. s \in Seq(Frames)
  BY DEF GoodStack
<1>2. /\ r \in Seq(Frames) /\ Len(s) \in Nat \ {0} /\ Len(r) = Len(s) - 1
      /\ Len(s) > 1 <=> r # <<>>
      /\ \A i \in 1..Len(r) : r[i] = s[i + 1]
  BY <1>1, ReturnFacts
<1> HIDE DEF r
<1>3. Len(s) > 1
  BY <1>2 DEF GoodStack
<1>4. \A i \in 1..Len(r) : FrameShape(r[i]) /\ FrameOf(t, r[i])
  BY <1>2 DEF GoodStack
<1>5. \A i \in 1..(Len(r) - 1) : Calls(r[i], r[i + 1])
  <2> SUFFICES ASSUME NEW i \in 1..(Len(r) - 1)  PROVE Calls(r[i], r[i + 1])
    OBVIOUS
  <2>1. i + 1 \in 1..(Len(s) - 1) /\ r[i] = s[i + 1] /\ r[i + 1] = s[(i + 1) + 1]
    BY <1>2
  <2>. QED  BY <2>1 DEF GoodStack
<1>6. \A i \in 1..(Len(r) - 2) :
        r[i].fn = "timer_handler" /\ r[i + 1].fn = "schedule" => UnmaskedCaller(r[i + 2])
  <2> SUFFICES ASSUME NEW i \in 1..(Len(r) - 2),
                      r[i].fn = "timer_handler", r[i + 1].fn = "schedule"
               PROVE  UnmaskedCaller(r[i + 2])
    OBVIOUS
  <2>1. /\ i + 1 \in 1..(Len(s) - 2) /\ r[i] = s[i + 1] /\ r[i + 1] = s[(i + 1) + 1]
        /\ r[i + 2] = s[(i + 1) + 2]
    BY <1>2
  <2>. QED  BY <2>1 DEF GoodStack
<1>7. r[Len(r)].fn \in {"body", "init"}
  BY <1>2, <1>3 DEF GoodStack
<1>8. Calls(s[1], s[2])
  BY <1>2, <1>3 DEF GoodStack
<1>. QED  BY <1>2, <1>3, <1>4, <1>5, <1>6, <1>7, <1>8 DEF GoodStack, r

-----------------------------------------------------------------------------
(* The same for ThreadOK. *)
LEMMA SetTopThread ==
  ASSUME NEW t, NEW s, NEW st, ThreadOK(t, s, st), s # <<>>, NEW f \in Frames,
         FrameShape(f), f.fn = s[1].fn, Len(s) > 1 => Calls(f, s[2]),
         Exited(f) => st = "TASK_ZOMBIE"
  PROVE  ThreadOK(t, <<f>> \o Tail(s), st)
<1>1. GoodStack(t, s)
  BY DEF ThreadOK
<1>2. GoodStack(t, <<f>> \o Tail(s))
  BY <1>1, SetTopGood
<1> DEFINE r == <<f>> \o Tail(s)
<1>3. /\ r # <<>> /\ Len(s) \in Nat \ {0} /\ Len(r) = Len(s)
      /\ r[1] = f /\ \A i \in 2..Len(s) : r[i] = s[i]
  BY <1>1, SetTopFacts DEF GoodStack
<1> HIDE DEF r
<1>4. \A i \in 1..Len(r) : Exited(r[i]) => st = "TASK_ZOMBIE"
  BY <1>3 DEF ThreadOK
<1>. QED  BY <1>2, <1>3, <1>4 DEF ThreadOK, r

LEMMA InterruptThread ==
  ASSUME NEW t, NEW s, NEW st, ThreadOK(t, s, st), s # <<>>, st # "TASK_SLEEPING",
         OpenTop(s), NEW f \in Frames, FrameShape(f), f.fn = "timer_handler"
  PROVE  ThreadOK(t, <<f>> \o s, st)
<1>1. GoodStack(t, s)
  BY DEF ThreadOK
<1>2. GoodStack(t, <<f>> \o s)
  BY <1>1, InterruptGood
<1> DEFINE r == <<f>> \o s
<1>3. /\ r # <<>> /\ Len(s) \in Nat /\ Len(r) = Len(s) + 1
      /\ r[1] = f /\ \A i \in 1..Len(s) : r[i + 1] = s[i]
  BY <1>1, PushFacts DEF GoodStack
<1> HIDE DEF r
<1>4. \A i \in 2..Len(r) : i - 1 \in 1..Len(s) /\ r[i] = s[i - 1]
  BY <1>3
<1>5. ~Exited(f)
  BY DEF Exited
<1>6. \A i \in 1..Len(r) : Exited(r[i]) => st = "TASK_ZOMBIE"
  BY <1>3, <1>4, <1>5 DEF ThreadOK
<1>. QED  BY <1>2, <1>3, <1>6 DEF ThreadOK, r

LEMMA CallThread ==
  ASSUME NEW t, NEW s, NEW st, ThreadOK(t, s, st), s # <<>>, NEW f \in Frames,
         FrameShape(f), FrameOf(t, f), f.fn # "timer_handler", ~Exited(f),
         NEW g \in Frames, FrameShape(g), g.fn = s[1].fn,
         Calls(f, g), Len(s) > 1 => Calls(g, s[2]),
         Exited(g) => st = "TASK_ZOMBIE",
         st = "TASK_SLEEPING" => f.fn = "schedule" /\ g.fn = "P"
  PROVE  ThreadOK(t, <<f, g>> \o Tail(s), st)
<1>1. GoodStack(t, s)
  BY DEF ThreadOK
<1>2. GoodStack(t, <<f, g>> \o Tail(s))
  BY <1>1, CallGood
<1> DEFINE r == <<f, g>> \o Tail(s)
<1>3. /\ r # <<>> /\ Len(s) \in Nat \ {0} /\ Len(r) = Len(s) + 1
      /\ r[1] = f /\ r[2] = g /\ \A i \in 2..Len(s) : r[i + 1] = s[i]
  BY <1>1, CallFacts DEF GoodStack
<1> HIDE DEF r
<1>4. \A i \in 3..Len(r) : i - 1 \in 1..Len(s) /\ r[i] = s[i - 1]
  BY <1>3
<1>5. \A i \in 1..Len(r) : Exited(r[i]) => st = "TASK_ZOMBIE"
  BY <1>3, <1>4 DEF ThreadOK
<1>. QED  BY <1>2, <1>3, <1>5 DEF ThreadOK, r

LEMMA ReturnThread ==
  ASSUME NEW t, NEW s, NEW st, ThreadOK(t, s, st), s # <<>>, st # "TASK_SLEEPING",
         s[1].fn \notin {"body", "init"}
  PROVE  ThreadOK(t, Tail(s), st) /\ Len(s) > 1 /\ Calls(s[1], s[2])
<1>1. GoodStack(t, s)
  BY DEF ThreadOK
<1>2. GoodStack(t, Tail(s)) /\ Len(s) > 1 /\ Calls(s[1], s[2])
  BY <1>1, ReturnGood
<1>3. /\ Tail(s) # <<>> /\ Len(s) \in Nat /\ Len(Tail(s)) = Len(s) - 1
      /\ \A i \in 1..Len(Tail(s)) : Tail(s)[i] = s[i + 1]
  BY <1>1, <1>2, ReturnFacts DEF GoodStack
<1> DEFINE r == Tail(s)
<1>4. r # <<>> /\ Len(r) = Len(s) - 1 /\ \A i \in 1..Len(r) : r[i] = s[i + 1]
  BY <1>3
<1> HIDE DEF r
<1>5. \A i \in 1..Len(r) : Exited(r[i]) => st = "TASK_ZOMBIE"
  BY <1>3, <1>4 DEF ThreadOK
<1>. QED  BY <1>2, <1>3, <1>4, <1>5 DEF ThreadOK, r

-----------------------------------------------------------------------------
LEMMA TopFacts ==
  ASSUME SchedInv
  PROVE  /\ current \in Tasks
         /\ stack[current] # <<>> /\ stack[current] \in Seq(Frames)
         /\ Len(stack[current]) \in Nat \ {0}
         /\ Top = stack[current][1] /\ Top \in Frames
         /\ FrameShape(Top) /\ FrameOf(current, Top)
         /\ ThreadOK(current, stack[current], state[current])
         /\ GoodStack(current, stack[current])
         /\ Running(IntrOn, current, stack[current], state)
         /\ Len(stack[current]) > 1 => Calls(Top, stack[current][2])
         /\ Top.fn \notin {"body", "init"} => Len(stack[current]) > 1
         /\ state[current] = "TASK_SLEEPING" => Top.fn = "schedule" /\ stack[current][2].fn = "P"
         /\ Exited(Top) => state[current] = "TASK_ZOMBIE"
         /\ IntrOn \in BOOLEAN
         /\ IntrOn = (Open(Top) /\ (Top.fn = "schedule" => UnmaskedCaller(stack[current][2])))
         /\ ~Panicking(Top)
<1> DEFINE s == stack[current]
<1>1. current \in Tasks /\ s \in Seq(Frames) /\ s # <<>>
      /\ ThreadOK(current, s, state[current]) /\ Running(IntrOn, current, s, state)
  BY DEF SchedInv, Running
<1>2. GoodStack(current, s)
  BY <1>1 DEF ThreadOK
<1>3. Len(s) \in Nat \ {0} /\ Top = s[1] /\ Top \in Frames
  BY <1>1, ReturnFacts DEF Top
<1>4. /\ FrameShape(Top) /\ FrameOf(current, Top)
      /\ Len(s) > 1 => Calls(Top, s[2])
      /\ Top.fn \notin {"body", "init"} => Len(s) > 1
  BY <1>1, <1>2, <1>3 DEF GoodStack
<1>5. /\ state[current] = "TASK_SLEEPING" => Top.fn = "schedule" /\ s[2].fn = "P"
      /\ Exited(Top) => state[current] = "TASK_ZOMBIE"
  BY <1>1, <1>3 DEF ThreadOK
<1>6. /\ IntrOn \in BOOLEAN
      /\ IntrOn = (Open(Top) /\ (Top.fn = "schedule" => UnmaskedCaller(s[2])))
      /\ ~Panicking(Top)
  BY <1>1, <1>3 DEF SchedInv, Running, OpenTop
<1>. QED  BY <1>1, <1>2, <1>3, <1>4, <1>5, <1>6

(* The thread that the boot thread has not yet finished is not running. *)
LEMMA BootThread ==
  ASSUME SchedInv, BootAt("copy") \/ BootAt("wakeup")
  PROVE  /\ proc_list[1] \in Threads /\ proc_list[1] \in Tasks /\ proc_list[1] # current
         /\ proc_list[1] # idle /\ state[proc_list[1]] = "TASK_READY"
<1>1. proc_list # <<>> /\ proc_list \in Seq(Threads) /\ state[proc_list[1]] = "TASK_READY"
  BY DEF SchedInv, BootInv, ListInv
<1>2. proc_list[1] \in Threads
  BY <1>1
<1>3. proc_list[1] # idle
  BY <1>2, SchedAssumption
<1>. QED  BY <1>1, <1>2, <1>3 DEF SchedInv, Running, Tasks

(* A statement that changes the interrupt flag, the stack of the running    *)
(* thread and the states of threads that the boot thread has finished.      *)
TaskStates == {"TASK_READY", "TASK_SLEEPING", "TASK_RUNNABLE", "TASK_ZOMBIE"}

LEMMA ThreadStep ==
  ASSUME SchedInv, NEW r, stack' = [stack EXCEPT ![current] = r],
         UNCHANGED <<current, proc_list>>, IntrOn' \in BOOLEAN,
         state' \in [Tasks -> TaskStates],
         \A t \in Tasks \ {current} : ThreadOK(t, stack[t], state'[t]),
         \A t \in Tasks : state[t] = "TASK_READY" => state'[t] = "TASK_READY",
         ThreadOK(current, r, state'[current]), Running(IntrOn', current, r, state'),
         \A i \in 1..Len(r) :
           r[i].fn = "init" /\ r[i].at \in {"copy", "wakeup"} =>
             \E j \in 1..Len(stack[current]) :
               stack[current][j].fn = "init" /\ stack[current][j].at = r[i].at
  PROVE  SchedInv'
<1>1. /\ stack'[current] = r
      /\ \A t \in Tasks \ {current} : stack'[t] = stack[t]
  BY DEF SchedInv
<1>2. r \in Seq(Frames) /\ r # <<>>
  BY DEF ThreadOK, GoodStack, Running
<1>3. stack' \in [Tasks -> Seq(Frames)]
  BY <1>2 DEF SchedInv
<1>4. \A t \in Tasks : ThreadOK(t, stack'[t], state'[t])
  BY <1>1
<1>5. \A t \in Tasks \ {current'} : Suspended(stack'[t])
  BY <1>1 DEF SchedInv
<1>6. Running(IntrOn', current', stack'[current'], state')
  BY <1>1
<1>7. \A t \in Threads : stack'[t] # <<>> => stack[t] # <<>>
  BY <1>1 DEF SchedInv, Running, Tasks
<1>8. ListInv'
  BY <1>7 DEF SchedInv, ListInv, InList
<1>9. \A a \in {"copy", "wakeup"} : BootAt(a)' => BootAt(a)
  <2>1. CASE current = idle
    BY <1>1, <2>1 DEF BootAt
  <2>2. CASE current # idle
    BY <1>1, <2>2 DEF BootAt, Tasks
  <2>. QED  BY <2>1, <2>2
<1>10. BootAt("copy") \/ BootAt("wakeup") => proc_list[1] # current /\ proc_list[1] \in Tasks
  BY BootThread
<1>11. BootInv'
  BY <1>1, <1>9, <1>10 DEF SchedInv, BootInv
<1>. QED  BY <1>3, <1>4, <1>5, <1>6, <1>8, <1>11 DEF SchedInv, TaskStates

LEMMA QuietStep ==
  ASSUME SchedInv, NEW r, stack' = [stack EXCEPT ![current] = r],
         UNCHANGED <<current, proc_list, state>>, IntrOn' \in BOOLEAN,
         ThreadOK(current, r, state[current]), Running(IntrOn', current, r, state),
         \A i \in 1..Len(r) :
           r[i].fn = "init" /\ r[i].at \in {"copy", "wakeup"} =>
             \E j \in 1..Len(stack[current]) :
               stack[current][j].fn = "init" /\ stack[current][j].at = r[i].at
  PROVE  SchedInv'
<1>1. /\ state' \in [Tasks -> TaskStates]
      /\ \A t \in Tasks \ {current} : ThreadOK(t, stack[t], state'[t])
  BY DEF SchedInv, TaskStates
<1>. QED  BY <1>1, ThreadStep

(* The running frame becomes f. *)
LEMMA SetTopStep ==
  ASSUME SchedInv, NEW f \in Frames, SetTop(f), UNCHANGED <<current, proc_list, state>>,
         FrameShape(f), f.fn = Top.fn, f.fn # "init", ~Panicking(f),
         Len(stack[current]) > 1 => Calls(f, stack[current][2]),
         Exited(f) => state[current] = "TASK_ZOMBIE",
         IntrOn' \in BOOLEAN,
         IntrOn' = (Open(f) /\ (f.fn = "schedule" => UnmaskedCaller(stack[current][2]))),
         f.fn = "schedule" /\ f.at = "unmask" =>
           current = idle \/ state[current] = "TASK_RUNNABLE",
         f.fn = "schedule" /\ f.at = "run" =>
           f.arg = idle \/ (f.arg \in Threads /\ state[f.arg] = "TASK_RUNNABLE")
  PROVE  SchedInv'
<1> DEFINE s == stack[current]
           r == <<f>> \o Tail(s)
<1>1. /\ s # <<>> /\ s \in Seq(Frames) /\ Len(s) \in Nat \ {0} /\ Top = s[1]
      /\ ThreadOK(current, s, state[current]) /\ Running(IntrOn, current, s, state)
      /\ Top.fn \notin {"body", "init"} => Len(s) > 1
  BY TopFacts
<1>2. ThreadOK(current, r, state[current])
  BY <1>1, SetTopThread
<1>3. /\ r # <<>> /\ Len(r) = Len(s) /\ r[1] = f /\ \A i \in 2..Len(s) : r[i] = s[i]
  BY <1>1, SetTopFacts
<1>4. stack' = [stack EXCEPT ![current] = r]
  BY DEF SetTop
<1> HIDE DEF r
<1>5. f.fn = "schedule" => r[2] = s[2]
  BY <1>1, <1>3
<1>6. Running(IntrOn', current, r, state)
  BY <1>1, <1>3, <1>5 DEF Running, OpenTop
<1>7. \A i \in 1..Len(r) : r[i].fn = "init" => i \in 1..Len(s) /\ s[i] = r[i]
  BY <1>1, <1>3
<1> HIDE DEF s
<1>8. \A i \in 1..Len(r) :
        r[i].fn = "init" /\ r[i].at \in {"copy", "wakeup"} =>
          \E j \in 1..Len(s) : s[j].fn = "init" /\ s[j].at = r[i].at
  BY <1>7
<1>. QED  BY <1>2, <1>4, <1>6, <1>8, QuietStep DEF s

(* The running frame, which becomes g, calls f. *)
LEMMA CallStep ==
  ASSUME SchedInv, NEW f \in Frames, NEW g \in Frames,
         stack' = [stack EXCEPT ![current] = <<f, g>> \o Tail(@)],
         UNCHANGED <<current, proc_list, state>>,
         FrameShape(f), FrameOf(current, f), f.fn \notin {"timer_handler", "init"}, ~Exited(f),
         FrameShape(g), g.fn = Top.fn, g.fn = "init" => g.at = "spin",
         Calls(f, g), Len(stack[current]) > 1 => Calls(g, stack[current][2]),
         Exited(g) => state[current] = "TASK_ZOMBIE",
         state[current] # "TASK_SLEEPING", f.at = "mask",
         IntrOn' \in BOOLEAN, IntrOn' = (Open(f) /\ (f.fn = "schedule" => UnmaskedCaller(g)))
  PROVE  SchedInv'
<1> DEFINE s == stack[current]
           r == <<f, g>> \o Tail(s)
<1>1. /\ s # <<>> /\ s \in Seq(Frames) /\ Len(s) \in Nat \ {0} /\ Top = s[1]
      /\ ThreadOK(current, s, state[current]) /\ Running(IntrOn, current, s, state)
  BY TopFacts
<1>2. ThreadOK(current, r, state[current])
  BY <1>1, CallThread
<1>3. /\ r # <<>> /\ Len(r) = Len(s) + 1 /\ r[1] = f /\ r[2] = g
      /\ \A i \in 2..Len(s) : r[i + 1] = s[i]
  BY <1>1, CallFacts
<1>4. stack' = [stack EXCEPT ![current] = r]
  OBVIOUS
<1> HIDE DEF r
<1>5. Running(IntrOn', current, r, state)
  BY <1>1, <1>3 DEF Running, OpenTop, Panicking
<1> HIDE DEF s
<1>6. ASSUME NEW i \in 1..Len(r), r[i].fn = "init", r[i].at \in {"copy", "wakeup"}
      PROVE  i - 1 \in 1..Len(s) /\ s[i - 1] = r[i]
  <2>1. i # 1 /\ i # 2
    BY <1>3, <1>6
  <2>2. i - 1 \in 2..Len(s) /\ (i - 1) + 1 = i
    BY <1>1, <1>3, <2>1
  <2>. QED  BY <1>3, <2>2
<1>7. \A i \in 1..Len(r) :
        r[i].fn = "init" /\ r[i].at \in {"copy", "wakeup"} =>
          \E j \in 1..Len(s) : s[j].fn = "init" /\ s[j].at = r[i].at
  BY <1>6
<1>. QED  BY <1>2, <1>4, <1>5, <1>7, QuietStep DEF s

(* The running frame returns to the one below it. *)
LEMMA ReturnStep ==
  ASSUME SchedInv, Return, UNCHANGED <<current, proc_list, state>>,
         Top.fn \notin {"body", "init"}, state[current] # "TASK_SLEEPING",
         IntrOn' \in BOOLEAN,
         LET g == stack[current][2]
         IN  /\ IntrOn' = (Open(g) /\ (g.fn = "schedule" => UnmaskedCaller(stack[current][3])))
             /\ g.fn = "schedule" => g.at = "mask"
             /\ ~Panicking(g)
  PROVE  SchedInv'
<1> DEFINE s == stack[current]
           r == Tail(s)
<1>1. /\ s # <<>> /\ s \in Seq(Frames) /\ Len(s) \in Nat \ {0} /\ Top = s[1]
      /\ ThreadOK(current, s, state[current]) /\ Running(IntrOn, current, s, state)
      /\ Len(s) > 1 /\ GoodStack(current, s)
  BY TopFacts
<1>2. ThreadOK(current, r, state[current])
  BY <1>1, ReturnThread
<1>3. /\ r # <<>> /\ Len(r) = Len(s) - 1 /\ \A i \in 1..Len(r) : r[i] = s[i + 1]
  BY <1>1, ReturnFacts
<1>4. stack' = [stack EXCEPT ![current] = r]
  BY DEF Return
<1> HIDE DEF r
<1>5. r[1] = s[2]
  BY <1>1, <1>3
<1>6. r[1].fn = "schedule" => r[2] = s[3]
  <2>1. r[1].fn = "schedule" => Len(s) > 2
    BY <1>1, <1>5 DEF GoodStack
  <2>. QED  BY <1>1, <1>3, <2>1
<1>7. Running(IntrOn', current, r, state)
  BY <1>1, <1>3, <1>5, <1>6 DEF Running, OpenTop
<1>8. \A i \in 1..Len(r) : i + 1 \in 1..Len(s) /\ r[i] = s[i + 1]
  BY <1>1, <1>3
<1> HIDE DEF s
<1>9. \A i \in 1..Len(r) :
        r[i].fn = "init" /\ r[i].at \in {"copy", "wakeup"} =>
          \E j \in 1..Len(s) : s[j].fn = "init" /\ s[j].at = r[i].at
  BY <1>8
<1>. QED  BY <1>2, <1>4, <1>7, <1>9, QuietStep DEF s

(* The interrupt. *)
LEMMA TimerInterruptStep ==
  ASSUME SchedInv, TimerInterrupt
  PROVE  SchedInv'
<1> DEFINE s == stack[current]
           f == Frame("timer_handler", "mask")
           r == <<f>> \o s
<1>1. /\ s # <<>> /\ s \in Seq(Frames) /\ Len(s) \in Nat \ {0} /\ Top = s[1]
      /\ ThreadOK(current, s, state[current]) /\ Running(IntrOn, current, s, state)
      /\ state[current] = "TASK_SLEEPING" => Top.fn = "schedule" /\ s[2].fn = "P"
  BY TopFacts
<1>2. f \in Frames /\ FrameShape(f) /\ f.fn = "timer_handler" /\ f.at = "mask"
  <2>1. f \in Frames /\ f.fn = "timer_handler" /\ f.at = "mask" /\ f.flag = FALSE
    BY DEF Frame, Frames, Nothing
  <2>. QED  BY <2>1 DEF FrameShape
<1>3. IntrOn /\ OpenTop(s)
  BY <1>1 DEF TimerInterrupt, Running
<1>4. state[current] # "TASK_SLEEPING"
  BY <1>1, <1>3 DEF OpenTop, UnmaskedCaller
<1>5. stack' = [stack EXCEPT ![current] = r] /\ IntrOn' = FALSE
      /\ UNCHANGED <<current, proc_list, state>>
  BY DEF TimerInterrupt
<1> HIDE DEF f
<1>6. ThreadOK(current, r, state[current])
  BY <1>1, <1>2, <1>3, <1>4, InterruptThread
<1>7. /\ r # <<>> /\ Len(r) = Len(s) + 1 /\ r[1] = f /\ \A i \in 1..Len(s) : r[i + 1] = s[i]
  BY <1>1, <1>2, PushFacts
<1> HIDE DEF r
<1>8. Running(IntrOn', current, r, state)
  BY <1>1, <1>2, <1>5, <1>7 DEF Running, OpenTop, Panicking, Open
<1> HIDE DEF s
<1>9. ASSUME NEW i \in 1..Len(r), r[i].fn = "init", r[i].at \in {"copy", "wakeup"}
      PROVE  i - 1 \in 1..Len(s) /\ s[i - 1] = r[i]
  <2>1. i # 1
    BY <1>2, <1>7, <1>9
  <2>2. i - 1 \in 1..Len(s) /\ (i - 1) + 1 = i
    BY <1>1, <1>7, <2>1
  <2>. QED  BY <1>7, <2>2
<1>10. \A i \in 1..Len(r) :
        r[i].fn = "init" /\ r[i].at \in {"copy", "wakeup"} =>
          \E j \in 1..Len(s) : s[j].fn = "init" /\ s[j].at = r[i].at
  BY <1>9
<1>. QED  BY <1>5, <1>6, <1>8, <1>10, QuietStep DEF s

-----------------------------------------------------------------------------
(* The statements of schedule(), of the timer interrupt, of do_exit() and   *)
(* of P() and V() that leave the state of every thread alone.               *)
LEMMA MaskSteps ==
  ASSUME SchedInv, NEW a,
         \/ At("schedule", "mask") /\ a = "pick"
         \/ At("timer_handler", "mask") /\ a = "call"
         \/ At("do_exit", "mask") /\ a = "zombie"
         \/ At("P", "mask") /\ a = "dec"
         \/ At("V", "mask") /\ a = "inc",
         atom_disable_intr(a), UNCHANGED <<current, proc_list, state>>
  PROVE  SchedInv'
<1> DEFINE f == [Top EXCEPT !.at = a, !.flag = IntrOn]
<1>0. /\ Top \in Frames /\ FrameShape(Top) /\ IntrOn \in BOOLEAN
      /\ Len(stack[current]) > 1 => Calls(Top, stack[current][2])
      /\ IntrOn = (Open(Top) /\ (Top.fn = "schedule" => UnmaskedCaller(stack[current][2])))
  BY TopFacts
<1>1. f \in Frames /\ f.fn = Top.fn /\ f.at = a /\ f.arg = Top.arg /\ f.flag = IntrOn
  BY <1>0 DEF Frames, At
<1>2. SetTop(f) /\ IntrOn' = FALSE
  BY DEF atom_disable_intr
<1> HIDE DEF f
<1>3. FrameShape(f) /\ f.fn # "init" /\ ~Exited(f) /\ ~Open(f)
  BY <1>0, <1>1 DEF FrameShape, At, Open, Exited
<1>4. Len(stack[current]) > 1 => Calls(f, stack[current][2])
  BY <1>0, <1>1 DEF Calls, Open, UnmaskedCaller, At
<1>5. ~(f.at = "unmask") /\ ~(f.at = "run")
  BY <1>1
<1>6. ~Panicking(f)
  BY <1>1 DEF Panicking
<1>. QED  BY <1>1, <1>2, <1>3, <1>4, <1>5, <1>6, SetTopStep

LEMMA GotoSteps ==
  ASSUME SchedInv, NEW a,
         \/ At("P", "dec") /\ a \in {"sleep", "unmask"}
         \/ At("V", "inc") /\ a \in {"wake", "unmask"},
         Goto(a), UNCHANGED <<IntrOn, current, proc_list, state>>
  PROVE  SchedInv'
<1> DEFINE f == [Top EXCEPT !.at = a]
<1>0. /\ Top \in Frames /\ FrameShape(Top) /\ IntrOn \in BOOLEAN
      /\ Len(stack[current]) > 1 => Calls(Top, stack[current][2])
      /\ IntrOn = (Open(Top) /\ (Top.fn = "schedule" => UnmaskedCaller(stack[current][2])))
  BY TopFacts
<1>1. f \in Frames /\ f.fn = Top.fn /\ f.at = a /\ f.arg = Top.arg /\ f.flag = Top.flag
  BY <1>0 DEF Frames, At
<1>2. SetTop(f) /\ IntrOn' = IntrOn
  BY DEF Goto
<1> HIDE DEF f
<1>3. FrameShape(f) /\ f.fn \notin {"init", "schedule"} /\ ~Exited(f) /\ ~Open(f) /\ ~Open(Top)
  BY <1>0, <1>1 DEF FrameShape, At, Open, Exited
<1>4. Len(stack[current]) > 1 => Calls(f, stack[current][2])
  BY <1>0, <1>1 DEF Calls, At
<1>5. ~Panicking(f)
  BY <1>0, <1>1 DEF Panicking, At
<1>. QED  BY <1>0, <1>1, <1>2, <1>3, <1>4, <1>5, SetTopStep

LEMMA UnmaskSteps ==
  ASSUME SchedInv, NEW a,
         \/ At("timer_handler", "unmask") /\ a = "iret"
         \/ At("do_exit", "unmask") /\ a = "call",
         atom_enable_intr, Goto(a), UNCHANGED <<current, proc_list, state>>
  PROVE  SchedInv'
<1> DEFINE f == [Top EXCEPT !.at = a]
<1>0. /\ Top \in Frames /\ FrameShape(Top) /\ IntrOn \in BOOLEAN
      /\ Len(stack[current]) > 1 => Calls(Top, stack[current][2])
      /\ IntrOn = (Open(Top) /\ (Top.fn = "schedule" => UnmaskedCaller(stack[current][2])))
      /\ Exited(Top) => state[current] = "TASK_ZOMBIE"
  BY TopFacts
<1>1. f \in Frames /\ f.fn = Top.fn /\ f.at = a /\ f.arg = Top.arg /\ f.flag = Top.flag
  BY <1>0 DEF Frames, At
<1>2. SetTop(f)
  BY DEF Goto
<1>a. Top.flag \in BOOLEAN /\ IntrOn' = (IntrOn \/ Top.flag)
  BY <1>0 DEF Frames, atom_enable_intr
<1> HIDE DEF f
<1>3. FrameShape(f) /\ f.fn \notin {"init", "schedule"} /\ (Exited(f) => Exited(Top)) /\ ~Open(Top)
  BY <1>0, <1>1 DEF FrameShape, At, Open, Exited
<1>4. Len(stack[current]) > 1 => Calls(f, stack[current][2])
  BY <1>0, <1>1 DEF Calls, At
<1>5. Open(f) <=> Top.flag
  BY <1>0, <1>1 DEF FrameShape, At, Open
<1>6. /\ IntrOn' \in BOOLEAN
      /\ IntrOn' = (Open(f) /\ (f.fn = "schedule" => UnmaskedCaller(stack[current][2])))
  BY <1>0, <1>a, <1>3, <1>5
<1>7. ~Panicking(f)
  BY <1>0, <1>1 DEF Panicking, At
<1>. QED  BY <1>0, <1>1, <1>2, <1>3, <1>4, <1>6, <1>7, SetTopStep

(* Those that return to their caller: the flag decides whether interrupts   *)
(* are on again.                                                            *)
LEMMA ReturnSteps ==
  ASSUME SchedInv,
         \/ At("schedule", "unmask") \/ At("P", "unmask") \/ At("V", "unmask"),
         atom_enable_intr, Return, UNCHANGED <<current, proc_list, state>>
  PROVE  SchedInv'
<1> DEFINE g == stack[current][2]
<1>0. /\ Top \in Frames /\ FrameShape(Top) /\ IntrOn \in BOOLEAN
      /\ Top = stack[current][1]
      /\ Top.fn \notin {"body", "init"} => Calls(Top, g)
      /\ IntrOn = (Open(Top) /\ (Top.fn = "schedule" => UnmaskedCaller(g)))
      /\ state[current] = "TASK_SLEEPING" => Top.fn = "schedule"
      /\ state[current] = "TASK_SLEEPING" => current # idle
      /\ Running(IntrOn, current, stack[current], state)
      /\ Top.fn \notin {"body", "init"} => FrameOf(current, g)
      /\ Top.fn \notin {"body", "init"} => (Exited(g) => state[current] = "TASK_ZOMBIE")
  BY TopFacts DEF ThreadOK, GoodStack
<1>1. Top.fn \notin {"body", "init"} /\ ~Open(Top) /\ Top.at = "unmask"
  BY <1>0 DEF At, Open
<1>2. state[current] # "TASK_SLEEPING"
  BY <1>0, <1>1 DEF Running
<1>3. Calls(Top, g)
  BY <1>0, <1>1
<1>4. Top.flag \in BOOLEAN /\ IntrOn' = (IntrOn \/ Top.flag)
  BY <1>0 DEF Frames, atom_enable_intr
<1>a. Top.fn = "schedule" => ~(g.fn = "do_exit" /\ g.at = "panic")
  BY <1>0, <1>1, SchedAssumption DEF FrameOf, Exited, Running
<1>5. (Open(g) <=> Top.flag) /\ g.fn # "schedule"
  BY <1>0, <1>1, <1>3, <1>a DEF FrameShape, Calls, At, Open
<1>6. /\ IntrOn' \in BOOLEAN
      /\ IntrOn' = (Open(g) /\ (g.fn = "schedule" => UnmaskedCaller(stack[current][3])))
  BY <1>0, <1>1, <1>4, <1>5
<1>7. ~Panicking(g)
  BY <1>0, <1>1, <1>3, <1>a DEF Calls, Panicking, At
<1>. QED  BY <1>1, <1>2, <1>5, <1>6, <1>7, ReturnStep

LEMMA TimerReturnStep ==
  ASSUME SchedInv, TimerReturn
  PROVE  SchedInv'
<1> DEFINE s == stack[current]
<1>0. /\ Top = s[1] /\ Len(s) > 1 /\ Len(s) \in Nat /\ Calls(Top, s[2]) /\ GoodStack(current, s)
      /\ state[current] = "TASK_SLEEPING" => Top.fn = "schedule"
      /\ Top.fn = "timer_handler"
  BY TopFacts DEF TimerReturn, At
<1>1. Open(s[2])
  BY <1>0 DEF Calls
<1>2. s[2].fn = "schedule" => UnmaskedCaller(s[3]) /\ s[2].at = "mask"
  <2> SUFFICES ASSUME s[2].fn = "schedule"  PROVE UnmaskedCaller(s[3]) /\ s[2].at = "mask"
    OBVIOUS
  <2>1. Len(s) # 2
    BY <1>0 DEF GoodStack
  <2>2. \A n \in Nat : n > 1 /\ n # 2 => 1 \in 1..(n - 2)
    OBVIOUS
  <2>3. 1 \in 1..(Len(s) - 2)
    BY <1>0, <2>1, <2>2
  <2>. QED  BY <1>0, <1>1, <2>3 DEF GoodStack, Open
<1>3. ~Panicking(s[2])
  BY <1>1 DEF Open, Panicking
<1>. QED  BY <1>0, <1>1, <1>2, <1>3, ReturnStep DEF TimerReturn

(* Those that call a function. *)
LEMMA CallSteps ==
  ASSUME SchedInv, NEW f, NEW a, Call(f, a), UNCHANGED <<IntrOn, current, proc_list, state>>,
         f \in Frames, f.at = "mask",
         \/ At("timer_handler", "call") /\ a = "unmask" /\ f.fn = "schedule" /\ ~f.flag
         \/ At("do_exit", "call") /\ a = "panic" /\ f.fn = "schedule"
         \/ At("init", "insert") /\ a = "spin" /\ f.fn = "schedule"
         \/ At("body", "run") /\ a = "run" /\ f.fn = "do_exit"
         \/ At("body", "run") /\ a = "run" /\ f.fn \in {"P", "V"} /\ f.arg \in Sems
  PROVE  SchedInv'
<1> DEFINE g == [Top EXCEPT !.at = a]
<1>0. /\ Top \in Frames /\ FrameShape(Top) /\ FrameOf(current, Top) /\ IntrOn \in BOOLEAN
      /\ Len(stack[current]) > 1 => Calls(Top, stack[current][2])
      /\ IntrOn = (Open(Top) /\ (Top.fn = "schedule" => UnmaskedCaller(stack[current][2])))
      /\ Exited(Top) => state[current] = "TASK_ZOMBIE"
      /\ state[current] = "TASK_SLEEPING" => Top.fn = "schedule"
  BY TopFacts
<1>1. g \in Frames /\ g.fn = Top.fn /\ g.at = a /\ g.arg = Top.arg /\ g.flag = Top.flag
  BY <1>0 DEF Frames, At
<1>2. stack' = [stack EXCEPT ![current] = <<f, g>> \o Tail(@)]
  BY DEF Call
<1> HIDE DEF g
<1>3. /\ FrameShape(f) /\ FrameOf(current, f) /\ f.fn \notin {"timer_handler", "init"}
      /\ ~Exited(f) /\ FrameShape(g) /\ (g.fn = "init" => g.at = "spin")
  BY <1>0, <1>1 DEF FrameShape, FrameOf, Exited, At
<1>4. Calls(f, g) /\ (Exited(g) => Exited(Top)) /\ Top.fn # "schedule"
  BY <1>0, <1>1 DEF Calls, Exited, At, FrameShape, Open
<1>5. Len(stack[current]) > 1 => Calls(g, stack[current][2])
  BY <1>0, <1>1 DEF Calls, At
<1>6. IntrOn = (Open(f) /\ (f.fn = "schedule" => UnmaskedCaller(g)))
  BY <1>0, <1>1 DEF Open, UnmaskedCaller, At
<1>. QED  BY <1>0, <1>1, <1>2, <1>3, <1>4, <1>5, <1>6, CallStep

-----------------------------------------------------------------------------
(* What schedule() finds is idle or a runnable thread. *)
LEMMA MinExists ==
  ASSUME NEW T, T \subseteq Nat, T # {}
  PROVE  \E x \in T : \A y \in T : x <= y
<1> DEFINE R == OpToRel(<, Nat)
<1>1. IsWellFoundedOn(R, Nat)
  BY NatLessThanWellFounded
<1>2. \A x, y \in Nat : <<y, x>> \in R <=> y < x
  BY DEF OpToRel
<1> HIDE DEF R
<1>3. PICK x \in T : \A y \in T : ~(<<y, x>> \in R)
  BY <1>1, WFMin
<1>4. ASSUME NEW y \in T  PROVE x <= y
  <2>1. x \in Nat /\ y \in Nat /\ ~(y < x)
    BY <1>2, <1>3
  <2>. QED  BY <2>1
<1>. QED  BY <1>4

LEMMA RingType ==
  ASSUME SchedInv
  PROVE  RingAfter(current) \in Seq(Threads)
<1>0. proc_list \in Seq(Threads) /\ Len(proc_list) \in Nat
  BY DEF SchedInv, ListInv
<1>1. CASE current = idle
  BY <1>0, <1>1 DEF RingAfter
<1>2. CASE current # idle
  <2> DEFINE i == CHOOSE j \in 1..Len(proc_list) : proc_list[j] = current
  <2>1. \E j \in 1..Len(proc_list) : proc_list[j] = current
    BY <1>2 DEF SchedInv, Tasks, Running, ListInv, InList
  <2>2. i \in 1..Len(proc_list)
    BY <2>1
  <2> HIDE DEF i
  <2>3. \A k \in (i + 1)..Len(proc_list) : proc_list[k] \in Threads
    BY <1>0, <2>2
  <2>4. \A k \in 1..(i - 1) : proc_list[k] \in Threads
    BY <1>0, <2>2
  <2>5. SubSeq(proc_list, i + 1, Len(proc_list)) \in Seq(Threads)
    BY <1>0, <2>2, <2>3, SubSeqProperties
  <2>6. SubSeq(proc_list, 1, i - 1) \in Seq(Threads)
    BY <1>0, <2>2, <2>4, SubSeqProperties
  <2>7. RingAfter(current) = SubSeq(proc_list, i + 1, Len(proc_list)) \o SubSeq(proc_list, 1, i - 1)
    BY <1>2 DEF RingAfter, i
  <2>8. \A u, v \in Seq(Threads) : u \o v \in Seq(Threads)
    OBVIOUS
  <2>. QED  BY <2>5, <2>6, <2>7, <2>8
<1>. QED  BY <1>1, <1>2

LEMMA TargetRunnable ==
  ASSUME NEW ring \in Seq(Threads)
  PROVE  \/ target_pcb(ring) = idle
         \/ target_pcb(ring) \in Threads /\ state[target_pcb(ring)] = "TASK_RUNNABLE"
<1> DEFINE runnable == {i \in 1..Len(ring) : state[ring[i]] = "TASK_RUNNABLE"}
           m == CHOOSE i \in runnable : \A j \in runnable : i <= j
<1>1. target_pcb(ring) = IF runnable = {} THEN idle ELSE ring[m]
  BY DEF target_pcb
<1>2. CASE runnable = {}
  BY <1>1, <1>2
<1>3. CASE runnable # {}
  <2>1. runnable \subseteq Nat
    OBVIOUS
  <2>2. \E i \in runnable : \A j \in runnable : i <= j
    <3> HIDE DEF runnable
    <3>. QED  BY <1>3, <2>1, MinExists
  <2>3. m \in runnable
    <3> HIDE DEF runnable
    <3>. QED  BY <2>2
  <2> HIDE DEF m
  <2>. QED  BY <1>1, <1>3, <2>3
<1>. QED  BY <1>2, <1>3

LEMMA SchedulePickStep ==
  ASSUME SchedInv, SchedulePick
  PROVE  SchedInv'
<1> DEFINE target == target_pcb(RingAfter(current))
           f == [Top EXCEPT !.at = "run", !.arg = target]
<1>0. /\ Top \in Frames /\ FrameShape(Top) /\ IntrOn \in BOOLEAN
      /\ Len(stack[current]) > 1 => Calls(Top, stack[current][2])
      /\ IntrOn = (Open(Top) /\ (Top.fn = "schedule" => UnmaskedCaller(stack[current][2])))
      /\ Top.fn = "schedule" /\ Top.at = "pick"
  BY TopFacts DEF SchedulePick, At
<1>1. target = idle \/ (target \in Threads /\ state[target] = "TASK_RUNNABLE")
  BY RingType, TargetRunnable
<1>2. SetTop(f) /\ UNCHANGED <<IntrOn, current, proc_list, state>>
  BY DEF SchedulePick
<1> HIDE DEF target
<1>3. f \in Frames /\ f.fn = Top.fn /\ f.at = "run" /\ f.arg = target /\ f.flag = Top.flag
  BY <1>0, <1>1 DEF Frames, Tasks
<1> HIDE DEF f
<1>4. FrameShape(f) /\ ~Open(f) /\ ~Open(Top) /\ ~Exited(f)
  BY <1>0, <1>3 DEF FrameShape, Open, Exited
<1>5. Len(stack[current]) > 1 => Calls(f, stack[current][2])
  BY <1>0, <1>3 DEF Calls
<1>6. ~Panicking(f)
  BY <1>0, <1>3 DEF Panicking
<1>. QED  BY <1>0, <1>1, <1>2, <1>3, <1>4, <1>5, <1>6, SetTopStep

(* The switch: the thread that runs next was suspended in schedule(), or    *)
(* is new; both continue with interrupts masked.                            *)
LEMMA RunThreadStep ==
  ASSUME SchedInv, run_thread
  PROVE  SchedInv'
<1> DEFINE s == stack[current]
           f == [Top EXCEPT !.at = "unmask"]
           r == <<f>> \o Tail(s)
           next == Top.arg
<1>0. /\ current \in Tasks /\ s # <<>> /\ s \in Seq(Frames) /\ Top = s[1] /\ Top \in Frames
      /\ FrameShape(Top) /\ IntrOn \in BOOLEAN
      /\ ThreadOK(current, s, state[current]) /\ Running(IntrOn, current, s, state)
      /\ Len(s) > 1 /\ Calls(Top, s[2])
      /\ IntrOn = (Open(Top) /\ (Top.fn = "schedule" => UnmaskedCaller(s[2])))
      /\ Top.fn = "schedule" /\ Top.at = "run"
  BY TopFacts DEF run_thread, At
<1>1. f \in Frames /\ f.fn = Top.fn /\ f.at = "unmask" /\ f.flag = Top.flag
  BY <1>0 DEF Frames
<1>2. /\ stack' = [stack EXCEPT ![current] = r] /\ current' = next
      /\ UNCHANGED <<IntrOn, proc_list, state>>
  BY DEF run_thread, Goto, SetTop
<1> HIDE DEF f, next
<1>3. FrameShape(f) /\ ~Exited(f) /\ Calls(f, s[2]) /\ ~Open(Top) /\ ~IntrOn
  BY <1>0, <1>1 DEF FrameShape, Exited, Calls, Open
<1>4. ThreadOK(current, r, state[current])
  BY <1>0, <1>1, <1>3, SetTopThread
<1>5. r # <<>> /\ r[1] = f /\ r \in Seq(Frames)
  BY <1>0, <1>1, SetTopFacts
<1> HIDE DEF r
<1>6. /\ next \in Tasks
      /\ next = idle \/ (next \in Threads /\ state[next] = "TASK_RUNNABLE")
  BY <1>0 DEF Running, Tasks, next
<1>7. /\ stack'[current] = r
      /\ \A t \in Tasks \ {current} : stack'[t] = stack[t]
  BY <1>2 DEF SchedInv
<1>8. stack' \in [Tasks -> Seq(Frames)]
  BY <1>2, <1>5 DEF SchedInv
<1>9. \A t \in Tasks : ThreadOK(t, stack'[t], state'[t])
  BY <1>2, <1>4, <1>7 DEF SchedInv
<1>10. \A t \in Tasks : Suspended(stack'[t])
  BY <1>1, <1>0, <1>5, <1>7 DEF SchedInv, Suspended
<1>11. stack'[next] # <<>>
  BY <1>6, <1>9, <1>2 DEF ThreadOK
<1>12. ~Open(stack'[next][1]) /\ ~(stack'[next][1].fn = "schedule" /\ stack'[next][1].at = "run")
      /\ ~Panicking(stack'[next][1])
  BY <1>6, <1>10, <1>11 DEF Suspended, Open, Panicking
<1>13. Running(IntrOn', current', stack'[current'], state')
  BY <1>0, <1>2, <1>3, <1>6, <1>11, <1>12 DEF Running, OpenTop
<1>14. \A t \in Threads : stack'[t] # <<>> => stack[t] # <<>>
  BY <1>0, <1>7 DEF Tasks
<1>15. ListInv'
  BY <1>2, <1>14 DEF SchedInv, ListInv, InList
<1>16. \A a \in {"copy", "wakeup"} : BootAt(a)' => BootAt(a)
  <2>1. CASE current = idle
    <3>1. /\ Len(r) = Len(s) /\ \A i \in 2..Len(s) : r[i] = s[i]
      BY <1>0, <1>1, SetTopFacts DEF r
    <3>2. \A i \in 1..Len(r) : r[i].fn = "init" => i \in 1..Len(s) /\ r[i] = s[i]
      BY <1>0, <1>1, <1>5, <3>1
    <3> HIDE DEF s
    <3>3. \A a : (\E i \in 1..Len(r) : r[i].fn = "init" /\ r[i].at = a)
                   => \E i \in 1..Len(s) : s[i].fn = "init" /\ s[i].at = a
      BY <3>2
    <3>. QED  BY <1>7, <2>1, <3>3 DEF BootAt, s
  <2>2. CASE current # idle
    BY <1>7, <2>2 DEF BootAt, Tasks
  <2>. QED  BY <2>1, <2>2
<1>17. BootAt("copy") \/ BootAt("wakeup") =>
         proc_list[1] # current /\ proc_list[1] \in Tasks
  BY BootThread
<1>18. BootInv'
  BY <1>2, <1>7, <1>16, <1>17 DEF SchedInv, BootInv
<1>. QED  BY <1>2, <1>6, <1>8, <1>9, <1>10, <1>13, <1>15, <1>18 DEF SchedInv

-----------------------------------------------------------------------------
(* The statements that change the state of a thread. *)
LEMMA ExitZombieStep ==
  ASSUME SchedInv, ExitZombie
  PROVE  SchedInv'
<1> DEFINE s == stack[current]
           f == [Top EXCEPT !.at = "unmask"]
           r == <<f>> \o Tail(s)
<1>0. /\ current \in Tasks /\ s # <<>> /\ s \in Seq(Frames) /\ Top = s[1] /\ Top \in Frames
      /\ FrameShape(Top) /\ FrameOf(current, Top) /\ IntrOn \in BOOLEAN
      /\ ThreadOK(current, s, state[current]) /\ Running(IntrOn, current, s, state)
      /\ Len(s) \in Nat /\ Len(s) > 1 /\ Calls(Top, s[2])
      /\ IntrOn = (Open(Top) /\ (Top.fn = "schedule" => UnmaskedCaller(s[2])))
      /\ Top.fn = "do_exit" /\ Top.at = "zombie"
  BY TopFacts DEF ExitZombie, At
<1>1. f \in Frames /\ f.fn = Top.fn /\ f.at = "unmask" /\ f.flag = Top.flag
  BY <1>0 DEF Frames
<1>2. /\ stack' = [stack EXCEPT ![current] = r]
      /\ state' = [state EXCEPT ![current] = "TASK_ZOMBIE"]
      /\ UNCHANGED <<IntrOn, current, proc_list>>
  BY DEF ExitZombie, Goto, SetTop
<1> HIDE DEF f
<1>3. FrameShape(f) /\ Calls(f, s[2]) /\ ~Open(Top) /\ ~Open(f) /\ ~IntrOn
  BY <1>0, <1>1 DEF FrameShape, Calls, Open
<1>4. current \in Threads /\ current # idle
  BY <1>0, SchedAssumption DEF FrameOf
<1>5. /\ state \in [Tasks -> TaskStates] /\ state'[current] = "TASK_ZOMBIE"
      /\ state' \in [Tasks -> TaskStates]
      /\ \A t \in Tasks \ {current} : state'[t] = state[t]
  BY <1>0, <1>2 DEF SchedInv, TaskStates
<1>6. ThreadOK(current, s, "TASK_ZOMBIE")
  BY <1>0, <1>4 DEF ThreadOK
<1>7. ThreadOK(current, r, state'[current])
  BY <1>0, <1>1, <1>3, <1>5, <1>6, SetTopThread
<1>8. /\ r # <<>> /\ r[1] = f /\ Len(r) = Len(s) /\ \A i \in 2..Len(s) : r[i] = s[i]
  BY <1>0, <1>1, SetTopFacts
<1> HIDE DEF r
<1>9. Running(IntrOn', current, r, state')
  BY <1>0, <1>1, <1>2, <1>3, <1>5, <1>8 DEF Running, OpenTop, Panicking
<1>10. \A t \in Tasks \ {current} : ThreadOK(t, stack[t], state'[t])
  BY <1>5 DEF SchedInv
<1>11. \A t \in Tasks : state[t] = "TASK_READY" => state'[t] = "TASK_READY"
  BY <1>0, <1>4, <1>5 DEF Running
<1>12. \A i \in 1..Len(r) : r[i].fn # "init"
  <2>1. \A i \in 1..Len(s) : s[i].fn # "init"
    BY <1>0, <1>4 DEF ThreadOK, GoodStack, FrameOf
  <2>. QED  BY <1>0, <1>1, <1>8, <2>1
<1>. QED  BY <1>0, <1>2, <1>5, <1>7, <1>9, <1>10, <1>11, <1>12, ThreadStep

LEMMA PSleepStep ==
  ASSUME SchedInv, PSleep
  PROVE  SchedInv'
<1> DEFINE s == stack[current]
           f == Frame("schedule", "mask")
           g == [Top EXCEPT !.at = "unmask"]
           r == <<f, g>> \o Tail(s)
<1>0. /\ current \in Tasks /\ s # <<>> /\ s \in Seq(Frames) /\ Top = s[1] /\ Top \in Frames
      /\ FrameShape(Top) /\ FrameOf(current, Top) /\ IntrOn \in BOOLEAN
      /\ ThreadOK(current, s, state[current]) /\ Running(IntrOn, current, s, state)
      /\ Len(s) \in Nat /\ Len(s) > 1 /\ Calls(Top, s[2])
      /\ IntrOn = (Open(Top) /\ (Top.fn = "schedule" => UnmaskedCaller(s[2])))
      /\ Top.fn = "P" /\ Top.at = "sleep"
  BY TopFacts DEF PSleep, At
<1>1. g \in Frames /\ g.fn = Top.fn /\ g.at = "unmask" /\ g.flag = Top.flag /\ g.arg = Top.arg
  BY <1>0 DEF Frames
<1>a. f \in Frames /\ f.fn = "schedule" /\ f.at = "mask" /\ ~f.flag
  BY DEF Frame, Frames, Nothing
<1>2. /\ stack' = [stack EXCEPT ![current] = r]
      /\ state' = [state EXCEPT ![current] = "TASK_SLEEPING"]
      /\ UNCHANGED <<IntrOn, current, proc_list>>
  BY DEF PSleep, Call
<1> HIDE DEF f, g
<1>3. /\ FrameShape(f) /\ FrameShape(g) /\ Calls(f, g) /\ Calls(g, s[2]) /\ FrameOf(current, f)
      /\ ~Exited(f) /\ ~Exited(g) /\ ~Open(Top) /\ ~UnmaskedCaller(g) /\ ~IntrOn
  BY <1>0, <1>1, <1>a DEF FrameShape, Calls, Open, Exited, UnmaskedCaller, FrameOf
<1>4. current \in Threads /\ current # idle
  BY <1>0, SchedAssumption DEF FrameOf
<1>5. /\ state \in [Tasks -> TaskStates] /\ state'[current] = "TASK_SLEEPING"
      /\ state' \in [Tasks -> TaskStates]
      /\ \A t \in Tasks \ {current} : state'[t] = state[t]
  BY <1>0, <1>2 DEF SchedInv, TaskStates
<1>6. \A i \in 1..Len(s) : ~Exited(s[i])
  <2>1. Len(s) = 2
    <3>1. s[2].fn = "body"
      BY <1>0 DEF Calls
    <3>2. CASE Len(s) > 2
      BY <1>0, <3>1, <3>2 DEF ThreadOK, GoodStack, Calls
    <3>3. Len(s) \in Nat /\ Len(s) > 1
      BY <1>0
    <3>4. \A n \in Nat : n > 1 /\ ~(n > 2) => n = 2
      OBVIOUS
    <3>. QED  BY <3>2, <3>3, <3>4
  <2>2. ~Exited(s[1]) /\ ~Exited(s[2])
    BY <1>0 DEF Exited, Calls
  <2>3. \A i \in 1..2 : i = 1 \/ i = 2
    OBVIOUS
  <2> HIDE DEF s
  <2>. QED  BY <2>1, <2>2, <2>3
<1>7. GoodStack(current, r)
  BY <1>0, <1>1, <1>a, <1>3, CallGood DEF ThreadOK
<1>8. /\ r # <<>> /\ r[1] = f /\ r[2] = g /\ Len(r) = Len(s) + 1
      /\ \A i \in 2..Len(s) : r[i + 1] = s[i]
  BY <1>0, <1>1, <1>a, CallFacts
<1> HIDE DEF r
<1>9. \A i \in 3..Len(r) : i - 1 \in 1..Len(s) /\ r[i] = s[i - 1]
  BY <1>0, <1>8
<1>10. \A i \in 1..Len(r) : ~Exited(r[i]) /\ r[i].fn # "init"
  <2>1. \A i \in 1..Len(s) : s[i].fn # "init"
    BY <1>0, <1>4 DEF ThreadOK, GoodStack, FrameOf
  <2>. QED  BY <1>0, <1>1, <1>a, <1>3, <1>6, <1>8, <1>9, <2>1
<1>11. ThreadOK(current, r, state'[current])
  BY <1>0, <1>1, <1>a, <1>4, <1>5, <1>7, <1>8, <1>10 DEF ThreadOK
<1>12. Running(IntrOn', current, r, state')
  BY <1>0, <1>1, <1>a, <1>2, <1>3, <1>4, <1>5, <1>8 DEF Running, OpenTop, Panicking
<1>13. \A t \in Tasks \ {current} : ThreadOK(t, stack[t], state'[t])
  BY <1>5 DEF SchedInv
<1>14. \A t \in Tasks : state[t] = "TASK_READY" => state'[t] = "TASK_READY"
  BY <1>0, <1>4, <1>5 DEF Running
<1>. QED  BY <1>0, <1>2, <1>5, <1>10, <1>11, <1>12, <1>13, <1>14, ThreadStep

(* V() wakes a thread u that sleeps in P(). *)
LEMMA VWakeStep ==
  ASSUME SchedInv, VWake, Head(queue[Top.arg]) \in Threads,
         state[Head(queue[Top.arg])] = "TASK_SLEEPING"
  PROVE  SchedInv'
<1> DEFINE s == stack[current]
           f == [Top EXCEPT !.at = "unmask"]
           r == <<f>> \o Tail(s)
           u == Head(queue[Top.arg])
<1>0. /\ current \in Tasks /\ s # <<>> /\ s \in Seq(Frames) /\ Top = s[1] /\ Top \in Frames
      /\ FrameShape(Top) /\ FrameOf(current, Top) /\ IntrOn \in BOOLEAN
      /\ ThreadOK(current, s, state[current]) /\ Running(IntrOn, current, s, state)
      /\ Len(s) \in Nat /\ Len(s) > 1 /\ Calls(Top, s[2])
      /\ IntrOn = (Open(Top) /\ (Top.fn = "schedule" => UnmaskedCaller(s[2])))
      /\ Top.fn = "V" /\ Top.at = "wake"
      /\ state[current] = "TASK_SLEEPING" => Top.fn = "schedule"
  BY TopFacts DEF VWake, At
<1>1. f \in Frames /\ f.fn = Top.fn /\ f.at = "unmask" /\ f.flag = Top.flag /\ f.arg = Top.arg
  BY <1>0 DEF Frames
<1>2. /\ stack' = [stack EXCEPT ![current] = r]
      /\ state' = [state EXCEPT ![u] = "TASK_RUNNABLE"]
      /\ UNCHANGED <<IntrOn, current, proc_list>>
  BY DEF VWake, Goto, SetTop
<1>b. u \in Threads /\ u \in Tasks /\ u # idle /\ state[u] = "TASK_SLEEPING"
  BY SchedAssumption DEF Tasks
<1> HIDE DEF f, u
<1>3. FrameShape(f) /\ Calls(f, s[2]) /\ ~Open(Top) /\ ~Open(f) /\ ~IntrOn /\ ~Exited(f)
  BY <1>0, <1>1 DEF FrameShape, Calls, Open, Exited
<1>4. current \in Threads /\ current # idle /\ current # u
  BY <1>0, <1>b, SchedAssumption DEF FrameOf
<1>5. /\ state \in [Tasks -> TaskStates] /\ state'[u] = "TASK_RUNNABLE"
      /\ state' \in [Tasks -> TaskStates]
      /\ \A t \in Tasks \ {u} : state'[t] = state[t]
  BY <1>b, <1>2 DEF SchedInv, TaskStates
<1>6. ThreadOK(current, r, state'[current])
  BY <1>0, <1>1, <1>3, <1>4, <1>5, SetTopThread
<1>7. /\ r # <<>> /\ r[1] = f /\ Len(r) = Len(s) /\ \A i \in 2..Len(s) : r[i] = s[i]
  BY <1>0, <1>1, SetTopFacts
<1> HIDE DEF r
<1>8. Running(IntrOn', current, r, state')
  BY <1>0, <1>1, <1>2, <1>3, <1>4, <1>5, <1>7 DEF Running, OpenTop, Panicking
<1>9. ThreadOK(u, stack[u], "TASK_RUNNABLE")
  <2>1. ThreadOK(u, stack[u], "TASK_SLEEPING")
    BY <1>b DEF SchedInv
  <2>. QED  BY <1>b, <2>1 DEF ThreadOK
<1>10. \A t \in Tasks \ {current} : ThreadOK(t, stack[t], state'[t])
  BY <1>5, <1>9 DEF SchedInv
<1>11. \A t \in Tasks : state[t] = "TASK_READY" => state'[t] = "TASK_READY"
  BY <1>b, <1>5
<1>12. \A i \in 1..Len(r) : r[i].fn # "init"
  <2>1. \A i \in 1..Len(s) : s[i].fn # "init"
    BY <1>0, <1>4 DEF ThreadOK, GoodStack, FrameOf
  <2>. QED  BY <1>0, <1>1, <1>7, <2>1
<1>. QED  BY <1>0, <1>2, <1>5, <1>6, <1>8, <1>10, <1>11, <1>12, ThreadStep

-----------------------------------------------------------------------------
(* The boot thread. *)
LEMMA InitTop ==
  ASSUME SchedInv, Top.fn = "init"
  PROVE  /\ current = idle /\ Len(stack[idle]) = 1 /\ Tail(stack[idle]) = <<>>
         /\ IntrOn = TRUE /\ idle \in Tasks
<1>0. /\ FrameOf(current, Top) /\ stack[current] \in Seq(Frames) /\ stack[current] # <<>>
      /\ Len(stack[current]) \in Nat \ {0}
      /\ Len(stack[current]) > 1 => Calls(Top, stack[current][2])
      /\ IntrOn \in BOOLEAN
      /\ IntrOn = (Open(Top) /\ (Top.fn = "schedule" => UnmaskedCaller(stack[current][2])))
  BY TopFacts
<1>1. current = idle
  BY <1>0 DEF FrameOf
<1>2. Len(stack[current]) = 1
  <2>1. Len(stack[current]) \in Nat \ {0} /\ ~(Len(stack[current]) > 1)
    BY <1>0 DEF Calls
  <2>2. \A n \in Nat \ {0} : ~(n > 1) => n = 1
    OBVIOUS
  <2>. QED  BY <2>1, <2>2
<1>3. Tail(stack[current]) = <<>>
  <2>1. stack[current] \in Seq(Frames) /\ stack[current] # <<>> /\ ~(Len(stack[current]) > 1)
    BY <1>0, <1>2
  <2>. QED  BY <2>1, ReturnFacts
<1>4. IntrOn = TRUE
  BY <1>0 DEF Open
<1>. QED  BY <1>1, <1>2, <1>3, <1>4 DEF Tasks

(* A stack of the boot thread that has only its frame f of init(). *)
LEMMA InitStack ==
  ASSUME NEW f \in Frames, FrameShape(f), f.fn = "init"
  PROVE  /\ <<f>> \in Seq(Frames) /\ <<f>> # <<>> /\ Len(<<f>>) = 1 /\ <<f>>[1] = f
         /\ ThreadOK(idle, <<f>>, "TASK_READY")
         /\ \A st : Running(TRUE, idle, <<f>>, st)
<1> DEFINE r == <<f>>
<1>1. r \in Seq(Frames) /\ r # <<>> /\ Len(r) = 1 /\ r[1] = f
  OBVIOUS
<1>2. FrameOf(idle, f) /\ ~Exited(f) /\ Open(f)
  BY DEF FrameOf, Exited, Open
<1> HIDE DEF r
<1>3. \A i \in 1..1 : i = 1
  OBVIOUS
<1>4. GoodStack(idle, r)
  BY <1>1, <1>2, <1>3 DEF GoodStack
<1>5. ThreadOK(idle, r, "TASK_READY")
  BY <1>1, <1>2, <1>3, <1>4 DEF ThreadOK
<1>6. \A st : Running(TRUE, idle, r, st)
  BY <1>1, <1>2 DEF Running, OpenTop, Panicking
<1>. QED  BY <1>1, <1>5, <1>6 DEF r

(* A statement of init() after which the boot thread is in frame f. *)
LEMMA InitStep ==
  ASSUME SchedInv, NEW f \in Frames, FrameShape(f), f.fn = "init", current = idle,
         IntrOn' = TRUE, current' = idle, stack'[idle] = <<f>>,
         stack' \in [Tasks -> Seq(Frames)], state' \in [Tasks -> TaskStates],
         state'[idle] = "TASK_READY",
         \A t \in Threads : ThreadOK(t, stack'[t], state'[t]) /\ Suspended(stack'[t]),
         ListInv',
         f.at = "copy" \/ f.at = "wakeup" =>
           proc_list' # <<>> /\ state'[proc_list'[1]] = "TASK_READY",
         f.at = "copy" => stack'[proc_list'[1]] = <<>>,
         f.at = "wakeup" => stack'[proc_list'[1]] # <<>>
  PROVE  SchedInv'
<1>1. /\ <<f>> \in Seq(Frames) /\ <<f>> # <<>> /\ Len(<<f>>) = 1 /\ <<f>>[1] = f
      /\ ThreadOK(idle, <<f>>, "TASK_READY")
      /\ Running(TRUE, idle, <<f>>, state')
  BY InitStack
<1>2. \A t \in Tasks : ThreadOK(t, stack'[t], state'[t])
  BY <1>1 DEF Tasks
<1>3. \A t \in Tasks \ {current'} : Suspended(stack'[t])
  BY DEF Tasks
<1>4. Running(IntrOn', current', stack'[current'], state')
  BY <1>1
<1>5. \A a : BootAt(a)' => f.at = a
  BY <1>1 DEF BootAt
<1>6. BootInv'
  BY <1>5 DEF BootInv
<1>. QED  BY <1>2, <1>3, <1>4, <1>6 DEF SchedInv, TaskStates, Tasks

LEMMA ForkInsertStep ==
  ASSUME SchedInv, ForkInsert
  PROVE  SchedInv'
<1> DEFINE f == [Top EXCEPT !.at = "copy"]
           n == Len(proc_list)
<1>0. /\ Top \in Frames /\ Top.fn = "init" /\ Top.at = "insert"
      /\ current = idle /\ Tail(stack[idle]) = <<>> /\ IntrOn = TRUE /\ idle \in Tasks
  BY TopFacts, InitTop DEF ForkInsert, At
<1>1. f \in Frames /\ f.fn = "init" /\ f.at = "copy"
  BY <1>0 DEF Frames
<1> HIDE DEF f
<1>2. FrameShape(f)
  BY <1>1 DEF FrameShape
<1>3. /\ stack' = [stack EXCEPT ![idle] = <<f>> \o <<>>]
      /\ proc_list' = <<NewThread>> \o proc_list
      /\ UNCHANGED <<IntrOn, current, state>> /\ n < Len(Order)
  BY <1>0 DEF ForkInsert, Goto, SetTop, f
<1>4. <<f>> \o <<>> = <<f>> /\ <<f>> \in Seq(Frames)
  BY <1>1
<1>5. /\ stack'[idle] = <<f>> /\ stack' \in [Tasks -> Seq(Frames)]
      /\ \A t \in Tasks \ {idle} : stack'[t] = stack[t]
  BY <1>0, <1>3, <1>4 DEF SchedInv
<1>6. \A t \in Threads : t \in Tasks \ {idle}
  BY SchedAssumption DEF Tasks
<1>7. \A t \in Threads : ThreadOK(t, stack'[t], state'[t]) /\ Suspended(stack'[t])
  BY <1>0, <1>3, <1>5, <1>6 DEF SchedInv
<1>8. /\ proc_list \in Seq(Threads) /\ n \in Nat /\ n <= Len(Order) /\ Len(Order) \in Nat
      /\ \A i \in 1..n : proc_list[i] = Order[n + 1 - i]
      /\ \A t \in Threads : stack[t] # <<>> => InList(t)
  BY SchedAssumption DEF SchedInv, ListInv
<1>9. n + 1 \in 1..Len(Order) /\ NewThread = Order[n + 1] /\ NewThread \in Threads
  BY <1>3, <1>8, SchedAssumption DEF NewThread, Threads
<1>10. /\ proc_list' \in Seq(Threads) /\ proc_list' # <<>> /\ Len(proc_list') = n + 1
       /\ proc_list'[1] = NewThread
       /\ \A i \in 1..n : proc_list'[i + 1] = proc_list[i]
  BY <1>3, <1>8, <1>9, PushFacts
<1> HIDE DEF n
<1>11. ~InList(NewThread)
  <2> SUFFICES ASSUME NEW i \in 1..n, proc_list[i] = NewThread  PROVE FALSE
    BY DEF InList, n
  <2>1. n + 1 - i \in 1..Len(Order) /\ n + 1 - i # n + 1
    BY <1>8, <1>9
  <2>. QED  BY <1>8, <1>9, <2>1, SchedAssumption
<1>12. stack[NewThread] = <<>> /\ state[NewThread] = "TASK_READY"
  BY <1>6, <1>8, <1>9, <1>11 DEF SchedInv, ThreadOK
<1>13. ListInv'
  <2>1. ASSUME NEW i \in 1..(n + 1)  PROVE proc_list'[i] = Order[n + 1 + 1 - i]
    <3>1. CASE i = 1
      <4>1. n + 1 + 1 - i = n + 1
        BY <1>8, <3>1
      <4>. QED  BY <1>9, <1>10, <3>1, <4>1
    <3>2. CASE i # 1
      <4>1. i - 1 \in 1..n /\ (i - 1) + 1 = i /\ n + 1 - (i - 1) = n + 1 + 1 - i
        BY <1>8, <3>2
      <4>. QED  BY <1>8, <1>10, <4>1
    <3>. QED  BY <3>1, <3>2
  <2>2. n + 1 <= Len(Order)
    BY <1>8, <1>9
  <2>3. ASSUME NEW t \in Threads, stack'[t] # <<>>  PROVE InList(t)'
    <3>1. InList(t)
      BY <1>5, <1>6, <1>8, <2>3
    <3>2. PICK i \in 1..n : proc_list[i] = t
      BY <3>1 DEF InList, n
    <3>3. i + 1 \in 1..Len(proc_list') /\ proc_list'[i + 1] = t
      BY <1>8, <1>10, <3>2
    <3>. QED  BY <3>3 DEF InList
  <2>. QED  BY <1>10, <2>1, <2>2, <2>3 DEF ListInv
<1>14. state' \in [Tasks -> TaskStates] /\ state'[idle] = "TASK_READY"
  BY <1>0, <1>3 DEF SchedInv, ThreadOK, TaskStates
<1>15. stack'[proc_list'[1]] = <<>> /\ state'[proc_list'[1]] = "TASK_READY"
  BY <1>3, <1>5, <1>6, <1>9, <1>10, <1>12
<1>. QED  BY <1>0, <1>1, <1>2, <1>3, <1>5, <1>7, <1>10, <1>13, <1>14, <1>15, InitStep

LEMMA NewStackOK ==
  ASSUME NEW t \in Threads
  PROVE  /\ NewStack \in Seq(Frames) /\ NewStack # <<>> /\ Suspended(NewStack)
         /\ ThreadOK(t, NewStack, "TASK_READY")
<1> DEFINE f == Frame("timer_handler", "iret")
           g == Frame("body", "run")
           r == <<f, g>>
<1>1. /\ f \in Frames /\ f.fn = "timer_handler" /\ f.at = "iret" /\ ~f.flag
      /\ g \in Frames /\ g.fn = "body" /\ g.at = "run"
  BY DEF Frame, Frames, Nothing
<1> HIDE DEF f, g
<1>2. r \in Seq(Frames) /\ r # <<>> /\ Len(r) = 2 /\ r[1] = f /\ r[2] = g
  BY <1>1
<1> HIDE DEF r
<1>3. \A i \in 1..2 : i = 1 \/ i = 2
  OBVIOUS
<1>4. \A i \in 1..(2 - 1) : i = 1
  OBVIOUS
<1>5. \A i \in 1..(2 - 2) : FALSE
  OBVIOUS
<1>6. FrameShape(f) /\ FrameShape(g) /\ FrameOf(t, f) /\ FrameOf(t, g) /\ Calls(f, g)
      /\ ~Exited(f) /\ ~Exited(g)
  BY <1>1, SchedAssumption DEF FrameShape, FrameOf, Calls, Open, Exited
<1>7. GoodStack(t, r)
  <2>1. \A i \in 1..Len(r) : FrameShape(r[i]) /\ FrameOf(t, r[i])
    BY <1>2, <1>3, <1>6
  <2>2. \A i \in 1..(Len(r) - 1) : Calls(r[i], r[i + 1])
    BY <1>2, <1>4, <1>6
  <2>3. \A i \in 1..(Len(r) - 2) : FALSE
    BY <1>2, <1>5
  <2>. QED  BY <1>1, <1>2, <2>1, <2>2, <2>3 DEF GoodStack
<1>8. ThreadOK(t, r, "TASK_READY")
  BY <1>2, <1>3, <1>6, <1>7, SchedAssumption DEF ThreadOK
<1>9. Suspended(r)
  BY <1>1, <1>2 DEF Suspended
<1>10. NewStack = r
  BY DEF NewStack, r, f, g
<1>. QED  BY <1>2, <1>8, <1>9, <1>10

LEMMA InitAt ==
  ASSUME SchedInv, NEW a, At("init", a)
  PROVE  BootAt(a)
<1>1. current = idle /\ Len(stack[idle]) = 1
  BY InitTop DEF At
<1>2. Top = stack[idle][1]
  BY <1>1, TopFacts
<1>. QED  BY <1>1, <1>2 DEF At, BootAt

LEMMA CopyThreadStep ==
  ASSUME SchedInv, copy_thread
  PROVE  SchedInv'
<1> DEFINE f == Frame("init", "wakeup")
           u == proc_list[1]
<1>0. /\ current = idle /\ IntrOn = TRUE /\ idle \in Tasks /\ BootAt("copy")
  BY InitTop, InitAt DEF copy_thread, At
<1>1. f \in Frames /\ f.fn = "init" /\ f.at = "wakeup"
  BY DEF Frame, Frames, Nothing
<1>a. FrameShape(f) /\ <<f>> \in Seq(Frames)
  BY <1>1 DEF FrameShape
<1>2. /\ proc_list # <<>> /\ proc_list \in Seq(Threads) /\ Head(proc_list) = u
      /\ u \in Threads /\ u # idle /\ u \in Tasks /\ state[u] = "TASK_READY"
  BY <1>0, BootThread DEF SchedInv, BootInv, ListInv
<1>3. /\ stack' = [stack EXCEPT ![u] = NewStack, ![idle] = <<f>>]
      /\ UNCHANGED <<IntrOn, current, proc_list, state>>
  BY <1>2 DEF copy_thread, LastThread
<1> HIDE DEF f, u
<1>4. NewStack \in Seq(Frames) /\ NewStack # <<>> /\ Suspended(NewStack)
      /\ ThreadOK(u, NewStack, "TASK_READY")
  BY <1>2, NewStackOK
<1>5. /\ stack'[idle] = <<f>> /\ stack'[u] = NewStack
      /\ \A t \in Tasks \ {idle, u} : stack'[t] = stack[t]
      /\ stack' \in [Tasks -> Seq(Frames)]
  BY <1>0, <1>a, <1>2, <1>3, <1>4 DEF SchedInv
<1>6. \A t \in Threads : ThreadOK(t, stack'[t], state'[t]) /\ Suspended(stack'[t])
  <2> SUFFICES ASSUME NEW t \in Threads
               PROVE  ThreadOK(t, stack'[t], state'[t]) /\ Suspended(stack'[t])
    OBVIOUS
  <2>1. t \in Tasks /\ t # idle
    BY SchedAssumption DEF Tasks
  <2>2. CASE t = u
    BY <1>2, <1>3, <1>4, <1>5, <2>2
  <2>3. CASE t # u
    BY <1>0, <1>3, <1>5, <2>1, <2>3 DEF SchedInv
  <2>. QED  BY <2>2, <2>3
<1>7. InList(u)
  BY <1>2 DEF InList, u
<1>8. \A t \in Threads : stack'[t] # <<>> => InList(t)
  <2> SUFFICES ASSUME NEW t \in Threads, stack'[t] # <<>>, t # u  PROVE InList(t)
    BY <1>7
  <2>1. t \in Tasks /\ t # idle
    BY SchedAssumption DEF Tasks
  <2>. QED  BY <1>5, <2>1 DEF SchedInv, ListInv
<1>9. ListInv'
  BY <1>3, <1>8 DEF SchedInv, ListInv, InList
<1>10. state' \in [Tasks -> TaskStates] /\ state'[idle] = "TASK_READY"
  BY <1>0, <1>3 DEF SchedInv, ThreadOK, TaskStates
<1>11. proc_list' # <<>> /\ state'[proc_list'[1]] = "TASK_READY" /\ stack'[proc_list'[1]] # <<>>
  BY <1>2, <1>3, <1>4, <1>5 DEF u
<1>. QED  BY <1>0, <1>1, <1>a, <1>3, <1>5, <1>6, <1>9, <1>10, <1>11, InitStep

LEMMA WakeupProcessStep ==
  ASSUME SchedInv, wakeup_process
  PROVE  SchedInv'
<1> DEFINE f == [Top EXCEPT !.at = "insert"]
           u == proc_list[1]
<1>0. /\ Top \in Frames /\ Top.fn = "init" /\ Top.at = "wakeup"
      /\ current = idle /\ Tail(stack[idle]) = <<>> /\ IntrOn = TRUE /\ idle \in Tasks
      /\ BootAt("wakeup")
  BY TopFacts, InitTop, InitAt DEF wakeup_process, At
<1>1. f \in Frames /\ f.fn = "init" /\ f.at = "insert"
  BY <1>0 DEF Frames
<1>2. /\ proc_list # <<>> /\ proc_list \in Seq(Threads) /\ Head(proc_list) = u
      /\ u \in Threads /\ u # idle /\ u \in Tasks /\ state[u] = "TASK_READY"
      /\ stack[u] # <<>>
  BY <1>0, BootThread DEF SchedInv, BootInv, ListInv
<1>3. /\ stack' = [stack EXCEPT ![idle] = <<f>> \o <<>>]
      /\ state' = [state EXCEPT ![u] = "TASK_RUNNABLE"]
      /\ UNCHANGED <<IntrOn, current, proc_list>>
  BY <1>0, <1>2 DEF wakeup_process, Goto, SetTop, LastThread
<1> HIDE DEF f, u
<1>4. FrameShape(f) /\ <<f>> \o <<>> = <<f>> /\ <<f>> \in Seq(Frames)
  BY <1>1 DEF FrameShape
<1>5. /\ stack'[idle] = <<f>> /\ stack' \in [Tasks -> Seq(Frames)]
      /\ \A t \in Tasks \ {idle} : stack'[t] = stack[t]
      /\ state'[u] = "TASK_RUNNABLE" /\ state' \in [Tasks -> TaskStates]
      /\ \A t \in Tasks \ {u} : state'[t] = state[t]
  BY <1>0, <1>2, <1>3, <1>4 DEF SchedInv, TaskStates
<1>6. ThreadOK(u, stack[u], "TASK_RUNNABLE")
  <2>1. ThreadOK(u, stack[u], "TASK_READY")
    BY <1>2 DEF SchedInv
  <2>. QED  BY <1>2, <2>1 DEF ThreadOK
<1>7. \A t \in Threads : ThreadOK(t, stack'[t], state'[t]) /\ Suspended(stack'[t])
  <2> SUFFICES ASSUME NEW t \in Threads
               PROVE  ThreadOK(t, stack'[t], state'[t]) /\ Suspended(stack'[t])
    OBVIOUS
  <2>1. t \in Tasks /\ t # idle
    BY SchedAssumption DEF Tasks
  <2>2. CASE t = u
    BY <1>0, <1>5, <1>6, <2>1, <2>2 DEF SchedInv
  <2>3. CASE t # u
    BY <1>0, <1>5, <2>1, <2>3 DEF SchedInv
  <2>. QED  BY <2>2, <2>3
<1>8. \A t \in Threads : stack'[t] # <<>> => stack[t] # <<>>
  BY <1>5, SchedAssumption DEF Tasks
<1>9. ListInv'
  BY <1>3, <1>8 DEF SchedInv, ListInv, InList
<1>10. state'[idle] = "TASK_READY"
  BY <1>0, <1>2, <1>5 DEF SchedInv, ThreadOK
<1>. QED  BY <1>0, <1>1, <1>3, <1>4, <1>5, <1>7, <1>9, <1>10, InitStep

-----------------------------------------------------------------------------
(* What the threads see of a step: nothing, or one of the four statements   *)
(* of P() and V() that change a semaphore.  Between the two of the same     *)
(* call the CPU is Busy with it, and no other statement is executed.        *)
Busy == At("P", "sleep") \/ At("V", "wake")

SameSleepers == \A t \in Threads : state'[t] = "TASK_SLEEPING" <=> state[t] = "TASK_SLEEPING"

Silent ==
  /\ ~Busy /\ ~Busy'
  /\ UNCHANGED <<value, queue>>
  /\ SameSleepers

(* The statement is executed by a thread that is awake, on semaphore s. *)
By(s) ==
  /\ s \in Sems /\ s = Top.arg
  /\ current \in Threads /\ state[current] # "TASK_SLEEPING"

PDecView(s) ==
  /\ By(s) /\ ~Busy
  /\ value' = [value EXCEPT ![s] = @ - 1]
  /\ UNCHANGED <<current, state, queue>>
  /\ \/ value[s] - 1 < 0 /\ At("P", "sleep")' /\ Top'.arg = s
     \/ ~(value[s] - 1 < 0) /\ ~Busy'

PSleepView(s) ==
  /\ By(s) /\ At("P", "sleep") /\ ~Busy'
  /\ queue' = [queue EXCEPT ![s] = Append(@, current)]
  /\ state' = [state EXCEPT ![current] = "TASK_SLEEPING"]
  /\ UNCHANGED <<current, value>>

VIncView(s) ==
  /\ By(s) /\ ~Busy
  /\ value' = [value EXCEPT ![s] = @ + 1]
  /\ UNCHANGED <<current, state, queue>>
  /\ \/ value[s] + 1 <= 0 /\ At("V", "wake")' /\ Top'.arg = s
     \/ ~(value[s] + 1 <= 0) /\ ~Busy'

VWakeView(s) ==
  /\ By(s) /\ At("V", "wake") /\ ~Busy'
  /\ state' = [state EXCEPT ![Head(queue[s])] = "TASK_RUNNABLE"]
  /\ queue' = [queue EXCEPT ![s] = Tail(@)]
  /\ UNCHANGED <<current, value>>

(* The innermost frame after a statement that changes the stack. *)
LEMMA TopAfter ==
  ASSUME SchedInv
  PROVE  /\ \A f \in Frames : SetTop(f) => stack'[current][1] = f
         /\ \A f \in Frames : \A a : Call(f, a) => stack'[current][1] = f
         /\ Return /\ Top.fn \notin {"body", "init"} =>
              stack'[current][1] = stack[current][2]
<1> DEFINE s == stack[current]
<1>0. s # <<>> /\ s \in Seq(Frames) /\ current \in Tasks
  BY TopFacts
<1>1. stack \in [Tasks -> Seq(Frames)]
  BY DEF SchedInv
<1>2. ASSUME NEW f \in Frames, SetTop(f)
      PROVE  stack'[current][1] = f
  <2>1. stack'[current] = <<f>> \o Tail(s)
    BY <1>0, <1>1, <1>2 DEF SetTop
  <2> HIDE DEF s
  <2>2. (<<f>> \o Tail(s))[1] = f
    BY <1>0, SetTopFacts
  <2>. QED  BY <2>1, <2>2
<1>3. ASSUME NEW f \in Frames, NEW a, Call(f, a)
      PROVE  stack'[current][1] = f
  <2> DEFINE g == [Top EXCEPT !.at = a]
  <2>1. stack'[current] = <<f, g>> \o Tail(s)
    BY <1>0, <1>1, <1>3 DEF Call
  <2>2. Tail(s) \in Seq(Frames)
    BY <1>0
  <2> HIDE DEF g, s
  <2>3. (<<f, g>> \o Tail(s))[1] = f
    BY <2>2
  <2>. QED  BY <2>1, <2>3
<1>4. ASSUME Return, Top.fn \notin {"body", "init"}
      PROVE  stack'[current][1] = s[2]
  <2>1. stack'[current] = Tail(s)
    BY <1>0, <1>1, <1>4 DEF Return
  <2>2. Len(s) > 1
    BY <1>4, TopFacts
  <2> HIDE DEF s
  <2>3. Tail(s)[1] = s[2]
    BY <1>0, <2>2
  <2>. QED  BY <2>1, <2>3
<1>. QED  BY <1>2, <1>3, <1>4

(* V() finds a sleeping thread in the queue. *)
LEMMA WakeFindsSleeper ==
  ASSUME IInv, At("V", "wake")
  PROVE  /\ Top.arg \in Sems /\ Len(queue[Top.arg]) > 0
         /\ Head(queue[Top.arg]) = queue[Top.arg][1] /\ Head(queue[Top.arg]) \in Threads
         /\ state[Head(queue[Top.arg])] = "TASK_SLEEPING"
<1> DEFINE a == Top.arg
           q == queue[a]
<1>1. FrameShape(Top) /\ Top.fn = "V" /\ Top.at = "wake"
  BY TopFacts DEF IInv, At
<1>2. a \in Sems
  BY <1>1 DEF FrameShape
<1>3. Going(a) = 0 /\ Leaving(a) = 1
  BY <1>1 DEF Going, Leaving, At
<1>4. q \in Seq(Threads) /\ value[a] \in Int
  BY <1>2 DEF IInv, QueueInv
<1>5. Len(q) + 0 - 1 = (IF value[a] < 0 THEN -value[a] ELSE 0)
  BY <1>2, <1>3 DEF IInv, QueueInv
<1>6. \A i \in 1..Len(q) : state[q[i]] = "TASK_SLEEPING"
  BY <1>2 DEF IInv, QueueInv
<1> HIDE DEF a, q
<1>7. Len(q) \in Nat /\ Len(q) > 0
  BY <1>4, <1>5
<1>8. Head(q) = q[1] /\ q[1] \in Threads /\ 1 \in 1..Len(q)
  BY <1>4, <1>7
<1>. QED  BY <1>2, <1>6, <1>7, <1>8 DEF a, q

(* No step of the CPU breaks the invariant of the scheduler. *)
LEMMA SchedInvStep ==
  ASSUME IInv, [Next]_vars
  PROVE  SchedInv'
<1> USE DEF IInv
<1>1. CASE schedule
  <2>1. CASE ScheduleMask
    BY <2>1, MaskSteps DEF ScheduleMask
  <2>2. CASE ScheduleUnmask
    BY <2>2, ReturnSteps DEF ScheduleUnmask
  <2>. QED  BY <1>1, <2>1, <2>2, SchedulePickStep, RunThreadStep DEF schedule
<1>2. CASE timer_handler
  <2>1. CASE TimerMask
    BY <2>1, MaskSteps DEF TimerMask
  <2>2. CASE TimerCall
    <3>1. Frame("schedule", "mask") \in Frames
      BY DEF Frame, Frames, Nothing
    <3>. QED  BY <2>2, <3>1, CallSteps DEF TimerCall, Frame
  <2>3. CASE TimerUnmask
    BY <2>3, UnmaskSteps DEF TimerUnmask
  <2>. QED  BY <1>2, <2>1, <2>2, <2>3, TimerReturnStep DEF timer_handler
<1>3. CASE do_exit
  <2>1. CASE ExitMask
    BY <2>1, MaskSteps DEF ExitMask
  <2>2. CASE ExitCall
    <3>1. Frame("schedule", "mask") \in Frames
      BY DEF Frame, Frames, Nothing
    <3>. QED  BY <2>2, <3>1, CallSteps DEF ExitCall, Frame
  <2>3. CASE ExitUnmask
    BY <2>3, UnmaskSteps DEF ExitUnmask
  <2>. QED  BY <1>3, <2>1, <2>2, <2>3, ExitZombieStep DEF do_exit
<1>4. CASE init
  <2>1. CASE BootDone
    <3>1. Frame("schedule", "mask") \in Frames
      BY DEF Frame, Frames, Nothing
    <3>. QED  BY <2>1, <3>1, CallSteps DEF BootDone, Frame
  <2>. QED  BY <1>4, <2>1, ForkInsertStep, CopyThreadStep, WakeupProcessStep DEF init
<1>5. CASE P
  <2>1. CASE PMask
    BY <2>1, MaskSteps DEF PMask
  <2>2. CASE PDec
    <3> DEFINE a == IF value[Top.arg] - 1 < 0 THEN "sleep" ELSE "unmask"
    <3>1. Goto(a) /\ a \in {"sleep", "unmask"}
      BY <2>2 DEF PDec
    <3> HIDE DEF a
    <3>. QED  BY <2>2, <3>1, GotoSteps DEF PDec
  <2>3. CASE PUnmask
    BY <2>3, ReturnSteps DEF PUnmask
  <2>. QED  BY <1>5, <2>1, <2>2, <2>3, PSleepStep DEF P
<1>6. CASE V
  <2>1. CASE VMask
    BY <2>1, MaskSteps DEF VMask
  <2>2. CASE VInc
    <3> DEFINE a == IF value[Top.arg] + 1 <= 0 THEN "wake" ELSE "unmask"
    <3>1. Goto(a) /\ a \in {"wake", "unmask"}
      BY <2>2 DEF VInc
    <3> HIDE DEF a
    <3>. QED  BY <2>2, <3>1, GotoSteps DEF VInc
  <2>3. CASE VUnmask
    BY <2>3, ReturnSteps DEF VUnmask
  <2>4. CASE VWake
    <3>1. At("V", "wake")
      BY <2>4 DEF VWake
    <3>. QED  BY <2>4, <3>1, WakeFindsSleeper, VWakeStep
  <2>. QED  BY <1>6, <2>1, <2>2, <2>3, <2>4 DEF V
<1>7. CASE Timer
  BY <1>7, TimerInterruptStep DEF Timer
<1>8. CASE Client
  <2>1. CASE CallExit
    <3>1. Frame("do_exit", "mask") \in Frames
      BY DEF Frame, Frames, Nothing
    <3>. QED  BY <2>1, <3>1, CallSteps DEF CallExit, Frame
  <2>2. ASSUME NEW s \in Sems, CallP(s)  PROVE SchedInv'
    <3> DEFINE f == [Frame("P", "mask") EXCEPT !.arg = s]
    <3>1. f \in Frames /\ f.fn = "P" /\ f.at = "mask" /\ f.arg = s
      BY DEF Frame, Frames, Nothing
    <3>2. Call(f, "run") /\ At("body", "run") /\ UNCHANGED <<IntrOn, current, proc_list, state>>
      BY <2>2 DEF CallP
    <3> HIDE DEF f
    <3>. QED  BY <3>1, <3>2, CallSteps
  <2>3. ASSUME NEW s \in Sems, CallV(s)  PROVE SchedInv'
    <3> DEFINE f == [Frame("V", "mask") EXCEPT !.arg = s]
    <3>1. f \in Frames /\ f.fn = "V" /\ f.at = "mask" /\ f.arg = s
      BY DEF Frame, Frames, Nothing
    <3>2. Call(f, "run") /\ At("body", "run") /\ UNCHANGED <<IntrOn, current, proc_list, state>>
      BY <2>3 DEF CallV
    <3> HIDE DEF f
    <3>. QED  BY <3>1, <3>2, CallSteps
  <2>. QED  BY <1>8, <2>1, <2>2, <2>3 DEF Client
<1>9. CASE UNCHANGED vars
  BY <1>9 DEF vars, SchedInv, ListInv, BootInv, InList, BootAt
<1>. QED  BY <1>1, <1>2, <1>3, <1>4, <1>5, <1>6, <1>7, <1>8, <1>9 DEF Next, Cpu, Kernel

(* The innermost frame is the running one, before and after a step. *)
LEMMA TopIsFirst == SchedInv => stack[current] # <<>> /\ Top = stack[current][1]
  BY TopFacts

LEMMA TopIsFirstNext == SchedInv' => (stack[current] # <<>> /\ Top = stack[current][1])'
  BY TopIsFirst, PTL

Moving(f) == (f.fn = "P" /\ f.at = "sleep") \/ (f.fn = "V" /\ f.at = "wake")

LEMMA BusyNow == SchedInv => (Busy <=> Moving(stack[current][1]))
  BY TopFacts DEF Busy, Moving, At

LEMMA BusyNext == SchedInv' => (Busy <=> Moving(stack[current][1]))'
  BY BusyNow, PTL

(* A caller is not in the middle of moving a thread. *)
LEMMA CallerNotMoving ==
  ASSUME NEW f, NEW g, Calls(f, g)
  PROVE  ~Moving(g)
  BY DEF Calls, Moving, Open

(* Statements that only change the stack of the running thread. *)
LEMMA SilentSteps ==
  ASSUME SchedInv, SchedInv', UNCHANGED <<current, state, value, queue>>, ~Moving(Top),
         \/ \E f \in Frames : SetTop(f) /\ ~Moving(f)
         \/ \E f \in Frames : \E a : Call(f, a) /\ ~Moving(f)
         \/ Return /\ Top.fn \notin {"body", "init"}
  PROVE  Silent
<1>1. ~Moving(stack'[current][1])
  <2>1. CASE \E f \in Frames : SetTop(f) /\ ~Moving(f)
    BY <2>1, TopAfter
  <2>2. CASE \E f \in Frames : \E a : Call(f, a) /\ ~Moving(f)
    BY <2>2, TopAfter
  <2>3. CASE Return /\ Top.fn \notin {"body", "init"}
    <3>1. Calls(Top, stack[current][2])
      BY <2>3, TopFacts
    <3>. QED  BY <2>3, <3>1, TopAfter, CallerNotMoving
  <2>. QED  BY <2>1, <2>2, <2>3
<1>2. ~Busy
  BY BusyNow, TopIsFirst
<1>3. ~Busy'
  <2>1. Busy' <=> Moving(stack'[current'][1])
    BY BusyNext
  <2>. QED  BY <1>1, <2>1
<1>. QED  BY <1>2, <1>3 DEF Silent, SameSleepers

LEMMA SilentGoto ==
  ASSUME SchedInv, NEW a, \/ atom_disable_intr(a) \/ Goto(a),
         a \in {"pick", "call", "zombie", "dec", "inc", "iret"},
         ~Moving(Top), UNCHANGED <<current, state, value, queue>>, SchedInv'
  PROVE  Silent
<1> DEFINE f == [Top EXCEPT !.at = a]
           g == [Top EXCEPT !.at = a, !.flag = IntrOn]
<1>1. f \in Frames /\ g \in Frames /\ f.at = a /\ g.at = a
  BY TopFacts DEF Frames
<1>2. SetTop(f) \/ SetTop(g)
  BY DEF atom_disable_intr, Goto
<1> HIDE DEF f, g
<1>3. ~Moving(f) /\ ~Moving(g)
  BY <1>1 DEF Moving
<1>. QED  BY <1>1, <1>2, <1>3, SilentSteps

(* The steps of the scheduler, the timer, do_exit() and the boot thread. *)
LEMMA KernelSilent ==
  ASSUME SchedInv, SchedInv', Kernel, UNCHANGED <<value, queue>>
  PROVE  Silent
<1>f. Frame("schedule", "mask") \in Frames /\ ~Moving(Frame("schedule", "mask"))
  BY DEF Frame, Frames, Nothing, Moving
<1>1. CASE schedule
  <2>1. CASE ScheduleMask
    BY <1>1, <2>1, SilentGoto DEF ScheduleMask, At, Moving
  <2>2. CASE ScheduleUnmask
    BY <1>1, <2>2, SilentSteps DEF ScheduleUnmask, At, Moving
  <2>3. CASE SchedulePick
    <3> DEFINE x == target_pcb(RingAfter(current))
               f == [Top EXCEPT !.at = "run", !.arg = x]
    <3>1. SetTop(f) /\ UNCHANGED <<current, state>> /\ ~Moving(Top) /\ Top.fn = "schedule"
      BY <2>3 DEF SchedulePick, At, Moving
    <3>2. x \in Tasks
      BY RingType, TargetRunnable DEF Tasks
    <3>3. f \in Frames /\ ~Moving(f)
      BY <3>1, <3>2, TopFacts DEF Frames, Moving
    <3> HIDE DEF f
    <3>. QED  BY <3>1, <3>3, SilentSteps
  <2>4. CASE run_thread
    <3> DEFINE f == [Top EXCEPT !.at = "unmask"]
    <3>1. /\ SetTop(f) /\ UNCHANGED state /\ current' \in Tasks
          /\ ~Moving(Top) /\ Top.fn = "schedule"
      BY <2>4 DEF run_thread, Goto, At, Moving, SchedInv
    <3>2. f \in Frames /\ ~Moving(f)
      BY <3>1, TopFacts DEF Frames, Moving
    <3> HIDE DEF f
    <3>3. ~Moving(stack'[current'][1])
      <4>1. CASE current' = current
        BY <3>1, <3>2, <4>1, TopAfter
      <4>2. CASE current' # current
        <5>1. stack'[current'] = stack[current']
          BY <3>1, <4>2 DEF SetTop, SchedInv
        <5>2. stack'[current'] # <<>>
          BY TopIsFirstNext
        <5>. QED  BY <3>1, <4>2, <5>1, <5>2 DEF SchedInv, Suspended, Moving
      <4>. QED  BY <4>1, <4>2
    <3>4. ~Busy
      BY <3>1, BusyNow, TopIsFirst
    <3>5. ~Busy'
      BY <3>3, BusyNext
    <3>. QED  BY <3>1, <3>4, <3>5 DEF Silent, SameSleepers
  <2>. QED  BY <1>1, <2>1, <2>2, <2>3, <2>4 DEF schedule
<1>2. CASE timer_handler
  <2>1. CASE TimerMask
    BY <2>1, SilentGoto DEF TimerMask, At, Moving
  <2>2. CASE TimerCall
    BY <1>f, <2>2, SilentSteps DEF TimerCall, At, Moving
  <2>3. CASE TimerUnmask
    BY <2>3, SilentGoto DEF TimerUnmask, At, Moving
  <2>4. CASE TimerReturn
    BY <2>4, SilentSteps DEF TimerReturn, At, Moving
  <2>. QED  BY <1>2, <2>1, <2>2, <2>3, <2>4 DEF timer_handler
<1>3. CASE do_exit
  <2>1. CASE ExitMask
    BY <2>1, SilentGoto DEF ExitMask, At, Moving
  <2>2. CASE ExitCall
    BY <1>f, <2>2, SilentSteps DEF ExitCall, At, Moving
  <2>3. CASE ExitUnmask
    BY <2>3, SilentGoto DEF ExitUnmask, At, Moving
  <2>4. CASE ExitZombie
    <3> DEFINE f == [Top EXCEPT !.at = "unmask"]
    <3>1. /\ SetTop(f) /\ state' = [state EXCEPT ![current] = "TASK_ZOMBIE"]
          /\ current' = current /\ ~Moving(Top) /\ Top.fn = "do_exit"
      BY <2>4 DEF ExitZombie, Goto, At, Moving
    <3>2. f \in Frames /\ ~Moving(f)
      BY <3>1, TopFacts DEF Frames, Moving
    <3> HIDE DEF f
    <3>3. ~Moving(stack'[current'][1])
      BY <3>1, <3>2, TopAfter
    <3>4. ~Busy /\ ~Busy'
      BY <3>1, <3>3, BusyNow, BusyNext, TopIsFirst
    <3>5. state[current] # "TASK_SLEEPING"
      BY <3>1, TopFacts
    <3>6. SameSleepers
      BY <3>1, <3>5 DEF SameSleepers, SchedInv, Tasks
    <3>. QED  BY <3>4, <3>6 DEF Silent
  <2>. QED  BY <1>3, <2>1, <2>2, <2>3, <2>4 DEF do_exit
<1>4. CASE init
  <2>1. Top.fn = "init" /\ ~Moving(Top) /\ current' = current
    BY <1>4 DEF init, ForkInsert, copy_thread, wakeup_process, BootDone, At, Moving
  <2>2. current = idle
    BY <2>1, TopFacts DEF FrameOf
  <2>3. CASE BootDone
    BY <1>f, <2>1, <2>3, SilentSteps DEF BootDone
  <2>4. CASE ForkInsert
    <3> DEFINE f == [Top EXCEPT !.at = "copy"]
    <3>1. SetTop(f) /\ UNCHANGED <<current, state>>
      BY <2>4 DEF ForkInsert, Goto
    <3>2. f \in Frames /\ ~Moving(f)
      BY <2>1, TopFacts DEF Frames, Moving
    <3> HIDE DEF f
    <3>. QED  BY <2>1, <3>1, <3>2, SilentSteps
  <2>5. CASE copy_thread
    <3>1. stack'[idle] = <<Frame("init", "wakeup")>> /\ UNCHANGED <<current, state>>
      BY <2>5 DEF copy_thread, SchedInv, Tasks
    <3>2. ~Moving(stack'[current'][1])
      BY <2>2, <3>1 DEF Frame, Moving
    <3>3. ~Busy /\ ~Busy'
      BY <2>1, <3>2, BusyNow, BusyNext, TopIsFirst
    <3>. QED  BY <3>1, <3>3 DEF Silent, SameSleepers
  <2>6. CASE wakeup_process
    <3> DEFINE f == [Top EXCEPT !.at = "insert"]
               u == LastThread
    <3>1. /\ SetTop(f) /\ state' = [state EXCEPT ![u] = "TASK_RUNNABLE"]
          /\ Top.at = "wakeup"
      BY <2>6 DEF wakeup_process, Goto, At
    <3>2. f \in Frames /\ ~Moving(f)
      BY <2>1, TopFacts DEF Frames, Moving
    <3> HIDE DEF f
    <3>3. ~Moving(stack'[current'][1])
      BY <2>1, <3>1, <3>2, TopAfter
    <3>4. ~Busy /\ ~Busy'
      BY <2>1, <3>3, BusyNow, BusyNext, TopIsFirst
    <3>5. state[u] = "TASK_READY"
      <4>1. BootAt("wakeup")
        BY <2>1, <2>2, <3>1, TopFacts DEF BootAt
      <4>2. proc_list # <<>> /\ state[proc_list[1]] = "TASK_READY" /\ proc_list \in Seq(Threads)
        BY <4>1 DEF SchedInv, BootInv, ListInv
      <4>. QED  BY <4>2 DEF LastThread
    <3>6. SameSleepers
      BY <3>1, <3>5 DEF SameSleepers, SchedInv, Tasks
    <3>. QED  BY <3>4, <3>6 DEF Silent
  <2>. QED  BY <1>4, <2>3, <2>4, <2>5, <2>6 DEF init
<1>. QED  BY <1>1, <1>2, <1>3, <1>4 DEF Kernel

(* The timer interrupt and the calls of a thread's function. *)
LEMMA TimerSilent ==
  ASSUME SchedInv, SchedInv', Timer
  PROVE  Silent
<1> DEFINE f == Frame("timer_handler", "mask")
           s == stack[current]
<1>1. /\ IntrOn /\ UNCHANGED <<current, state, value, queue>>
      /\ stack' = [stack EXCEPT ![current] = <<f>> \o @]
  BY DEF Timer, TimerInterrupt
<1>2. f \in Frames /\ ~Moving(f)
  BY DEF Frame, Frames, Nothing, Moving
<1>3. s \in Seq(Frames) /\ stack'[current] = <<f>> \o s
  BY <1>1, TopFacts DEF SchedInv
<1>4. Open(Top)
  BY <1>1, TopFacts
<1> HIDE DEF f, s
<1>5. (<<f>> \o s)[1] = f
  BY <1>2, <1>3, PushFacts
<1>6. ~Moving(stack'[current'][1])
  BY <1>1, <1>2, <1>3, <1>5
<1>7. ~Moving(Top)
  BY <1>4 DEF Open, Moving
<1>8. ~Busy /\ ~Busy'
  BY <1>6, <1>7, BusyNow, BusyNext, TopIsFirst
<1>. QED  BY <1>1, <1>8 DEF Silent, SameSleepers

LEMMA ClientSilent ==
  ASSUME SchedInv, SchedInv', Client
  PROVE  Silent
<1>1. CASE CallExit /\ UNCHANGED <<value, queue>>
  <2>1. Frame("do_exit", "mask") \in Frames /\ ~Moving(Frame("do_exit", "mask"))
    BY DEF Frame, Frames, Nothing, Moving
  <2>. QED  BY <1>1, <2>1, SilentSteps DEF CallExit, At, Moving
<1>2. ASSUME NEW s \in Sems, CallP(s) \/ CallV(s)  PROVE Silent
  <2>1. PICK fn \in {"P", "V"} : Call([Frame(fn, "mask") EXCEPT !.arg = s], "run")
    BY <1>2 DEF CallP, CallV
  <2> DEFINE f == [Frame(fn, "mask") EXCEPT !.arg = s]
  <2>2. f \in Frames /\ ~Moving(f)
    BY DEF Frame, Frames, Nothing, Moving
  <2>3. ~Moving(Top) /\ UNCHANGED <<current, state, value, queue>>
    BY <1>2 DEF CallP, CallV, At, Moving
  <2> HIDE DEF f
  <2>4. Call(f, "run")
    BY <2>1 DEF f
  <2>. QED  BY <2>2, <2>3, <2>4, SilentSteps
<1>. QED  BY <1>1, <1>2 DEF Client

(* The running thread, at a statement of P() or V(), is awake. *)
LEMMA ByTop ==
  ASSUME SchedInv, Top.fn \in {"P", "V"}
  PROVE  By(Top.arg) /\ Top.arg \in Sems
  BY TopFacts DEF By, FrameShape, FrameOf

(* What becomes visible of the statements of P() ... *)
LEMMA PView ==
  ASSUME SchedInv, SchedInv', P
  PROVE  Silent \/ \E s \in Sems : PDecView(s) \/ PSleepView(s)
<1>f. Frame("schedule", "mask") \in Frames /\ ~Moving(Frame("schedule", "mask"))
  BY DEF Frame, Frames, Nothing, Moving
<1>1. CASE PMask
  BY <1>1, SilentGoto DEF PMask, At, Moving
<1>2. CASE PUnmask
  BY <1>2, SilentSteps DEF PUnmask, At, Moving
<1>3. CASE PDec
  <2> DEFINE a == IF value[Top.arg] - 1 < 0 THEN "sleep" ELSE "unmask"
             f == [Top EXCEPT !.at = a]
             s == Top.arg
  <2>1. /\ SetTop(f) /\ Top.fn = "P" /\ Top.at = "dec" /\ value' = [value EXCEPT ![s] = @ - 1]
        /\ UNCHANGED <<current, state, queue>>
    BY <1>3 DEF PDec, Goto, At
  <2>2. f \in Frames /\ f.fn = "P" /\ f.at = a /\ f.arg = s
    BY <2>1, TopFacts DEF Frames
  <2> HIDE DEF f
  <2>3. By(s) /\ s \in Sems
    BY <2>1, ByTop
  <2>4. stack'[current'][1] = f
    BY <2>1, <2>2, TopAfter
  <2>5. stack'[current'] # <<>> /\ Top' = f
    BY <2>4, TopIsFirstNext
  <2>6. ~Busy
    BY <2>1 DEF Busy, At
  <2>7. CASE value[s] - 1 < 0
    <3>1. At("P", "sleep")' /\ Top'.arg = s
      BY <2>2, <2>5, <2>7 DEF At
    <3>. QED  BY <2>1, <2>3, <2>6, <2>7, <3>1 DEF PDecView
  <2>8. CASE ~(value[s] - 1 < 0)
    <3>1. ~Busy'
      BY <2>2, <2>5, <2>8 DEF Busy, At
    <3>. QED  BY <2>1, <2>3, <2>6, <2>8, <3>1 DEF PDecView
  <2>. QED  BY <2>7, <2>8
<1>4. CASE PSleep
  <2> DEFINE s == Top.arg
             f == Frame("schedule", "mask")
  <2>1. /\ Call(f, "unmask") /\ At("P", "sleep") /\ Top.fn = "P"
        /\ queue' = [queue EXCEPT ![s] = Append(@, current)]
        /\ state' = [state EXCEPT ![current] = "TASK_SLEEPING"]
        /\ UNCHANGED <<current, value>>
    BY <1>4 DEF PSleep, At
  <2> HIDE DEF f
  <2>2. By(s) /\ s \in Sems
    BY <2>1, ByTop
  <2>3. stack'[current'][1] = f /\ ~Moving(f)
    BY <1>f, <2>1, TopAfter DEF f
  <2>4. ~Busy'
    BY <2>3, BusyNext
  <2>. QED  BY <2>1, <2>2, <2>4 DEF PSleepView
<1>. QED  BY <1>1, <1>2, <1>3, <1>4 DEF P

(* ... and of V(). *)
LEMMA VView ==
  ASSUME SchedInv, SchedInv', V
  PROVE  Silent \/ \E s \in Sems : VIncView(s) \/ VWakeView(s)
<1>1. CASE VMask
  BY <1>1, SilentGoto DEF VMask, At, Moving
<1>2. CASE VUnmask
  BY <1>2, SilentSteps DEF VUnmask, At, Moving
<1>3. CASE VInc
  <2> DEFINE a == IF value[Top.arg] + 1 <= 0 THEN "wake" ELSE "unmask"
             f == [Top EXCEPT !.at = a]
             s == Top.arg
  <2>1. /\ SetTop(f) /\ Top.fn = "V" /\ Top.at = "inc" /\ value' = [value EXCEPT ![s] = @ + 1]
        /\ UNCHANGED <<current, state, queue>>
    BY <1>3 DEF VInc, Goto, At
  <2>2. f \in Frames /\ f.fn = "V" /\ f.at = a /\ f.arg = s
    BY <2>1, TopFacts DEF Frames
  <2> HIDE DEF f
  <2>3. By(s) /\ s \in Sems
    BY <2>1, ByTop
  <2>4. stack'[current'][1] = f
    BY <2>1, <2>2, TopAfter
  <2>5. stack'[current'] # <<>> /\ Top' = f
    BY <2>4, TopIsFirstNext
  <2>6. ~Busy
    BY <2>1 DEF Busy, At
  <2>7. CASE value[s] + 1 <= 0
    <3>1. At("V", "wake")' /\ Top'.arg = s
      BY <2>2, <2>5, <2>7 DEF At
    <3>. QED  BY <2>1, <2>3, <2>6, <2>7, <3>1 DEF VIncView
  <2>8. CASE ~(value[s] + 1 <= 0)
    <3>1. ~Busy'
      BY <2>2, <2>5, <2>8 DEF Busy, At
    <3>. QED  BY <2>1, <2>3, <2>6, <2>8, <3>1 DEF VIncView
  <2>. QED  BY <2>7, <2>8
<1>4. CASE VWake
  <2> DEFINE s == Top.arg
             f == [Top EXCEPT !.at = "unmask"]
  <2>1. /\ SetTop(f) /\ At("V", "wake") /\ Top.fn = "V"
        /\ state' = [state EXCEPT ![Head(queue[s])] = "TASK_RUNNABLE"]
        /\ queue' = [queue EXCEPT ![s] = Tail(@)]
        /\ UNCHANGED <<current, value>>
    BY <1>4 DEF VWake, Goto, At
  <2>2. f \in Frames /\ ~Moving(f)
    BY TopFacts DEF Frames, Moving
  <2> HIDE DEF f
  <2>3. By(s) /\ s \in Sems
    BY <2>1, ByTop
  <2>4. stack'[current'][1] = f
    BY <2>1, <2>2, TopAfter
  <2>5. ~Busy'
    BY <2>2, <2>4, BusyNext
  <2>. QED  BY <2>1, <2>3, <2>5 DEF VWakeView
<1>. QED  BY <1>1, <1>2, <1>3, <1>4 DEF V

LEMMA StepView ==
  ASSUME SchedInv, SchedInv', Next
  PROVE  \/ Silent
         \/ \E s \in Sems : PDecView(s) \/ PSleepView(s) \/ VIncView(s) \/ VWakeView(s)
<1>1. CASE Kernel /\ UNCHANGED <<value, queue>>
  BY <1>1, KernelSilent
<1>2. CASE P
  BY <1>2, PView
<1>3. CASE V
  BY <1>3, VView
<1>4. CASE Timer \/ Client
  BY <1>4, TimerSilent, ClientSilent
<1>. QED  BY <1>1, <1>2, <1>3, <1>4 DEF Next, Cpu

-----------------------------------------------------------------------------
(* The threads in transit, seen from Busy. *)
LEMMA TransitFacts ==
  /\ ~Busy => \A s \in Sems : Going(s) = 0 /\ Leaving(s) = 0
  /\ At("P", "sleep") => \A s \in Sems : Going(s) = (IF Top.arg = s THEN 1 ELSE 0) /\ Leaving(s) = 0
  /\ At("V", "wake") => \A s \in Sems : Leaving(s) = (IF Top.arg = s THEN 1 ELSE 0) /\ Going(s) = 0
  BY DEF Busy, Going, Leaving, At

LEMMA TransitFactsNext ==
  (/\ ~Busy => \A s \in Sems : Going(s) = 0 /\ Leaving(s) = 0
   /\ At("P", "sleep") => \A s \in Sems : Going(s) = (IF Top.arg = s THEN 1 ELSE 0) /\ Leaving(s) = 0
   /\ At("V", "wake") => \A s \in Sems : Leaving(s) = (IF Top.arg = s THEN 1 ELSE 0) /\ Going(s) = 0)'
  BY TransitFacts, PTL

LEMMA SilentQueue ==
  ASSUME QueueInv, Silent
  PROVE  QueueInv'
<1>1. ~Busy /\ ~Busy' /\ value' = value /\ queue' = queue /\ SameSleepers
  BY DEF Silent
<1>2. \A s \in Sems : Going(s) = 0 /\ Leaving(s) = 0 /\ Going(s)' = 0 /\ Leaving(s)' = 0
  BY <1>1, TransitFacts, TransitFactsNext
<1>3. \A s \in Sems : \A i \in 1..Len(queue[s]) : queue[s][i] \in Threads
  BY DEF QueueInv
<1>4. \A s \in Sems : \A i \in 1..Len(queue[s]) : state'[queue[s][i]] = "TASK_SLEEPING"
  BY <1>1, <1>3 DEF QueueInv, SameSleepers
<1>. QED  BY <1>1, <1>2, <1>4 DEF QueueInv

LEMMA PDecQueue ==
  ASSUME QueueInv, NEW s \in Sems, PDecView(s)
  PROVE  QueueInv'
<1>1. /\ ~Busy /\ value' = [value EXCEPT ![s] = @ - 1] /\ queue' = queue /\ state' = state
      /\ \/ value[s] - 1 < 0 /\ At("P", "sleep")' /\ Top'.arg = s
         \/ ~(value[s] - 1 < 0) /\ ~Busy'
  BY DEF PDecView
<1>2. \A r \in Sems : Going(r) = 0 /\ Leaving(r) = 0
  BY <1>1, TransitFacts
<1>3. /\ value \in [Sems -> Int] /\ value' \in [Sems -> Int] /\ value'[s] = value[s] - 1
      /\ \A r \in Sems \ {s} : value'[r] = value[r]
  BY <1>1 DEF QueueInv
<1>4. \A r \in Sems : Leaving(r)' = 0 /\ Going(r)' = (IF r = s /\ value[s] - 1 < 0 THEN 1 ELSE 0)
  BY <1>1, TransitFactsNext
<1>5. \A r \in Sems : Len(queue[r]) \in Nat
  BY DEF QueueInv
<1>6. \A r \in Sems : Len(queue[r]) + 0 - 0 = (IF value[r] < 0 THEN -value[r] ELSE 0)
  BY <1>2 DEF QueueInv
<1>7. ASSUME NEW r \in Sems
      PROVE  Len(queue'[r]) + Going(r)' - Leaving(r)' = (IF value'[r] < 0 THEN -value'[r] ELSE 0)
  <2>1. queue'[r] = queue[r] /\ Len(queue[r]) \in Nat /\ value[r] \in Int
    BY <1>1, <1>3, <1>5
  <2>2. CASE r = s
    BY <1>3, <1>4, <1>6, <2>1, <2>2
  <2>3. CASE r # s
    BY <1>3, <1>4, <1>6, <2>1, <2>3
  <2>. QED  BY <2>2, <2>3
<1>. QED  BY <1>1, <1>3, <1>7 DEF QueueInv

LEMMA VIncQueue ==
  ASSUME QueueInv, NEW s \in Sems, VIncView(s)
  PROVE  QueueInv'
<1>1. /\ ~Busy /\ value' = [value EXCEPT ![s] = @ + 1] /\ queue' = queue /\ state' = state
      /\ \/ value[s] + 1 <= 0 /\ At("V", "wake")' /\ Top'.arg = s
         \/ ~(value[s] + 1 <= 0) /\ ~Busy'
  BY DEF VIncView
<1>2. \A r \in Sems : Going(r) = 0 /\ Leaving(r) = 0
  BY <1>1, TransitFacts
<1>3. /\ value \in [Sems -> Int] /\ value' \in [Sems -> Int] /\ value'[s] = value[s] + 1
      /\ \A r \in Sems \ {s} : value'[r] = value[r]
  BY <1>1 DEF QueueInv
<1>4. \A r \in Sems : Going(r)' = 0 /\ Leaving(r)' = (IF r = s /\ value[s] + 1 <= 0 THEN 1 ELSE 0)
  BY <1>1, TransitFactsNext
<1>5. \A r \in Sems : Len(queue[r]) \in Nat
  BY DEF QueueInv
<1>6. \A r \in Sems : Len(queue[r]) + 0 - 0 = (IF value[r] < 0 THEN -value[r] ELSE 0)
  BY <1>2 DEF QueueInv
<1>7. ASSUME NEW r \in Sems
      PROVE  Len(queue'[r]) + Going(r)' - Leaving(r)' = (IF value'[r] < 0 THEN -value'[r] ELSE 0)
  <2>1. queue'[r] = queue[r] /\ Len(queue[r]) \in Nat /\ value[r] \in Int
    BY <1>1, <1>3, <1>5
  <2>2. CASE r = s
    BY <1>3, <1>4, <1>6, <2>1, <2>2
  <2>3. CASE r # s
    BY <1>3, <1>4, <1>6, <2>1, <2>3
  <2>. QED  BY <2>2, <2>3
<1>. QED  BY <1>1, <1>3, <1>7 DEF QueueInv

(* The running thread joins the queue of s. *)
LEMMA PSleepQueue ==
  ASSUME QueueInv, state \in [Tasks -> TaskStates], NEW s \in Sems, PSleepView(s)
  PROVE  QueueInv'
<1> DEFINE q == queue[s]
           c == current
<1>1. /\ s = Top.arg /\ c \in Threads /\ state[c] # "TASK_SLEEPING" /\ At("P", "sleep") /\ ~Busy'
      /\ queue' = [queue EXCEPT ![s] = Append(@, c)]
      /\ state' = [state EXCEPT ![c] = "TASK_SLEEPING"]
      /\ value' = value
  BY DEF PSleepView, By
<1>2. /\ \A r \in Sems : Leaving(r) = 0 /\ Going(r) = (IF r = s THEN 1 ELSE 0)
      /\ \A r \in Sems : Leaving(r)' = 0 /\ Going(r)' = 0
  BY <1>1, TransitFacts, TransitFactsNext
<1>3. /\ q \in Seq(Threads) /\ queue \in [Sems -> Seq(Threads)] /\ Len(q) \in Nat
      /\ Append(q, c) \in Seq(Threads) /\ Len(Append(q, c)) = Len(q) + 1
      /\ \A i \in 1..Len(q) : Append(q, c)[i] = q[i]
      /\ Append(q, c)[Len(q) + 1] = c
  BY <1>1 DEF QueueInv
<1>4. /\ queue'[s] = Append(q, c) /\ \A r \in Sems \ {s} : queue'[r] = queue[r]
      /\ queue' \in [Sems -> Seq(Threads)]
  BY <1>1, <1>3
<1>5. /\ state'[c] = "TASK_SLEEPING"
      /\ \A t \in Threads : state[t] = "TASK_SLEEPING" => state'[t] = "TASK_SLEEPING"
  BY <1>1 DEF Tasks
<1>6. \A r \in Sems : \A i \in 1..Len(queue[r]) :
        queue[r][i] \in Threads /\ state[queue[r][i]] = "TASK_SLEEPING" /\ queue[r][i] # c
  BY <1>1 DEF QueueInv
<1> HIDE DEF q, c
(* A place in a queue is an old one, or the new one at the end of s. *)
<1>7. ASSUME NEW r \in Sems, NEW i \in 1..Len(queue'[r])
      PROVE  \/ i \in 1..Len(queue[r]) /\ queue'[r][i] = queue[r][i]
             \/ r = s /\ i = Len(q) + 1 /\ queue'[r][i] = c
  <2>1. CASE r = s
    <3>1. i \in 1..(Len(q) + 1)
      BY <1>3, <1>4, <1>7, <2>1
    <3>2. CASE i = Len(q) + 1
      BY <1>3, <1>4, <2>1, <3>2
    <3>3. CASE i # Len(q) + 1
      <4>1. i \in 1..Len(q)
        BY <1>3, <3>1, <3>3
      <4>. QED  BY <1>3, <1>4, <2>1, <4>1 DEF q
    <3>. QED  BY <3>2, <3>3
  <2>2. CASE r # s
    BY <1>4, <1>7, <2>2
  <2>. QED  BY <2>1, <2>2
<1>8. \A r \in Sems : \A i \in 1..Len(queue'[r]) : state'[queue'[r][i]] = "TASK_SLEEPING"
  BY <1>5, <1>6, <1>7
<1>9. ASSUME NEW r1 \in Sems, NEW r2 \in Sems,
             NEW i \in 1..Len(queue'[r1]), NEW j \in 1..Len(queue'[r2]),
             queue'[r1][i] = queue'[r2][j]
      PROVE  r1 = r2 /\ i = j
  <2>1. CASE i \in 1..Len(queue[r1]) /\ queue'[r1][i] = queue[r1][i]
    <3>1. queue'[r2][j] # c
      BY <1>6, <1>9, <2>1
    <3>2. j \in 1..Len(queue[r2]) /\ queue'[r2][j] = queue[r2][j]
      BY <1>7, <3>1
    <3>3. queue[r1][i] = queue[r2][j]
      BY <1>9, <2>1, <3>2
    <3>. QED  BY <2>1, <3>2, <3>3 DEF QueueInv
  <2>2. CASE r1 = s /\ i = Len(q) + 1 /\ queue'[r1][i] = c
    <3>1. r2 = s /\ j = Len(q) + 1
      BY <1>6, <1>7, <1>9, <2>2
    <3>. QED  BY <2>2, <3>1
  <2>. QED  BY <1>7, <2>1, <2>2
<1>10. ASSUME NEW r \in Sems
       PROVE  Len(queue'[r]) + Going(r)' - Leaving(r)' = (IF value'[r] < 0 THEN -value'[r] ELSE 0)
  <2>1. Len(queue[r]) \in Nat /\ Len(queue[r]) + Going(r) - Leaving(r) = (IF value[r] < 0 THEN -value[r] ELSE 0)
    BY DEF QueueInv
  <2>2. CASE r = s
    BY <1>1, <1>2, <1>3, <1>4, <2>1, <2>2 DEF q
  <2>3. CASE r # s
    BY <1>1, <1>2, <1>4, <2>1, <2>3
  <2>. QED  BY <2>2, <2>3
<1>. QED  BY <1>1, <1>4, <1>8, <1>9, <1>10 DEF QueueInv

(* The first thread leaves the queue of s. *)
LEMMA VWakeQueue ==
  ASSUME IInv, NEW s \in Sems, VWakeView(s)
  PROVE  QueueInv'
<1> DEFINE q == queue[s]
           h == Head(queue[s])
<1>1. /\ s = Top.arg /\ At("V", "wake") /\ ~Busy'
      /\ queue' = [queue EXCEPT ![s] = Tail(@)]
      /\ state' = [state EXCEPT ![h] = "TASK_RUNNABLE"]
      /\ value' = value
  BY DEF VWakeView, By
<1>2. /\ \A r \in Sems : Going(r) = 0 /\ Leaving(r) = (IF r = s THEN 1 ELSE 0)
      /\ \A r \in Sems : Leaving(r)' = 0 /\ Going(r)' = 0
  BY <1>1, TransitFacts, TransitFactsNext
<1>3. Len(q) > 0 /\ h = q[1] /\ h \in Threads
  BY <1>1, WakeFindsSleeper
<1>4. q \in Seq(Threads) /\ queue \in [Sems -> Seq(Threads)] /\ Len(q) \in Nat
  BY DEF IInv, QueueInv
<1>5. /\ Tail(q) \in Seq(Threads) /\ Len(Tail(q)) = Len(q) - 1
      /\ \A i \in 1..(Len(q) - 1) : Tail(q)[i] = q[i + 1]
  BY <1>3, <1>4
<1>6. /\ queue'[s] = Tail(q) /\ \A r \in Sems \ {s} : queue'[r] = queue[r]
      /\ queue' \in [Sems -> Seq(Threads)]
  BY <1>1, <1>4, <1>5
<1>7. \A t \in Threads : state[t] = "TASK_SLEEPING" /\ t # h => state'[t] = "TASK_SLEEPING"
  BY <1>1 DEF Tasks, IInv, SchedInv
<1>8. /\ \A r \in Sems : \A i \in 1..Len(queue[r]) :
           queue[r][i] \in Threads /\ state[queue[r][i]] = "TASK_SLEEPING"
      /\ \A r1, r2 \in Sems : \A i \in 1..Len(queue[r1]), j \in 1..Len(queue[r2]) :
           queue[r1][i] = queue[r2][j] => r1 = r2 /\ i = j
  BY DEF IInv, QueueInv
<1> HIDE DEF q, h
(* A place in a queue was there before, in s one further back. *)
<1>9. ASSUME NEW r \in Sems, NEW i \in 1..Len(queue'[r])
      PROVE  \E k \in 1..Len(queue[r]) :
               /\ queue'[r][i] = queue[r][k] /\ k = (IF r = s THEN i + 1 ELSE i)
               /\ queue[r][k] # h
  <2>1. CASE r = s
    <3>1. i \in 1..(Len(q) - 1) /\ i + 1 \in 1..Len(q) /\ 1 \in 1..Len(q) /\ i + 1 # 1
      BY <1>3, <1>4, <1>5, <1>6, <1>9, <2>1
    <3>2. queue'[r][i] = q[i + 1]
      BY <1>5, <1>6, <2>1, <3>1
    <3>3. q[i + 1] # q[1]
      BY <1>8, <3>1 DEF q
    <3>. QED  BY <1>3, <2>1, <3>1, <3>2, <3>3 DEF q
  <2>2. CASE r # s
    <3>1. i \in 1..Len(queue[r]) /\ queue'[r][i] = queue[r][i]
      BY <1>6, <1>9, <2>2
    <3>2. 1 \in 1..Len(q) /\ h = queue[s][1]
      BY <1>3, <1>4 DEF q
    <3>3. queue[r][i] # h
      BY <1>8, <2>2, <3>1, <3>2 DEF q
    <3>. QED  BY <2>2, <3>1, <3>3
  <2>. QED  BY <2>1, <2>2
<1>10. \A r \in Sems : \A i \in 1..Len(queue'[r]) : state'[queue'[r][i]] = "TASK_SLEEPING"
  BY <1>7, <1>8, <1>9
<1>11. ASSUME NEW r1 \in Sems, NEW r2 \in Sems,
              NEW i \in 1..Len(queue'[r1]), NEW j \in 1..Len(queue'[r2]),
              queue'[r1][i] = queue'[r2][j]
       PROVE  r1 = r2 /\ i = j
  <2>1. PICK k \in 1..Len(queue[r1]) :
          queue'[r1][i] = queue[r1][k] /\ k = (IF r1 = s THEN i + 1 ELSE i)
    BY <1>9
  <2>2. PICK l \in 1..Len(queue[r2]) :
          queue'[r2][j] = queue[r2][l] /\ l = (IF r2 = s THEN j + 1 ELSE j)
    BY <1>9
  <2>a. queue[r1][k] = queue[r2][l]
    BY <1>11, <2>1, <2>2
  <2>3. r1 = r2 /\ k = l
    BY <1>8, <2>a
  <2>. QED  BY <2>1, <2>2, <2>3
<1>12. ASSUME NEW r \in Sems
       PROVE  Len(queue'[r]) + Going(r)' - Leaving(r)' = (IF value'[r] < 0 THEN -value'[r] ELSE 0)
  <2>1. Len(queue[r]) \in Nat /\ Len(queue[r]) + Going(r) - Leaving(r) = (IF value[r] < 0 THEN -value[r] ELSE 0)
    BY DEF IInv, QueueInv
  <2>2. CASE r = s
    BY <1>1, <1>2, <1>5, <1>6, <2>1, <2>2 DEF q
  <2>3. CASE r # s
    BY <1>1, <1>2, <1>6, <2>1, <2>3
  <2>. QED  BY <2>2, <2>3
<1>13. value' \in [Sems -> Int]
  BY <1>1 DEF IInv, QueueInv
<1>. QED  BY <1>6, <1>10, <1>11, <1>12, <1>13 DEF QueueInv

LEMMA QueueInvStep ==
  ASSUME IInv, [Next]_vars
  PROVE  QueueInv'
<1>1. SchedInv'
  BY SchedInvStep
<1>2. CASE Next
  <2>1. state \in [Tasks -> TaskStates]
    BY DEF IInv, SchedInv, TaskStates
  <2>. QED
    BY <1>1, <1>2, <2>1, StepView, SilentQueue, PDecQueue, PSleepQueue, VIncQueue, VWakeQueue
    DEF IInv
<1>3. CASE UNCHANGED vars
  <2>1. UNCHANGED <<current, stack, state, value, queue>>
    BY <1>3 DEF vars
  <2>2. \A s \in Sems : Going(s)' = Going(s) /\ Leaving(s)' = Leaving(s)
    BY <2>1 DEF Going, Leaving, At, Top
  <2>. QED  BY <2>1, <2>2 DEF IInv, QueueInv
<1>. QED  BY <1>2, <1>3

(* The boot thread alone is there, in init(), with interrupts on. *)
LEMMA InitIInv ==
  ASSUME Init
  PROVE  IInv
<1> DEFINE f == Frame("init", "insert")
<1>0. /\ IntrOn = TRUE /\ current = idle /\ proc_list = <<>>
      /\ state = [t \in Tasks |-> "TASK_READY"]
      /\ stack = [t \in Tasks |-> IF t = idle THEN <<f>> ELSE <<>>]
      /\ value \in [Sems -> 0..MaxInit] /\ queue = [s \in Sems |-> <<>>]
  BY DEF Init, SchedInit
<1>1. f \in Frames /\ f.fn = "init" /\ f.at = "insert"
  BY DEF Frame, Frames, Nothing
<1>2. FrameShape(f) /\ FrameOf(idle, f) /\ Open(f) /\ ~Exited(f)
  BY <1>1 DEF FrameShape, FrameOf, Open, Exited
<1>3. idle \in Tasks /\ idle \notin Threads
  BY SchedAssumption DEF Tasks
<1>4. stack[idle] = <<f>> /\ \A t \in Threads : stack[t] = <<>> /\ t # idle
  BY <1>0, <1>3 DEF Tasks
<1> HIDE DEF f
<1>5. <<f>> \in Seq(Frames) /\ <<f>> # <<>> /\ Len(<<f>>) = 1 /\ <<f>>[1] = f
  BY <1>1
<1>6. ThreadOK(idle, <<f>>, "TASK_READY")
  BY <1>1, <1>2, <1>5 DEF ThreadOK, GoodStack
<1>7. \A t \in Threads : ThreadOK(t, <<>>, "TASK_READY")
  <2>1. <<>> \in Seq(Frames) /\ Len(<<>>) = 0
    OBVIOUS
  <2>. QED  BY <2>1, <1>3 DEF ThreadOK, GoodStack
<1>8. \A t \in Tasks : ThreadOK(t, stack[t], state[t])
  BY <1>0, <1>4, <1>6, <1>7 DEF Tasks
<1>9. \A t \in Tasks \ {current} : Suspended(stack[t])
  BY <1>0, <1>4 DEF Tasks, Suspended
<1>10. Running(IntrOn, current, stack[current], state)
  BY <1>0, <1>1, <1>2, <1>4, <1>5 DEF Running, OpenTop, Panicking
<1>11. ListInv
  <2>1. Len(Order) \in Nat
    BY SchedAssumption
  <2>. QED  BY <1>0, <1>4, <2>1 DEF ListInv
<1>12. BootInv
  BY <1>1, <1>4, <1>5 DEF BootInv, BootAt
<1>13. stack \in [Tasks -> Seq(Frames)]
  BY <1>0, <1>5
<1>14. SchedInv
  BY <1>0, <1>3, <1>8, <1>9, <1>10, <1>11, <1>12, <1>13 DEF SchedInv
<1>15. ~Busy
  BY <1>1, <1>14, <1>4, <1>5, <1>0, BusyNow DEF Moving
<1>16. \A s \in Sems : Going(s) = 0 /\ Leaving(s) = 0
  BY <1>15, TransitFacts
<1>17. \A s \in Sems : queue[s] = <<>> /\ Len(queue[s]) = 0 /\ value[s] \in Nat
  BY <1>0, SchedSemaphoreAssumption
<1>18. QueueInv
  <2>1. value \in [Sems -> Int] /\ queue \in [Sems -> Seq(Threads)]
    BY <1>0, SchedSemaphoreAssumption
  <2>2. \A s \in Sems :
          Len(queue[s]) + Going(s) - Leaving(s) = (IF value[s] < 0 THEN -value[s] ELSE 0)
    BY <1>16, <1>17
  <2>. QED  BY <1>17, <2>1, <2>2 DEF QueueInv
<1>. QED  BY <1>14, <1>18 DEF IInv

LEMMA IInvStep == IInv /\ [Next]_vars => IInv'
  BY SchedInvStep, QueueInvStep DEF IInv

-----------------------------------------------------------------------------
(* The inductive invariant holds in every state of every run. *)
THEOREM SchedInvariant == Spec => []IInv
<1>1. Init => IInv
  BY InitIInv
<1>2. IInv /\ [Next]_vars => IInv'
  BY IInvStep
<1>. QED  BY <1>1, <1>2, PTL DEF Spec

(* The variables of the scheduler keep their types: current is a thread,    *)
(* proc_list holds threads, every state is one schedule() knows.            *)
THEOREM SchedTypes == Spec => []SchedTypeOK
<1>1. IInv => SchedTypeOK
  BY DEF IInv, SchedInv, SchedTypeOK, ListInv
<1>. QED  BY <1>1, SchedInvariant, PTL

(* Code outside the kernel's critical sections runs with interrupts on,     *)
(* whichever thread switch_to() came from (sched.c:55, proc.c:98).          *)
THEOREM UnmaskedOutside == Spec => []ThreadsRunUnmasked
<1>1. ASSUME IInv  PROVE ThreadsRunUnmasked
  <2>1. IntrOn \in BOOLEAN
        /\ IntrOn = (Open(Top) /\ (Top.fn = "schedule" => UnmaskedCaller(stack[current][2])))
    BY <1>1, TopFacts DEF IInv
  <2>. QED  BY <2>1 DEF ThreadsRunUnmasked, At, Open
<1>. QED  BY <1>1, SchedInvariant, PTL

(* do_exit() never comes back to the panic() after its schedule().          *)
THEOREM ExitIsFinal == Spec => []NoPanic
<1>1. ASSUME IInv  PROVE NoPanic
  <2>1. ~Panicking(Top)
    BY <1>1, TopFacts DEF IInv
  <2>. QED  BY <2>1 DEF NoPanic, At, Panicking
<1>. QED  BY <1>1, SchedInvariant, PTL

(* A thread that P() has marked TASK_SLEEPING keeps interrupts masked until *)
(* schedule() has switched away from it.                                    *)
THEOREM SleepersGiveWay == Spec => []SleeperGivesWay
<1>1. ASSUME IInv  PROVE SleeperGivesWay
  <2>1. /\ state[current] = "TASK_SLEEPING" => Top.fn = "schedule" /\ stack[current][2].fn = "P"
        /\ IntrOn = (Open(Top) /\ (Top.fn = "schedule" => UnmaskedCaller(stack[current][2])))
        /\ IntrOn \in BOOLEAN
    BY <1>1, TopFacts DEF IInv
  <2>. QED  BY <2>1 DEF SleeperGivesWay, UnmaskedCaller
<1>. QED  BY <1>1, SchedInvariant, PTL

(* schedule() gives the CPU only to a thread that is runnable and whose     *)
(* stack copy_thread() has prepared, or to idle: the choice it made with    *)
(* interrupts masked still stands when it switches.                         *)
THEOREM SwitchesToRunnable == Spec => SwitchOnlyToRunnable
<1> DEFINE A == current' # current =>
                  current' = idle \/ (state[current'] = "TASK_RUNNABLE" /\ stack[current'] # <<>>)
<1>1. ASSUME IInv, [Next]_vars, current' # current  PROVE A
  <2>1. run_thread
    BY <1>1
    DEF Next, vars, Cpu, Kernel, schedule, timer_handler, do_exit, init, P, V, Timer, Client,
        ScheduleMask, SchedulePick, ScheduleUnmask, TimerInterrupt, TimerMask, TimerCall,
        TimerUnmask, TimerReturn, CallExit, ExitMask, ExitZombie, ExitUnmask, ExitCall,
        ForkInsert, copy_thread, wakeup_process, BootDone, CallP, CallV,
        PMask, PDec, PSleep, PUnmask, VMask, VInc, VWake, VUnmask
  <2>2. current' = Top.arg /\ Top.fn = "schedule" /\ Top.at = "run"
    BY <2>1 DEF run_thread, At
  <2>3. Running(IntrOn, current, stack[current], state) /\ Top = stack[current][1]
    BY <1>1, TopFacts DEF IInv
  <2>4. current' = idle \/ (current' \in Threads /\ state[current'] = "TASK_RUNNABLE")
    BY <2>2, <2>3 DEF Running
  <2>5. ASSUME current' \in Threads, state[current'] = "TASK_RUNNABLE"
        PROVE  stack[current'] # <<>>
    BY <1>1, <2>5 DEF IInv, SchedInv, ThreadOK, Tasks
  <2>. QED  BY <2>4, <2>5
<1>2. IInv /\ [Next]_vars => [A]_schedVars
  BY <1>1
<1>. QED  BY <1>2, SchedInvariant, PTL DEF Spec, SwitchOnlyToRunnable

-----------------------------------------------------------------------------
(* The refinement mapping, by what the CPU is doing. *)
Seen(t) == IF state[t] = "TASK_SLEEPING" THEN "TASK_SLEEPING" ELSE "TASK_RUNNABLE"

LEMMA Mapping ==
  /\ ~Busy => absQueue = [s \in Sems |-> queue[s]] /\ absState = [t \in Threads |-> Seen(t)]
  /\ At("P", "sleep") =>
       /\ absQueue = [s \in Sems |-> IF Top.arg = s THEN Append(queue[s], current) ELSE queue[s]]
       /\ absState = [t \in Threads |-> IF t = current THEN "TASK_SLEEPING" ELSE Seen(t)]
  /\ At("V", "wake") =>
       /\ absQueue = [s \in Sems |-> IF Top.arg = s THEN Tail(queue[s]) ELSE queue[s]]
       /\ absState = [t \in Threads |->
                        IF t = Head(queue[Top.arg]) THEN "TASK_RUNNABLE" ELSE Seen(t)]
<1>1. ASSUME ~Busy
      PROVE  absQueue = [s \in Sems |-> queue[s]] /\ absState = [t \in Threads |-> Seen(t)]
  <2>1. ~GoingToSleep /\ ~Waking
    BY <1>1 DEF Busy, GoingToSleep, Waking
  <2>. QED  BY <2>1 DEF absQueue, absState, Seen
<1>2. ASSUME At("P", "sleep")
      PROVE  /\ absQueue = [s \in Sems |-> IF Top.arg = s THEN Append(queue[s], current) ELSE queue[s]]
             /\ absState = [t \in Threads |-> IF t = current THEN "TASK_SLEEPING" ELSE Seen(t)]
  <2>1. GoingToSleep /\ ~Waking
    BY <1>2 DEF GoingToSleep, Waking, At
  <2>. QED  BY <2>1 DEF absQueue, absState, Seen
<1>3. ASSUME At("V", "wake")
      PROVE  /\ absQueue = [s \in Sems |-> IF Top.arg = s THEN Tail(queue[s]) ELSE queue[s]]
             /\ absState = [t \in Threads |->
                              IF t = Head(queue[Top.arg]) THEN "TASK_RUNNABLE" ELSE Seen(t)]
  <2>1. ~GoingToSleep /\ Waking
    BY <1>3 DEF GoingToSleep, Waking, At
  <2>. QED  BY <2>1 DEF absQueue, absState, Seen
<1>. QED  BY <1>1, <1>2, <1>3

LEMMA MappingNext ==
  (/\ ~Busy => absQueue = [s \in Sems |-> queue[s]] /\ absState = [t \in Threads |-> Seen(t)]
   /\ At("P", "sleep") =>
        /\ absQueue = [s \in Sems |-> IF Top.arg = s THEN Append(queue[s], current) ELSE queue[s]]
        /\ absState = [t \in Threads |-> IF t = current THEN "TASK_SLEEPING" ELSE Seen(t)]
   /\ At("V", "wake") =>
        /\ absQueue = [s \in Sems |-> IF Top.arg = s THEN Tail(queue[s]) ELSE queue[s]]
        /\ absState = [t \in Threads |->
                         IF t = Head(queue[Top.arg]) THEN "TASK_RUNNABLE" ELSE Seen(t)])'
  BY Mapping, PTL

AbsStutter == UNCHANGED <<value, absQueue, absState>>

LEMMA SilentAbs ==
  ASSUME Silent
  PROVE  AbsStutter
<1>1. ~Busy /\ ~Busy' /\ value' = value /\ queue' = queue /\ SameSleepers
  BY DEF Silent
<1>2. \A t \in Threads : Seen(t)' = Seen(t)
  BY <1>1 DEF Seen, SameSleepers
<1>3. absQueue = [s \in Sems |-> queue[s]] /\ absState = [t \in Threads |-> Seen(t)]
  BY <1>1, Mapping
<1>4. absQueue' = [s \in Sems |-> queue'[s]] /\ absState' = [t \in Threads |-> Seen(t)']
  BY <1>1, MappingNext
<1>. QED  BY <1>1, <1>2, <1>3, <1>4 DEF AbsStutter

(* The decrement is P, whether or not the thread is going to sleep. *)
LEMMA PDecAbs ==
  ASSUME QueueInv, NEW s \in Sems, PDecView(s)
  PROVE  current \in Threads /\ Abstract!P(current, s)
<1>1. /\ current \in Threads /\ state[current] # "TASK_SLEEPING" /\ ~Busy
      /\ value' = [value EXCEPT ![s] = @ - 1] /\ UNCHANGED <<current, state, queue>>
      /\ \/ value[s] - 1 < 0 /\ At("P", "sleep")' /\ Top'.arg = s
         \/ ~(value[s] - 1 < 0) /\ ~Busy'
  BY DEF PDecView, By
<1>2. /\ absQueue = [r \in Sems |-> queue[r]] /\ absState = [t \in Threads |-> Seen(t)]
      /\ absState[current] = "TASK_RUNNABLE"
  BY <1>1, Mapping DEF Seen
<1>3. \A t \in Threads : Seen(t)' = Seen(t)
  BY <1>1 DEF Seen
<1>4. value[s] \in Int
  BY DEF QueueInv
<1>5. CASE value[s] - 1 < 0 /\ At("P", "sleep")' /\ Top'.arg = s
  <2>1. /\ absQueue' = [r \in Sems |-> IF s = r THEN Append(queue[r], current) ELSE queue[r]]
        /\ absState' = [t \in Threads |-> IF t = current THEN "TASK_SLEEPING" ELSE Seen(t)]
    BY <1>1, <1>3, <1>5, MappingNext
  <2>2. absQueue' = [absQueue EXCEPT ![s] = Append(@, current)]
    BY <1>2, <2>1
  <2>3. absState' = [absState EXCEPT ![current] = "TASK_SLEEPING"]
    BY <1>1, <1>2, <2>1
  <2>. QED
    BY <1>1, <1>2, <1>5, <2>2, <2>3 DEF Abstract!P, Abstract!RUNNABLE, Abstract!SLEEPING
<1>6. CASE ~(value[s] - 1 < 0) /\ ~Busy'
  <2>1. absQueue' = [r \in Sems |-> queue'[r]] /\ absState' = [t \in Threads |-> Seen(t)']
    BY <1>6, MappingNext
  <2>2. absQueue' = absQueue /\ absState' = absState
    BY <1>1, <1>2, <1>3, <2>1
  <2>3. value[s] - 1 >= 0
    BY <1>4, <1>6
  <2>. QED
    BY <1>1, <1>2, <2>2, <2>3 DEF Abstract!P, Abstract!RUNNABLE, Abstract!SLEEPING
<1>. QED  BY <1>1, <1>5, <1>6

LEMMA PSleepAbs ==
  ASSUME IInv, NEW s \in Sems, PSleepView(s)
  PROVE  AbsStutter
<1>1. /\ s = Top.arg /\ current \in Threads /\ At("P", "sleep") /\ ~Busy'
      /\ queue' = [queue EXCEPT ![s] = Append(@, current)]
      /\ state' = [state EXCEPT ![current] = "TASK_SLEEPING"]
      /\ UNCHANGED <<current, value>>
  BY DEF PSleepView, By
<1>2. /\ absQueue = [r \in Sems |-> IF s = r THEN Append(queue[r], current) ELSE queue[r]]
      /\ absState = [t \in Threads |-> IF t = current THEN "TASK_SLEEPING" ELSE Seen(t)]
  BY <1>1, Mapping
<1>3. absQueue' = [r \in Sems |-> queue'[r]] /\ absState' = [t \in Threads |-> Seen(t)']
  BY <1>1, MappingNext
<1>4. \A t \in Threads : Seen(t)' = IF t = current THEN "TASK_SLEEPING" ELSE Seen(t)
  BY <1>1 DEF Seen, IInv, SchedInv, Tasks
<1>5. \A r \in Sems : queue'[r] = IF s = r THEN Append(queue[r], current) ELSE queue[r]
  BY <1>1 DEF IInv, QueueInv
<1>. QED  BY <1>1, <1>2, <1>3, <1>4, <1>5 DEF AbsStutter

(* The increment is V: the thread that V() is about to wake is awake. *)
LEMMA VIncAbs ==
  ASSUME QueueInv, NEW s \in Sems, VIncView(s)
  PROVE  current \in Threads /\ Abstract!V(current, s)
<1>1. /\ current \in Threads /\ state[current] # "TASK_SLEEPING" /\ ~Busy
      /\ value' = [value EXCEPT ![s] = @ + 1] /\ UNCHANGED <<current, state, queue>>
      /\ \/ value[s] + 1 <= 0 /\ At("V", "wake")' /\ Top'.arg = s
         \/ ~(value[s] + 1 <= 0) /\ ~Busy'
  BY DEF VIncView, By
<1>2. /\ absQueue = [r \in Sems |-> queue[r]] /\ absState = [t \in Threads |-> Seen(t)]
      /\ absState[current] = "TASK_RUNNABLE"
  BY <1>1, Mapping DEF Seen
<1>3. \A t \in Threads : Seen(t)' = Seen(t)
  BY <1>1 DEF Seen
<1>4. value[s] \in Int
  BY DEF QueueInv
<1>5. CASE value[s] + 1 <= 0 /\ At("V", "wake")' /\ Top'.arg = s
  <2>1. /\ absQueue' = [r \in Sems |-> IF s = r THEN Tail(queue[r]) ELSE queue[r]]
        /\ absState' = [t \in Threads |-> IF t = Head(queue[s]) THEN "TASK_RUNNABLE" ELSE Seen(t)]
    BY <1>1, <1>3, <1>5, MappingNext
  <2>2. queue[s] \in Seq(Threads) /\ queue[s] # <<>>
    <3>1. Going(s) = 0 /\ Leaving(s) = 0
      BY <1>1, TransitFacts
    <3>2. queue[s] \in Seq(Threads) /\ Len(queue[s]) + 0 - 0 = (IF value[s] < 0 THEN -value[s] ELSE 0)
      BY <3>1 DEF QueueInv
    <3>3. Len(queue[s]) # 0
      BY <1>4, <1>5, <3>2
    <3>. QED  BY <3>2, <3>3, EmptyLen
  <2>3. Head(queue[s]) \in Threads /\ absQueue[s] = queue[s]
    BY <1>2, <2>2
  <2>4. absQueue' = [absQueue EXCEPT ![s] = Tail(@)]
    BY <1>2, <2>1
  <2>5. absState' = [absState EXCEPT ![Head(absQueue[s])] = "TASK_RUNNABLE"]
    BY <1>2, <2>1, <2>3
  <2>. QED
    BY <1>1, <1>2, <1>5, <2>2, <2>3, <2>4, <2>5 DEF Abstract!V, Abstract!RUNNABLE
<1>6. CASE ~(value[s] + 1 <= 0) /\ ~Busy'
  <2>1. absQueue' = [r \in Sems |-> queue'[r]] /\ absState' = [t \in Threads |-> Seen(t)']
    BY <1>6, MappingNext
  <2>2. absQueue' = absQueue /\ absState' = absState
    BY <1>1, <1>2, <1>3, <2>1
  <2>3. value[s] + 1 > 0
    BY <1>4, <1>6
  <2>. QED  BY <1>1, <1>2, <2>2, <2>3 DEF Abstract!V, Abstract!RUNNABLE
<1>. QED  BY <1>1, <1>5, <1>6

LEMMA VWakeAbs ==
  ASSUME IInv, NEW s \in Sems, VWakeView(s)
  PROVE  AbsStutter
<1>1. /\ s = Top.arg /\ At("V", "wake") /\ ~Busy'
      /\ queue' = [queue EXCEPT ![s] = Tail(@)]
      /\ state' = [state EXCEPT ![Head(queue[s])] = "TASK_RUNNABLE"]
      /\ UNCHANGED value
  BY DEF VWakeView, By
<1>2. /\ absQueue = [r \in Sems |-> IF s = r THEN Tail(queue[r]) ELSE queue[r]]
      /\ absState = [t \in Threads |-> IF t = Head(queue[s]) THEN "TASK_RUNNABLE" ELSE Seen(t)]
  BY <1>1, Mapping
<1>3. absQueue' = [r \in Sems |-> queue'[r]] /\ absState' = [t \in Threads |-> Seen(t)']
  BY <1>1, MappingNext
<1>4. Head(queue[s]) \in Threads
  BY <1>1, WakeFindsSleeper
<1>5. \A t \in Threads : Seen(t)' = IF t = Head(queue[s]) THEN "TASK_RUNNABLE" ELSE Seen(t)
  BY <1>1, <1>4 DEF Seen, IInv, SchedInv, Tasks
<1>6. \A r \in Sems : queue'[r] = IF s = r THEN Tail(queue[r]) ELSE queue[r]
  BY <1>1 DEF IInv, QueueInv
<1>. QED  BY <1>1, <1>2, <1>3, <1>5, <1>6 DEF AbsStutter

(* P() and V(), statement by statement on the preemptible CPU, implement    *)
(* the atomic P and V: the decrement and the increment are where they take  *)
(* effect, every other statement, interrupt and switch is invisible.        *)
THEOREM RefinesSemaphore == Spec => ImplementsSemaphore
<1>1. ASSUME Init  PROVE Abstract!SemInit
  <2>1. ~Busy
    BY <1>1 DEF Init, SchedInit, Busy, At, Top, Frame, Tasks
  <2>2. absQueue = [s \in Sems |-> queue[s]] /\ absState = [t \in Threads |-> Seen(t)]
    BY <2>1, Mapping
  <2>3. absQueue = [s \in Sems |-> <<>>]
    BY <1>1, <2>2 DEF Init
  <2>4. absState = [t \in Threads |-> "TASK_RUNNABLE"]
    BY <1>1, <2>2 DEF Init, SchedInit, Seen, Tasks
  <2>. QED
    BY <1>1, <2>3, <2>4 DEF Init, Abstract!SemInit, Abstract!semaphore_init, Abstract!RUNNABLE
<1>2. ASSUME IInv, [Next]_vars  PROVE [Abstract!SemNext]_(Abstract!semVars)
  <2>1. CASE UNCHANGED vars
    <3>1. UNCHANGED <<current, stack, state, value, queue>>
      BY <2>1 DEF vars
    <3>. QED
      BY <3>1 DEF Abstract!semVars, absQueue, absState, GoingToSleep, Waking, At, Top
  <2>2. CASE Next
    <3>1. SchedInv'
      BY <1>2, SchedInvStep
    <3>2. \/ Silent
          \/ \E s \in Sems : PDecView(s) \/ PSleepView(s) \/ VIncView(s) \/ VWakeView(s)
      BY <1>2, <2>2, <3>1, StepView DEF IInv
    <3>3. AbsStutter \/ Abstract!SemNext
      BY <1>2, <3>2, SilentAbs, PDecAbs, PSleepAbs, VIncAbs, VWakeAbs
      DEF Abstract!SemNext, IInv
    <3>. QED  BY <3>3 DEF AbsStutter, Abstract!semVars
  <2>. QED  BY <1>2, <2>1, <2>2
<1>. QED  BY <1>1, <1>2, SchedInvariant, PTL DEF Spec, ImplementsSemaphore, Abstract!SemSpec
=============================================================================
