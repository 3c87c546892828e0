-------------------------------- MODULE Sched --------------------------------
(***************************************************************************)
(* The scheduler on its single CPU: schedule() of sched.c, run_thread()    *)
(* and do_exit() of proc.c, the timer interrupt of timer.c and the boot    *)
(* thread of entry.c that creates the kernel threads.                      *)
(*                                                                         *)
(* The model works at the grain at which an interrupt can be noticed.      *)
(* Every thread has a stack of call frames, innermost first; the CPU       *)
(* executes the innermost frame of `current'.  A frame records the         *)
(* function, the statement it is at, and its locals: flag (the result of   *)
(* atom_disable_intr()) and arg.  The interrupt flag IF of eflags is a     *)
(* register of the CPU: switch_to() does not save it, so each thread finds *)
(* it as the thread before left it.                                        *)
(*                                                                         *)
(* Initially proc_init() has run: current = idle, the boot thread, and     *)
(* interrupts are on.                                                      *)
(***************************************************************************)
EXTENDS Naturals, Sequences, FiniteSets

CONSTANTS
  Order,      \* the kernel threads in the order the boot thread creates them
  idle        \* proc No.0: the boot thread, which is not in proc_list

Threads == {Order[i] : i \in 1..Len(Order)}
Tasks == Threads \cup {idle}

ASSUME SchedAssumption ==
  /\ Order \in Seq(Threads) /\ Order # <<>>
  /\ \A i, j \in 1..Len(Order) : Order[i] = Order[j] => i = j
  /\ idle \notin Threads

VARIABLES
  IntrOn,     \* IF in eflags
  current,    \* the pcb of the running thread
  proc_list,  \* the pcbs in the order in which ->next visits them
  state,      \* pcb->state
  stack       \* the call frames of each thread, innermost first

schedVars == <<IntrOn, current, proc_list, state, stack>>

Nothing == "nothing"

Frame(fn, at) == [fn |-> fn, at |-> at, flag |-> FALSE, arg |-> Nothing]

(* The boot thread is in init(); no thread exists yet. *)
SchedInit ==
  /\ IntrOn = TRUE
  /\ current = idle
  /\ proc_list = <<>>
  /\ state = [t \in Tasks |-> "TASK_READY"]
  /\ stack = [t \in Tasks |-> IF t = idle THEN <<Frame("init", "insert")>> ELSE <<>>]

-----------------------------------------------------------------------------
(* The running frame, and what a statement may do to the stack. *)
Top == Head(stack[current])

At(fn, at) == stack[current] # <<>> /\ Top.fn = fn /\ Top.at = at

SetTop(f) == stack' = [stack EXCEPT ![current] = <<f>> \o Tail(@)]

Goto(at) == SetTop([Top EXCEPT !.at = at])

(* Call f; when it returns the caller goes on at statement at. *)
Call(f, at) ==
  stack' = [stack EXCEPT ![current] = <<f, [Top EXCEPT !.at = at]>> \o Tail(@)]

Return == stack' = [stack EXCEPT ![current] = Tail(@)]

(* flag = atom_disable_intr(): remember whether interrupts were on. *)
atom_disable_intr(at) ==
  /\ SetTop([Top EXCEPT !.at = at, !.flag = IntrOn])
  /\ IntrOn' = FALSE

(* atom_enable_intr(flag): back on only if they were on. *)
atom_enable_intr == IntrOn' = (IntrOn \/ Top.flag)

-----------------------------------------------------------------------------
(* The threads after t in the ring of proc_list, t itself excluded; for     *)
(* idle, which is not in the ring, all of them from the front.              *)
RingAfter(t) ==
  IF t = idle THEN proc_list
  ELSE LET i == CHOOSE j \in 1..Len(proc_list) : proc_list[j] = t
       IN  SubSeq(proc_list, i + 1, Len(proc_list)) \o SubSeq(proc_list, 1, i - 1)

(* A search that ends with target_pcb = NULL when nothing is runnable. *)
target_pcb_NoIdle(ring) ==
  LET runnable == {i \in 1..Len(ring) : state[ring[i]] = "TASK_RUNNABLE"}
  IN  IF runnable = {} THEN Nothing
      ELSE ring[CHOOSE i \in runnable : \A j \in runnable : i <= j]

(* The first runnable one, or idle. *)
target_pcb(ring) ==
  LET runnable == {i \in 1..Len(ring) : state[ring[i]] = "TASK_RUNNABLE"}
  IN  IF runnable = {} THEN idle
      ELSE ring[CHOOSE i \in runnable : \A j \in runnable : i <= j]

(* A search that starts from the front of the list every time. *)
SchedulePick_FromFront ==
  /\ At("schedule", "pick")
  /\ SetTop([Top EXCEPT !.at = "run", !.arg = target_pcb(proc_list)])
  /\ UNCHANGED <<IntrOn, current, proc_list, state>>

(* schedule(): mask, search, run_thread(), unmask. *)
ScheduleMask ==
  /\ At("schedule", "mask")
  /\ atom_disable_intr("pick")
  /\ UNCHANGED <<current, proc_list, state>>

SchedulePick ==
  /\ At("schedule", "pick")
  /\ SetTop([Top EXCEPT !.at = "run", !.arg = target_pcb(RingAfter(current))])
  /\ UNCHANGED <<IntrOn, current, proc_list, state>>

(* run_thread() and switch_to(): the caller resumes at "unmask" when some   *)
(* later schedule() chooses it; if it chose itself, at once.                *)
run_thread ==
  /\ At("schedule", "run")
  /\ Goto("unmask")
  /\ current' = Top.arg
  /\ UNCHANGED <<IntrOn, proc_list, state>>

(* schedule() that returns to its caller with interrupts masked. *)
ScheduleUnmask_Missing ==
  /\ At("schedule", "unmask")
  /\ Return
  /\ UNCHANGED <<IntrOn, current, proc_list, state>>

ScheduleUnmask ==
  /\ At("schedule", "unmask")
  /\ atom_enable_intr
  /\ Return
  /\ UNCHANGED <<current, proc_list, state>>

schedule == ScheduleMask \/ SchedulePick \/ run_thread \/ ScheduleUnmask

-----------------------------------------------------------------------------
(* The timer interrupt, between any two instructions while IF is set: the   *)
(* interrupt gate clears IF; the return address stays on the stack of the   *)
(* interrupted thread.                                                      *)
TimerInterrupt ==
  /\ IntrOn
  /\ IntrOn' = FALSE
  /\ stack' = [stack EXCEPT ![current] = <<Frame("timer_handler", "mask")>> \o @]
  /\ UNCHANGED <<current, proc_list, state>>

(* timer_handler(): jiffies++ and schedule() between mask and unmask; then  *)
(* trap() returns and iret restores the interrupted thread's eflags, in     *)
(* which IF was set.                                                        *)
TimerMask ==
  /\ At("timer_handler", "mask")
  /\ atom_disable_intr("call")
  /\ UNCHANGED <<current, proc_list, state>>

TimerCall ==
  /\ At("timer_handler", "call")
  /\ Call(Frame("schedule", "mask"), "unmask")
  /\ UNCHANGED <<IntrOn, current, proc_list, state>>

TimerUnmask ==
  /\ At("timer_handler", "unmask")
  /\ atom_enable_intr
  /\ Goto("iret")
  /\ UNCHANGED <<current, proc_list, state>>

TimerReturn ==
  /\ At("timer_handler", "iret")
  /\ IntrOn' = TRUE
  /\ Return
  /\ UNCHANGED <<current, proc_list, state>>

timer_handler == TimerMask \/ TimerCall \/ TimerUnmask \/ TimerReturn

-----------------------------------------------------------------------------
(* do_exit(), called when the thread's function returns. *)
CallExit ==
  /\ At("body", "run")
  /\ Call(Frame("do_exit", "mask"), "run")
  /\ UNCHANGED <<IntrOn, current, proc_list, state>>

ExitMask ==
  /\ At("do_exit", "mask")
  /\ atom_disable_intr("zombie")
  /\ UNCHANGED <<current, proc_list, state>>

(* do_exit() that leaves the state of the thread alone. *)
ExitZombie_Forgotten ==
  /\ At("do_exit", "zombie")
  /\ Goto("unmask")
  /\ UNCHANGED <<IntrOn, current, proc_list, state>>

(* delete_mm() and send_chld_to_init() touch no scheduling state: kernel    *)
(* threads have no mm, and no parent is ever in waitstate WT_CHILD.         *)
ExitZombie ==
  /\ At("do_exit", "zombie")
  /\ state' = [state EXCEPT ![current] = "TASK_ZOMBIE"]
  /\ Goto("unmask")
  /\ UNCHANGED <<IntrOn, current, proc_list>>

ExitUnmask ==
  /\ At("do_exit", "unmask")
  /\ atom_enable_intr
  /\ Goto("call")
  /\ UNCHANGED <<current, proc_list, state>>

ExitCall ==
  /\ At("do_exit", "call")
  /\ Call(Frame("schedule", "mask"), "panic")
  /\ UNCHANGED <<IntrOn, current, proc_list, state>>

do_exit == ExitMask \/ ExitZombie \/ ExitUnmask \/ ExitCall

-----------------------------------------------------------------------------
(* The boot thread creates its threads with kernel_thread() one by one,     *)
(* interrupts on: do_fork() links the pcb at the front of proc_list, then   *)
(* copy_thread() prepares its stack, then wakeup_process() lets it run.  A  *)
(* new thread starts in the return path of an interrupt, with IF set in     *)
(* its frame (context_to_intr), and from there in its function.             *)
NewThread == Order[Len(proc_list) + 1]
LastThread == Head(proc_list)

(* do_fork() that wakes the thread before its stack is ready. *)
ForkInsert_Early ==
  /\ At("init", "insert")
  /\ Len(proc_list) < Len(Order)
  /\ proc_list' = <<NewThread>> \o proc_list
  /\ state' = [state EXCEPT ![NewThread] = "TASK_RUNNABLE"]
  /\ Goto("copy")
  /\ UNCHANGED <<IntrOn, current>>

ForkInsert ==
  /\ At("init", "insert")
  /\ Len(proc_list) < Len(Order)
  /\ proc_list' = <<NewThread>> \o proc_list
  /\ Goto("copy")
  /\ UNCHANGED <<IntrOn, current, state>>

NewStack == <<Frame("timer_handler", "iret"), Frame("body", "run")>>

copy_thread ==
  /\ At("init", "copy")
  /\ stack' = [stack EXCEPT ![LastThread] = NewStack,
                            ![idle] = <<Frame("init", "wakeup")>>]
  /\ UNCHANGED <<IntrOn, current, proc_list, state>>

wakeup_process ==
  /\ At("init", "wakeup")
  /\ state' = [state EXCEPT ![LastThread] = "TASK_RUNNABLE"]
  /\ Goto("insert")
  /\ UNCHANGED <<IntrOn, current, proc_list>>

(* schedule(); while(1); *)
BootDone ==
  /\ At("init", "insert")
  /\ Len(proc_list) = Len(Order)
  /\ Call(Frame("schedule", "mask"), "spin")
  /\ UNCHANGED <<IntrOn, current, proc_list, state>>

init == ForkInsert \/ copy_thread \/ wakeup_process \/ BootDone

-----------------------------------------------------------------------------
(* One step of the CPU inside the kernel; whether the running thread's own  *)
(* function calls into it is up to the thread.                              *)
Kernel == schedule \/ timer_handler \/ do_exit \/ init

SchedNext == Kernel \/ CallExit \/ TimerInterrupt

(* The CPU does not stop.  The 8259 keeps a timer interrupt that arrives    *)
(* while IF is clear and delivers it when IF is set, and 26 interrupts a    *)
(* second leave the running thread time for many instructions: each thread  *)
(* that gets the CPU again and again executes its statements.               *)
SchedFairness ==
  /\ WF_schedVars(Kernel)
  /\ SF_schedVars(TimerInterrupt)
  /\ SF_schedVars(init)

SchedSpec == SchedInit /\ [][SchedNext]_schedVars /\ SchedFairness

-----------------------------------------------------------------------------
SchedTypeOK ==
  /\ IntrOn \in BOOLEAN
  /\ current \in Tasks
  /\ \A i \in 1..Len(proc_list) : proc_list[i] \in Threads
  /\ state \in [Tasks -> {"TASK_READY", "TASK_SLEEPING", "TASK_RUNNABLE", "TASK_ZOMBIE"}]
  /\ DOMAIN stack = Tasks

(* Code outside the kernel's critical sections always runs with interrupts  *)
(* on, whatever path the CPU took into the thread: switch_to() does not     *)
(* save IF, so every way of resuming a thread has to restore it.            *)
ThreadsRunUnmasked == At("body", "run") \/ At("init", "spin") => IntrOn

(* No thread is switched to unless it may run: it is runnable and its stack *)
(* is prepared, or it is idle.  A timer interrupt inside schedule() would   *)
(* break this (the comment at sched.c:13).                                  *)
SwitchOnlyToRunnable ==
  [][current' # current =>
       current' = idle \/ (state[current'] = "TASK_RUNNABLE" /\ stack[current'] # <<>>)
    ]_schedVars

(* A thread that has exited never runs again: the panic() that follows the  *)
(* last schedule() of do_exit() is not reached.                             *)
NoPanic == ~At("do_exit", "panic")

(* A thread that is not runnable gives the CPU away before it takes another *)
(* interrupt, unless it is exiting: P() sleeps with interrupts masked.      *)
SleeperGivesWay == state[current] = "TASK_SLEEPING" => ~IntrOn

(* A runnable thread gets the CPU, however long the others run.             *)
RunnableRuns ==
  \A t \in Threads : state[t] = "TASK_RUNNABLE" ~> (current = t \/ state[t] # "TASK_RUNNABLE")

(* The boot thread, which schedule() resumes only when no other thread is   *)
(* runnable, still gets to create its last thread.                          *)
BootCompletes == <>(Len(proc_list) = Len(Order))

=============================================================================
