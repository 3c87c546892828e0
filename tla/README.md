# wind_os in TLA+

wind_os is a small teaching kernel for i386: one CPU, a timer that preempts
kernel threads, semaphores and a Hoare monitor on top of the scheduler, a page
allocator, a heap, demand paging with a swap disk, and a first step towards
user processes. This directory holds TLA+ models of its core, the TLC
configurations that check them, and TLAPS proofs of the properties that matter
most. Paths below are relative to the root of the repository.

Run a model with `tlc -config <file>.cfg <module>` and check the proofs with
`tlapm <module>.tla`.

## The system

| component | state | operations | interacts with |
|---|---|---|---|
| scheduler (`schedule/process/sched.c`, `switch_to.S`) | `current`, `proc_list`, `pcb->state`, the stack of every thread | `schedule`, `run_thread` | called by the timer, by `P`, by `do_exit`, by `do_waitpid` |
| interrupts (`idt/timer.c`, `idt/intr.S`, `idt/pic.c`, `atom_*_intr` in `proc.c`) | IF in eflags | timer interrupt, mask, unmask | preempts everything that runs with IF set |
| semaphores (`schedule/synchronize/semaphore.c`) | `value`, `queue` | `P`, `V` | mask interrupts; `P` calls `schedule` |
| monitor (`monitor.c`) | `mutex`, `next`, `next_count`, per condition `x_sem`, `x_count` | `enter`, `leave`, `wait`, `signal` | built from `P` and `V`, interrupts on |
| producer and consumer (`productor_consumer.c`) | `buffer_m` (and `buffer_s`) | `producer_monitor`, `consumer_monitor` (and the two with semaphores) | clients of the two above |
| processes (`proc.c`) | `pids`, `proc_num`, `pcb_t` with the family pointers | `do_fork`, `do_exit`, `do_waitpid`, `recycle_child` | heap, page allocator, scheduler |
| user processes (`user.c`) | trap frames, an address space each | system calls fork, wait, execve, exit, `user_main` | processes, page tables, areas |
| heap (`mm/malloc.c`) | the chunk list | `malloc`, `free` | page allocator |
| page allocator (`mm/pmm.c`) | the free list of `struct Page`, block counts | `alloc_page`, `free_page`, `map`, `unmap`, `get_pte` | calls `swap_out` on every single page |
| memory areas (`mm/vmm.c`) | the list of areas, its cache | `create_vma`, `find_vma`, `page_fault`, `do_swap` | heap, swapping |
| swapping (`mm/swap.c`) | the FIFO of resident pages, disk sectors, ptes | `swap_in`, `swap_out` | page allocator, disk |
| keyboard (`idt/keyboard.c`) | flags for shift, ctrl, caps lock and the 0xE0 prefix | `kbd_handler`, `getchar` | interrupts threads; prints |
| screen (`libs/VGA.c`, `libs/stdio.c`) | `cursor_x`, `cursor_y`, video memory | `show_char`, `scroll`, `printf`, `put_int` | called by threads with IF set and by every handler |
| descriptor tables, boot loader | tables | | |

What is hard here is concurrency on one CPU: a timer interrupt may switch
threads between any two instructions while IF is set, IF is not part of the
context that `switch_to` saves, and the monitor's functions run unmasked. The
memory side is sequential, but depends on long histories of calls and on
boundaries: headers, page ends, list order against address order. Processes
wait by spinning through `schedule`, with pointers to pcbs that others may free
meanwhile, and their family links are spliced in every order of forks, exits
and waits.

The correctness of the parts, in a sentence each:

- scheduler: only prepared, runnable threads are switched to; a thread comes
  back with its interrupt flag; a runnable thread gets the CPU;
- semaphore: the interruptible code behaves like an atomic `P` and `V`; value,
  queue and process states agree; no wake-up is lost;
- monitor: one thread inside, no update of a counter lost, no permit astray,
  never locked and empty;
- producer and consumer: the buffer within its bounds, everybody works for ever;
- processes: the links describe one family tree; only a parent reaps, and only
  zombies; who waits for a process that has exited comes back;
- areas: every address space can be walked and searched, in spite of
  `create_vma`;
- console: the cursor is on the screen whenever nobody prints, letters come out
  in the case in which they were typed, numbers as they are, in a buffer that is
  long enough;
- heap: blocks disjoint and unchanged until freed, nothing lost, neighbours
  joined;
- page allocator: every page in one hand, the number of free pages exact, every
  free page within reach;
- swapping: every frame with one owner, a page holds what was last written to it.

## Modules

| module | models | built on |
|---|---|---|
| `Semaphore` | `P` and `V` as atomic steps of any runnable process | |
| `Monitor` | every statement of `enter`, `leave`, `wait`, `signal` as an action | `Semaphore` |
| `MonitorProofs` | theorems about both | `Monitor` |
| `ProdConsMonitor` | `producer_monitor`, `consumer_monitor` | `Monitor` |
| `ProdConsProofs` | theorems about it | `ProdConsMonitor`, `MonitorProofs` |
| `Sched` | `schedule`, the timer interrupt, `do_exit`, the boot thread, statement by statement | |
| `SchedSemaphore` | `P` and `V` statement by statement on the CPU of `Sched` | `Sched`, refines `Semaphore` |
| `SchedProofs` | theorems about both, with the refinement | `SchedSemaphore` |
| `Malloc` | `malloc` and `free` on the chunk list | |
| `MallocProofs` | theorems about it | `Malloc` |
| `PageAlloc` | `alloc_page` and `free_page` on the free list, with the swap that `alloc_page(1)` does | |
| `PageAllocProofs` | theorems about it | `PageAlloc` |
| `Swap` | `page_fault`, `do_swap`, `swap_in`, `swap_out`, `map`, `get_pte`, the disk and the TLB | |
| `SwapProofs` | theorems about it | `Swap` |
| `Vmm` | the area list: `create_mm`, `create_vma`, `find_vma` (operators) | |
| `Process` | `do_fork`, `do_exit`, `do_waitpid` and what they call, `sys_execve`, `user_main` | `Vmm` |
| `ProcessProofs` | theorems about it | `Process` |
| `Screen` | the cursor, `scroll`, `put_int` (operators) | |
| `Keyboard` | the flags and tables behind `getchar` (operators) | |
| `Console` | threads that print, access by access, with the timer and the keyboard interrupt | `Screen`, `Keyboard` |
| `ConsoleProofs` | theorems about it | `Console` |

The `MC*` modules only give constants their values. Definitions whose name ends
in `_Something` after the name of another definition are plausible bugs in that
code; they are not part of any specification and serve to confirm that each
property would notice them.

**Layers.** `Semaphore` is the abstract specification of `semaphore.c`: it
assumes that `P` and `V` are atomic. `SchedSemaphore` does not; there every
statement is a step, the timer may interrupt wherever IF is set, and other
threads run in between. Its property `ImplementsSemaphore` is the specification
of `Semaphore` under a refinement mapping in which `P` takes effect at the
decrement and `V` at the increment. So `Monitor` and the producer and consumer
threads may use the atomic operations.

**Scheduling.** In `Sched` a thread is a stack of call frames; a frame has the
function, the statement and the locals that matter (`flag`, an argument). The
CPU executes the innermost frame of `current`. `run_thread` only changes
`current`: whoever called it goes on at the statement behind when it is chosen
again, as `switch_to` does. A new thread begins in the return path of an
interrupt, with IF set in its frame (`copy_thread`, `context_to_intr`). The
boot thread is `idle`, which is not in `proc_list`.

**Monitor.** The client is the most general one: inside, it calls `wait`,
`signal` and `leave` in any order. A thread whose `P` has blocked stands at the
statement behind it, asleep. `x_count ++` and the other three updates of the
counters are a load and a store each, with `reg` for what was loaded, since the
functions run with interrupts on and nothing makes the compiled update atomic.

**Heap.** The list of chunks is a sequence in list order; addresses are
numbers. `alloc_page` is reduced to what it promises, consecutive pages nobody
uses, at any place.

**Pages.** `page_init` links the pages by physical pointers, `alloc_page`
returns linear ones, and `free_page` gets either and compares them. In
`PageAlloc` a pointer is therefore a page with the number of times
`VERTUAL_MEM` was added to it. `free_pages` holds the list in list order and the
block counts of the pages. Each of the callers is an action: those that use the
address only (`AllocBlock`), and those that also write to the `struct Page`
(`AllocTable` in `get_pte`, `AllocSwappable` in `do_swap` and `swap_in`). The
address that `pg_to_addr_la` computes is the page's even from a pointer to which
`VERTUAL_MEM` was added twice, because the overflow cancels out; a write through
such a pointer faults outside every area and panics. The one thing left out is
what happens when a page that is in the list is put there again (`NotListed`):
the list is intrusive and is then no sequence any more.

**Swapping.** In `Swap` a pte is the 32-bit word, since the disk address that
`swap_out` leaves in it overlaps the fields `sign` and `os`. An access of the
kernel and the fault it raises are one step: the handler runs behind an
interrupt gate. The frame that `alloc_page` finds is any free one, so what
`PageAlloc` shows of it is all that `Swap` needs. The areas are constants; the
first 4 MB never fault. The CPU keeps a translation until `invlpg` or until it
drops it, so an access may find the pte or the kept one. A write through a
translation that is out of date sets `strayed`, and the run of the machine ends
there as it does in `panic`: the write may have hit a page table, and what comes
after depends on contents the model does not have. If no frame is free,
`alloc_page` fails, the handler returns without a page and the access faults
again for ever; in the model it is just not possible.

**Processes.** `proc_init` is taken with the call that creates `init`, which is
commented out at this commit (`proc.c:178`): without it no process ever forks,
waits or exits. A pcb is named by its pid, which is never given back. System
calls run with IF clear and are one step up to `schedule`; a process that waits
is a step each time it gets the CPU again. Process 2 runs `user_main`, or
(program "any") makes the four calls in any order. Memory is the set of free
pages, so that one sees which pages a call takes and gives back. An address
space (`mm_struct`) has its page directory, the pages it maps, its list of areas
and `->num`, in which `vmm.c` counts areas and `proc.c` references. A fork fails
at any time for want of memory, and, when the pids are used up, on the path of
`proc.c:215`.

**Areas.** In `Vmm` an area is named by its start and, where a pointer to it is
kept (`->cache`), by the `mm` it was created for, so that the cache which
`copy_mm` hands down is seen to point into another `mm`. The list is kept as its
`->next` links, because `create_vma` can tie it into a loop: it inserts an area
twice in front of a list whose first area is greater. It also drops an area that
is greater than all others, which happens to the code page of `execve`;
nothing looks for that area later, since the page stays mapped.

**Console.** In `Console` a load, a store and a test of `cursor_x` or
`cursor_y` are steps of their own, because threads print with interrupts on.
After a store the compiled code may test the register or memory, so both are
possible. Handlers print with interrupts off, in one step; the timer handler
prints the line of `schedule` and switches. Keys go down and up in any order;
their codes wait until the handler reads them, each with what the user expects
of it.

## Runs

| run | question | bounds |
|---|---|---|
| `monitor` | is the monitor one, with a general client, and do its semaphores agree with their queues? | 4 threads (a signaller, a waiter, one entering, one more), 2 conditions, symmetric |
| `prodcons_monitor` | is `if` around `wait` enough, and does everybody go on? | 2 + 2 threads (the code has 1 + 1), capacity 5 as in the code |
| `sched_semaphore` | are switches right, is IF restored, does the code implement `Semaphore`? | 3 threads, 1 semaphore, value up to 1 |
| `sched_semaphore_live` | do calls return, does every runnable thread run, does the boot thread finish? | 2 threads, as in `test_monitor`, 1 semaphore |
| `malloc` | are blocks safe and is space kept? | header 2, page 8, 4 pages, sizes 1, 4, 6, 9 |
| `page_alloc` | is every page in one hand? | 7 pages, blocks of 1 to 3 |
| `swap` | has every frame one owner, and does a page hold what was written? | 4 pages (two of `test_swap`, a read-only one, one without an area), 4 frames, 2 values (symmetric), a TLB |
| `swap_tlb` | violation: a page reads back what was written to it | the same |
| `process` | is the family a tree, who is reaped by whom, can areas be found, does everybody come back? | 5 pids (idle, init, process 2 and two more), 22 pages, which are always enough, both programs |
| `process_pages` | violation: pages in use are not given back | the same, `user_main` only |
| `process_init` | violation: every exit ends | the same, program "any" |
| `console` | is the cursor on the screen, are letters right? | 3 columns, 2 lines, 2 threads that print the number 7, lines of 2 characters from handlers, 6 kinds of keys, 2 codes waiting |

Three threads suffice for the scheduler's ring: one running, one skipped, one
chosen. The sizes of `malloc` are those that leave more than a header, exactly
a header, and nothing of a page, and one that needs two pages; header and page
are scaled down because only comparisons with them matter. Seven pages leave
room for three blocks and the gaps between them in every order of release, and
they can be used up, which is when misplaced pages come to the front. Four
frames are two page tables, one resident page (there is never more than one,
`OneResident`) and the one that is allocated before the swap frees another.

Five pids are what `user_main` needs: a grandchild that is adopted, a brother on
either side, and the pids running out. (The safety part was also run once with
six.) Three columns and two lines let every print wrap and scroll. Two codes
hold a prefix with its key. The largest runs are `console` (2.0 million states),
`page_alloc` (1.5 million) and `swap` (1.2 million), about a minute each.

`entry.c:110` has the remark "failed!!" behind the call of `test_monitor`. No run
shows a failure of that test: `EveryThreadWorks` and `BufferBounds` hold, on the
threads of `test_monitor` twice over, and `BootCompletes` says that both threads
are created. The remark seems to be left from an earlier state of the code.

`BootCompletes` is checked with two threads for a reason: `schedule` resumes
`idle` only when no other thread is runnable. With three threads that never
block, the third is never created; the code does not have this case because its
threads block.

**Fairness.** The CPU does not stop (weak fairness of the kernel's steps). The
interrupt controller keeps a timer interrupt while IF is clear and delivers it
when IF is set, so the timer has strong fairness; so has a thread inside the
kernel's functions, since 26 interrupts a second leave it time for many
instructions whenever it is switched to. In the modules above the scheduler
(`ProdConsMonitor`), every thread has weak fairness, which is what `RunnableRuns`
shows of the scheduler. In `Process` the timer has strong fairness, a waiting
process that has the CPU goes on (weak fairness of `Resume`), and the programs of
the kernel, which end, make their next call if they get the CPU again and again;
the program "any" may run for ever, and gets no fairness.

**Findings.** `swap_tlb`: `swap_out` does not execute `invlpg`; a page that was
swapped out is written through a stale translation and the value is lost, as
`swap.c` reports without an explanation. In the run a page is read, another one
is read and so swaps the first out, and the first is written. `DataKept` says
what remains true: up to such a write nothing is lost, and a page that is in
memory is read right.
The other two concern processes, of which none runs at this commit, since the
creation of `init` is commented out (`proc.c:178-182`); they are met once it is
enabled. `process_pages`: `recycle_child` computes the stack's address from a
`start_stack` that was lowered by 4, and frees the page in front of the stack;
`user_main` loses its code page when it reaps its first child.
`process_init`: `init` waits for process 2 only; if it then exits with a child
that it has adopted, `send_chld_to_init` hands this child to `init` itself for
ever, with interrupts off.

Seen while modelling, without a run of their own:

- `pmm.c:59` compares linear with physical pointers, so a page that was swapped
  out is inserted in front of the last page of memory, wherever it belongs. A
  block that ends there unlinks the misplaced page in place of the last one and
  hands the last one out, which stays in the list: take two pages (0, 1), let 2
  become resident, take 3 (which swaps 2 out), and ask for three pages; 4, 5 and 2
  leave the list, 4, 5 and 6 are handed out. TLC finds this if `PagesOnce` is
  asked to make no exception (`Listed \cap Held = {}`); the exception it makes, the
  last page, says that this is the worst of it.
- `pmm.c:43`: when the first block is used up, a page that was freed by its linear
  pointer comes to the front of the list, and `VERTUAL_MEM` is added to it a second
  time. Paging alone leads there, since each fault takes a page from the front and
  frees one at the end: `\A b \in used : b.p.a = LINEAR` is violated, and
  `panicked` becomes true.
- `pmm.c:29`: when a block is allocated whole, the count of the block behind it is
  overwritten with 0. Take page 0, take page 1, free page 0, take it again: the
  count of page 2 is lost, and since `alloc_page` looks at the first block only,
  every later request fails although all pages but two are free.
- `malloc.c:24` always wants room for another header, so a free chunk of exactly
  the size asked for is passed over and new pages are taken.
- `vmm.c:179`: the test for a writable area is never true, and `swap_in` maps
  every page writable; no harm is done while CR0.WP is clear.
- `swap.c:19`: `waitdisk` looks for the error bits in a status it has masked, so
  disk errors are never seen.
- `proc.c:203`: `proc_num` may exceed `MAX_PROCESS` by one, and neither it nor
  the pids are given back.
- `proc.c:291`: `->num` of a copied `mm` starts at that of the original and then
  counts the areas again; `delete_mm` never frees anything.
- `proc.c:217`: when the pids are used up, `do_fork` frees the second page of
  the new stack with the page behind it, through a pcb that is already freed.
- `proc.c:228`: for a first child `do_fork` writes through a null `optr`, into
  entries of the page directory at address 0 that nothing uses.
- `proc.c:121`: `init` walks `proc_list` with interrupts on, while others may
  free the pcb it stands on.
- `user.c:136`: in the child `fork()` returns what was left in eax; `print()`
  happens to leave 0.
- `stdio.c:30`: "32位整数最高10位" (ten digits are enough for 32 bits) is true in
  decimal and hexadecimal, which `PutIntPrints` proves; octal numbers from 2^30 on
  have eleven, one more than fits in front of the terminating 0. Nobody prints
  with `%o`.
- `proc.c:353`: the copy of an `mm` keeps the `->cache` of the original. No `mm` is
  ever freed, so the area it points to stays, with the same bounds as the copy's.
- `keyboard.c:73`: the prefix flag is cleared only by the release of ctrl, so the
  two ctrl keys are mixed up; nothing reads their flags.
- `keyboard.c:78`: caps lock also shifts digits, and repeats while it is held.

## Proofs

The theorems hold for every value of the constants that the assumptions in the
modules allow, so for any number of threads, semaphores, pages or frames and for
any length of run, within what the modules model (`PageAlloc` up to the release
of a page that is in the list, `Swap` up to a stray write). TLC evaluates the
assumptions in each run:

| assumption | says |
|---|---|
| `SemaphoreAssumption` | finitely many processes; initial values are natural numbers |
| `MonitorAssumption` | the semaphores are `mutex`, `next` and one per condition, all different |
| `ProdConsAssumption` | every thread is a producer or a consumer, there are two conditions, the buffer has room for something |
| `SchedAssumption` | the boot thread creates at least one thread and none twice; `idle` is none of them |
| `MallocAssumption` | a header is smaller than a page, no size asked for is 0 |
| `PageAllocAssumption` | there is a page |
| `SwapAssumption` | the pages lie above the first 4 MB, frame 0 is not handed out |
| `VmmAssumption`, `ProcessAssumption` | at least `idle`, `init` and process 2 have a pid; pages are enough for all of them (a fork may fail for want of memory all the same); areas start at 1 to 6 |
| `ScreenAssumption`, `ConsoleAssumption` | at most 252 columns and 254 lines (the cursor is two u8), the keys that are used are keys |

The properties the runs check are seldom inductive as they stand. Each
specification therefore has an inductive invariant, proved action by action, from
which they follow.

- `MonitorProofs`, first about `SemSpec`, in which processes call `P` and `V` in any
  order: `SemTypeOK` is inductive; `QueueMatchesValue` and
  `SleepersQueued` are inductive relative to it. The latter needs both halves,
  that sleepers are queued and that nobody is queued twice: with only the first,
  a `V` could wake a process that is still in a queue.
- `MonitorProofs`, about the monitor: the invariant `MonIInv` says that one token goes round. It is
  a permit in `mutex`, a permit in `next` or in a condition with its taker on the
  way, or a thread that is inside or was woken. Mutual exclusion, the exact
  counters, the absence of stray permits and `NotWedged` follow from it; none of
  them is inductive by itself, since without the token nothing says that a woken
  thread is the only one inside. For `CountsExact` the invariant also says that
  whoever has loaded a counter and not stored it yet holds the value that the
  counter still has: only the thread with the token is between the two, so
  nobody else stores. The proof has one step for each statement of
  the monitor's functions.
- `ProdConsProofs`: `BufferBounds` is not inductive, because a thread tests the
  buffer once and relies on the test after `wait`. `PCIInv` adds to the monitor's
  invariant that the promise travels with the token: from the thread that
  signals, which has just changed the buffer, to the permit, to the thread that
  takes it. `PCUsesMonitor` shows that the producers and consumers are a client
  of `Monitor`, so its theorems apply to them.
- `SchedProofs`, about `SchedSemaphore`: `IInv` says which call frame may lie
  on which (`P` calls `schedule` only at its sleep, a timer interrupt lies only
  on code with IF set, and so on), that the innermost frames of the running
  thread determine IF, that every other thread stands where `run_thread` left it
  or is new, and that whoever is asleep is in one queue or on the way in or out.
  From it follow `ThreadsRunUnmasked`, `NoPanic`, `SleeperGivesWay` and the
  action property `SwitchOnlyToRunnable`. `RefinesSemaphore` proves
  `ImplementsSemaphore`: initial states map to initial states, the decrement in
  `P` and the increment in `V` map to the atomic operations, every other step of
  any thread maps to a stutter.
- `MallocProofs`: `MallocTypeOK`, `ChunksDisjoint`, `BlocksKept`, `NoLeak` and
  `Coalesced` are inductive together, with no more than a type for the list. None
  is so alone: joining two chunks, for instance, keeps them disjoint from a third
  only because nothing lies between them. Splitting and joining are described by
  what they do to each index of the list.
- `PageAllocProofs`: `alloc_page(n)` hands out the first n elements of the list
  as if they were neighbours in memory. `PagesOnce` is not inductive: whether they
  are depends on what the counts promise. The invariant `PageIInv` adds three
  things. `ListOK`: but for its last element, which is the last page of memory,
  the list is in the order that `free_page` compares by, physical pointers before
  linear ones, and has no page twice. `RunsOK`: the pages below the last one that
  a count promises are in the list by the same kind of pointer, with count 0.
  `EndsOK`: no count reaches beyond the end of memory, that of a linear pointer
  does not even reach the last page, and none does once the last page is in use.
  So a block that is handed out can take a misplaced page in place of the last
  page and of no other. Nothing is assumed of how many pages are allocated.
- `SwapProofs`: `SwapIInv` ties ptes, FIFO, free frames and disk together, with
  a set of frames that are taken and not mapped yet, so that it holds between the
  calls inside one fault as well. `SwapTypeOK` and `FramesExclusive` follow.
  `DataKept` needs `DataIInv` besides: unless a write has strayed, the frame of a
  page in the FIFO holds what was last written to the page and the TLB has no
  other frame for it, and the sectors of any other page hold it. `ReadsLastWrite`
  itself is false, as the run `swap_tlb` shows; so the missing `invlpg` is the
  only thing that is wrong with the data.
- `ConsoleProofs`: a switch and a keyboard interrupt both print a line, which
  brings the cursor back wherever it was; so only the running thread can have
  moved it off the screen, and it is then about to bring it back (`Returning`).
  That a line does so is an induction over its characters (`LineBack`), for which
  the fold of `put_raw_string` is shown to be a sequence of calls of `show_char`
  (`ShowsString`). For `LettersRight` the invariant has the flags before and
  after each code that waits: they lead from those of the driver to the keys that
  are down.
  `PutIntPrints` is about the operator `put_int`, for every `u32`, the addresses
  above 0xC0000000 that `alloc_page` prints included. Two loops have to be
  followed: the one that swaps has exchanged the first and the last k digits after
  k turns (`PutIntReverses`), and the value of the first k digits printed is what
  the division had left when it came to them (`ValueBack`). That ten digits are
  enough is that ten divisions leave nothing (`TenDivisions`). TLC, whose numbers
  have 31 bits, evaluates some samples (`PutIntSamples`).
- `ProcessProofs`: `FamilyTree` speaks of what a walk along `->optr` meets. That
  each link is right (`->cptr` leads to the one child without a younger brother,
  `->yptr` and `->optr` are converse, brothers have one parent) does not say that
  the walk ends or meets every child, since brothers could also form a ring that
  the walk never enters. `Linkage` therefore asks for a rank that falls along
  `->optr`; `BrothersFamily` makes the sequence of the children from it. A fork and
  an adoption put the new youngest child above all others (`ForkKeeps`,
  `AdoptKeeps`), `recycle_child` keeps the ranks (`ReapKeeps`), and the loop of
  `send_chld_to_init` is an induction over its turns (`SendKeeps`). `ProcInv` adds
  what these steps rely on: a parent lives and has a smaller pid; a zombie has no
  children; who waits lives, and waits for a child of its own. `ReapsOwnChild`
  rests on `init` being the last of the list and on its exiting as the last
  process, unless it hangs: so the oldest pcb, which `do_waitpid(0)` tests without
  asking for its parent, is not a zombie while anybody waits. For `AreasFound` the
  list of areas has the same links in every `mm`, through `copy_mm` and `execve`,
  and every `->cache` still holds the area of the kernel's `mm`, from which all were
  copied.

Only model-checked, besides the violations: liveness and fairness (`RunnableRuns`, `EveryThreadWorks`,
`CallsReturn`, `BootCompletes`, `WaitersReturn`, `AllCollected`), which the
provers do not handle. Every invariant and every action property that a passing
run checks is also a theorem.

## Plan

1. Done: `Semaphore`, `Monitor`, the producer and consumer threads, `Sched`,
   `SchedSemaphore`, `Malloc`, `PageAlloc`, `Swap`, `Vmm`, `Process`, `Screen`,
   `Keyboard`, `Console`.
2. Done: the proofs above, for every specification.
3. `malloc` and `do_waitpid` under preemption, on the CPU of `Sched`.

## Not modelled

Device programming (8259, 8253, IDE registers, the hardware cursor), descriptor
tables, the boot loader, backtraces and the content of the screen: they are
configuration or output without state that a property could be about. The
semaphore version of producer and consumer, whose call is commented out in
`init`. Registers, trap frames and the content of user memory, including what a
process loses when one of its pages is given away. `malloc` with a failed
`alloc_page` writes outside the heap and is listed as a hazard only; so is a
disk that fails. The free list once a page is in it twice, and the machine once
it has written through an outdated translation.
