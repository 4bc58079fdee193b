# A formal model of Neon EDS

Neon EDS is an event-driven runtime in C for microcontrollers, with a port to
Linux.  An application is a set of *event processing agents* (EPAs): state
machines with a queue of events each, run one event at a time by a cooperative
priority scheduler, while interrupt handlers and other threads send them events.
The specifications in this directory describe the parts of it that decide
whether an application works: the scheduler, the agents, the reference counts and
the memory of events, the timers, deferred work, the queues and lists, and what
the ports do to the core.  They are checked with TLC on small instances and, where
it matters most, proved with TLAPS for every value of the constants.  Sections 1
and 2 are an inventory of the system and of the modules, 3 and 4 say what is
checked and proved, 5 lists the defects of the code that came up, 6 what is left
out.

Source paths below are relative to the repository's root (`source/...`,
`include/...`, `port/...`).

## 1. The system: components, state, interaction

| component | state it keeps | operations | hard behaviour | what makes it correct |
|---|---|---|---|---|
| **Events** `source/event.c`, `include/ep/event.h` | `attrib`, `ref` of an event header; the memory block it lives in; the table of event memories | `nevent_create*`, `nevent_destroy*`, `nevent_lock/unlock`, `nevent_ref_up/down`, `nevent_forward`, register memory | counters changed by the loop, by interrupts and by state machines; some steps outside the kernel lock | the counter is the number of pointers that queues and dispatcher hold; nothing dangles, nothing leaks; the smallest sufficient memory is picked |
| **Agents** `source/epa.c` | working queue, deferred queue, dispatcher `vf_dispatch_i`, the thread | `nepa_register`, `nepa_send_*`, `nepa_defer_*`, `epa_init_i`, `epa_dispatch_i` | an event is taken from a queue without a test for emptiness; refused sends must undo their reference | the thread's count is the dispatches it is owed |
| **Scheduler** `source/sched.c` | lists per bucket of priorities, two-level bitmap, `current`, a count per thread | `nthread_init/term/insert_i/remove_i`, `ntask_*`, `nthread_schedule` | cached bitmap; insertion by interrupts between a dispatch and the next; idling | highest priority first, round robin among equals, no ready thread forgotten |
| **Bias lists, bitmap** `include/base/bias_list.h`, `bitop.h` | sorted or FIFO circular lists | insert, remove | empty lists, groups of words | bitmap and lists agree |
| **Virtual timers** `source/timer.c` | list of running timers with relative ticks | `ntimer_start`, `ntimer_cancel`, `ntimer_remaining`, `ncore_timer_isr` | callbacks that start and cancel timers while the list is walked; ticks taken off and given back | each timer expires in its tick, a cancelled one never |
| **Event timers** `source/etimer.c` | a timer, an agent and one event | `netimer_after/every/cancel`, the handler | the event already queued when its timer is cancelled; a full queue | no stale event is handled, a started timer is |
| **State machine processor** `source/smp.c` | current state, path buffers | `nsm_dispatch`, hierarchical transitions | six cases for the paths of a transition | exit and entry lists of the least common ancestor |
| **Deferred work** `source/deferred.c` | pending and working lists | `init`, `do`, `work` | interrupts between the links of an insertion and around the swap of the lists | every activation leads to one later run |
| **Queues, lists** `include/base/queue.h`, `dlist.h` | ring buffer with masked indices; two-way links | put at both ends, get, peek; add, remove, rotate | wrap in both directions; stale links | a bounded sequence; rings |
| **Memory managers** `source/heap.c`, `static.c`, `mem.c`, `pool.c`, `stdheap.c` | boundary tags, free lists | allocate, free, set up at the first allocation | splitting and merging | blocks tile the heap, objects never overlap |
| **Microcontroller ports** `port/stm32f4xx-none-gcc`, `port/stm32f4xx-none-arm`, `port/pic32-none-gcc` | interrupt mask, core timer, PendSV | lock enter and exit, timer init, enable, disable and term, deferred interrupt | masks that mask nothing; nested sections; flags cleared too early or late | exclusion, masks restored, no tick lost |
| **Linux port** `port/x86-64-linux-gcc` | three mutexes, a timer thread, SIGALRM, exit flag | `ncore_init/term`, lock, `ncore_idle`, timer enable and disable | a timer thread that is never joined; signals that merge | exclusion from start to end, alarms served, a quiet end |

They interact by shared state under one kernel lock.  A send puts an event into
an agent's queue and calls `nthread_insert_i`; the scheduler picks a thread and
calls its dispatcher through a function pointer with the lock held; the
dispatcher takes an event, releases the lock, runs the state machine, which may
call any of the API, takes the lock again, recycles the event and calls
`nthread_remove_i`.  The core timer's interrupt walks the list of timers and runs
callbacks under the lock; event timers send from there.  Events, state machines
and storage are allocated from memories under the same lock.

## 2. Modules

```
Event ------\                                   PriorityScheduler (abstract)
             EventRuntime -- MCEventRuntime          ^ implements
ReadyQueue -/      |                            Scheduler -- MCScheduler
               EventRuntimeProofs                    |  \-- SchedulerProofs
                                                PrioQueue -- ReadyQueue

TimerService (abstract) <-implements- Timer -- MCTimer
                                        \-- EventTimer -- MCEventTimer
                                                 \-- TimerProofs
WorkQueue (abstract)    <-implements- DeferredWork -- MCDeferredWork
                                        |   \-- DeferredWorkProofs
                                      CorePort, DList
Allocator (abstract)    <-implements- EventMemory -- MCEventMemory
                                        |   \-- EventMemoryProofs
                                      Heap
BoundedDeque (abstract) <-implements- Queue -- QueueProofs
StateChart (abstract)   <-implements- StateMachine -- StateMachineProofs
LinuxPort -- LinuxPortProofs
```

**Event** — event headers and blocks.  `mem` says which blocks the memory manager
has handed out, `ref` and `attrib` are the header's fields.  The contents and
identifiers are left out.  `RefUp`, `RefDown`, `Unreferenced`, `Destroy` are the
inline functions of `event.h` and `nevent_destroy_i`, as functions of the
counters so that callers chain them in the order of the code.

**ReadyQueue** — the run queue as the callers of the scheduler see it: a FIFO
sequence per priority.

**EventRuntime** — the core.  It composes events, agents and the loop.  The
variable `pc` says where the loop stands (`boot`, `sched`, `idle`, `init`,
`handle`, `destroy`); a step of it is the code between two points at which the
kernel lock is released or taken.  `pc = "sched"` means that the loop holds the
lock: no other locked call is enabled then.  `cpc`, `own`, `arg` are the program
counter and locals of each application context: `Loop` is application code called
by the loop (`main` and the state machines), the others are interrupt handlers or
threads.  A call that changes state outside the lock, or releases it in between,
is split at those points: `nevent_create` (allocate, then initialise the header),
`nevent_unlock` (clear the attribute, read the counter, free), `nepa_register`
(set the dispatcher, insert the thread), `nepa_defer_fetch_*` (take out, send).
All others are one action.  `Uses` says which calls each context makes, which lets
a run concentrate on the calls whose interplay it is about.  Contexts follow the
ownership rules of the API: the creator of an event may use it until it is sent,
and afterwards only if it reserved it.  The run queue is as the first `nthread_init`
leaves it: static agents make no such call, so the application is taken to have
made one (section 5).

**PrioQueue**, **Scheduler** — the scheduler as it is built: lists, bitmap words,
group indicator, `ncore_log2` with the number of bits its port can handle,
`ncore_exp2` with the number of bits it can shift (`UintBits`), both insertions of
`bias_list.h`, and around them thread life cycle, the loop, the idle lock and the
exit flag.  That a thread is removed no more often than it was inserted is up to the
callers of `nthread_remove_i`, which decrements without a test: `RemoveThread` takes
it as given, `DispatchesOwed` of EventRuntime shows it of agents.  `IdleWaits` tells the Linux port, whose `ncore_idle`
waits, from the others.  **PriorityScheduler** is what it promises; it is written
with the operators of ReadyQueue, so that EventRuntime, which uses the same
operators, stands on the scheduler of this code.

**Timer** — the delta list and the loop of `ncore_timer_isr`, split at the
callback, because a callback may call the API (it runs under the lock: nothing
else comes in between).  `Starts` and `Cancels` say which timers a callback may
start and cancel.  **TimerService** is what timers promise: a count-down each.  A
timer started for `n` ticks first expires when `n` whole ticks have passed, in the
tick `n + 1` from the call; a repeating one then runs for `n + Late` ticks at a time.
The code is `Late = 1` (`ExpiresInItsTick`), its documentation `Late = 0`
(`RepeatsAsDocumented`).

**EventTimer** — `source/etimer.c` on top of Timer: the callback sends the event
the timer carries, and the agent takes and handles it.  The event is one object:
its identifier is a field that `netimer_cancel` overwrites, in a step before the
one in which it takes the lock, and that is read only when the event is handled.

**CorePort** — the microcontroller ports as operators on a core with a mask
(BASEPRI or the IPL of Status), a global interrupt enable, a timer with its flag
and its pending interrupt, and PendSV.  Registers are modelled by what they do:
which priorities a value of BASEPRI admits, that an update flag survives a stop of
the timer, that a pending SysTick does.

**DList** — `dlist.h` on `next` and `prev` of all nodes, with `ndlist_add_after`
also link by link.  **DeferredWork** composes both with `source/deferred.c`: the
thread enters and leaves locked sections, activates jobs, starts, stops and
terminates the timer; the handlers of the timer and of PendSV come whenever the mask
lets them, and lock the kernel and activate jobs as well.  `ndlist_add_after` is taken
link by link, because only the lock keeps the handlers out of it.  Sections nest up to
`MaxDepth`: on the gcc port in the atomic operations, elsewhere when application code
calls the kernel in a section of its own, which it does on the configurations in
`Nests`.  `Unlocked` lets it activate jobs outside locked sections.  The configuration
(port, lock level, timer) is chosen in the initial state.
**WorkQueue** is what deferred work promises.

**Heap** — the boundary tags and the free list of `source/heap.c` in words:
first fit, split, and the four cases of a free.  **EventMemory** has several heaps
and static memories, set up by the first allocation from them, the sorted table of
`nevent_register_mem`, the choice of `find_memory_i`, and everything that allocates
from them: events, forwarded events, state machines and agents' storage.
**Allocator** is what memories promise: an interval of one's own.

**Queue** — the ring buffer with its three words.  **BoundedDeque** is what it
promises: a bounded sequence.  EventRuntime's queues are such sequences.

**StateMachine** — both dispatchers of the state machine processor.  Every call of
a state function is a step; `active` records what these calls tell the
application.  The search for the paths of a transition (`hsm_build_path`) compares
the chain of super states of the source with that of the destination, in an order
that its six cases fix: `SearchRank` is that order, `Meeting` the first pair that
is equal, and the two indices that the function returns follow from its position.
**StateChart** is what a hierarchical state machine promises.  Where the target
contains the source the code leaves and enters it again if it is two or more levels
up and does neither if it is the direct super state; StateChart allows both.

**LinuxPort** — the main thread from `ncore_init` to the end of `ncore_term`, the
timer thread, the interval timer and the handler of SIGALRM.  Mutexes behave as
those of glibc: the two of the default kind can be unlocked by any thread and by
the handler, the recursive one only by its owner, and a destroyed one refuses
without waiting.  What the loop does with threads is abstracted to `ready`, whether
the run queue has one; Scheduler has the rest.

Modules whose name starts with MC give TLC the functions that a configuration
file cannot write down.  Operators whose comment starts with "Variant for
sensitivity" are the same code with a plausible mistake; no specification uses
them.  Substituting one for the operator it varies must break the property it is
paired with in PROJECT.json: they show that a property depends on the code.

## 3. What the runs check

| run | instance | distinct states | result |
|---|---|---|---|
| EventRefs | 2 agents of two priorities, 2 blocks, 1 static event, queues of 2, reference limit 3 (2 when reserved), an interrupt handler that creates, reserves, sends and signals, state machines that create, send, keep, unlock and destroy | 62,320 | `RefIsExact`, `NoDanglingEvent`, `NoLeakedEvent` hold |
| EventDefer | 2 agents of one priority that signal each other, defer and fetch, 3 blocks, an interrupt handler that sends ahead and registers the second agent while the loop runs | 123,335 | `DispatchesOwed`, `ReadyIffReferenced`, `DispatchIsSafe`, `RefCoversHolders`, `TopPriorityIsServed`, `DrainsWhenQuiet` hold |
| EventLeak | sends ahead to full queues | | `NoLeakedEvent` fails: defect 1 below |
| SchedGroups | 3 threads and the idle thread, 4 levels in words of 2 bits, so that the bitmap has two groups, counts up to 2, idle waits | 9,010 | `BitmapMirrorsLists`, `LinkedIffReady`, `NoLostWakeup`, `ImplementsAbstract`, `ReadyIsDispatched`, `ExitReturns` hold |
| StateCharts | all hierarchies of five states and the flat machine, every transition from every state, initial transitions to any state, buffers of six | 82,228 | `RestsInState`, `PathFits`, `ImplementsChart` hold |
| TimerTicks | an event timer and 2 plain timers, 1 or 2 ticks, one-shot and repeating, a queue of one slot, callbacks that cancel their own timer | 192,468 | `ExpiresInItsTick`, `CancelledStaysQuiet`, `CancelledIsSilent`, `StartedIsHandled` hold |
| TimerCancel | callbacks that cancel other timers | | `CancelledStaysQuiet` fails: defect 2 |
| QueueRing | 4 slots, 3 items | 4,374 | `ImplementsDeque` holds |
| CortexWork | 2 jobs, six configurations of three ports at the ends of their ranges of levels, SysTick and TIM, sections two deep on all of them but the PIC32's level 255, jobs activated in locked sections | 25,157 | `KernelExclusion`, `MaskRestored`, `ListsIntact`, `TickStands`, `TickServed`, `ActivatedRuns`, `ImplementsWorkQueue` hold |
| LockFlag | the gcc port with an atomic increment in a locked section | | `LockedIsValid` fails: defect 3 |
| HeapBlocks | heaps of 14 and 26 words and a static memory of 4, objects of 2, 5 and 10 words and requests for 22, a table of 2 | 16,128 | `HeapsTiled`, `FreeListIsRing`, `BlocksAreOwned`, `NoRoomIsWasted`, `SmallestIsPicked`, `ImplementsAllocator` hold |
| LinuxThreads | both threads, no bounds | 1,626 | `SectionsExclude`, `AlarmsAreServed`, `ShutsDown`, `QuietAfterTerm` hold |

*Why the bounds are enough.*  Queues of two slots are filled, refused and drained
in every order, from both ends, with the same event in several slots of several
queues.  Two or three blocks force the reuse of a block while pointers to its
previous event may still exist.  A reference limit of 3 is reached with two queues
of two slots; a reserved event reaches 2 sooner, as in the code, where the
attribute's bits are or-ed into the counter that `nevent_ref` returns.  Two agents
show everything that depends on the order of threads: of two priorities in
EventRefs, of one in EventDefer; three threads of SchedGroups, two of which share
a bucket, do the same for the scheduler as it is built.  Words of two bits make
groups with one and with two used buckets, the cases that `bitmap_clear` tells
apart.  Three timers are needed for an insertion between two others; `MaxTick` 2
gives distances of zero, one and two ticks.  One slot in the queue of the event
timer's agent is full after one event.  A ring of four slots is filled over the
wrap in both directions.  Five states give every case of `hsm_build_path` with the
handler at, and above, the current state: case g needs a source two levels and a
destination one or two levels below their common super state.  A state's super
state has a lower number, which every hierarchy can be numbered to satisfy.
Buffers of six entries are what states nested five deep need, one more than the
levels, because the walk ends in `ntop_state`.  In 26 words four blocks lie side
by side, so a block is freed with no, either and both neighbours free, and one is
found with and without a remainder large enough to split off.  Ten words are less than
the size of the smaller heap before its first allocation and more than it afterwards,
so the search of `find_memory_i` ends at either memory of the table, and skips the
first; 22 words are more than either has once it is in use, which is when the search
falls back to the last.  Two heaps of 14 and 26 words keep their order when they lose
six: with 18 and 22 words in `MCEventMemory.tla` they do not, and TLC finds
`SmallestIsPicked` violated.  Two jobs meet on either list.  No handler comes between
the links of an insertion in CortexWork, where jobs are activated with the lock held on
configurations whose lock masks; with `Unlocked = TRUE` there are such interleavings
(section 5).

*Deadlock* is checked in every run but LinuxThreads, where the system stops: after
`ncore_term` the timer thread waits for ever, as it does when no timer runs.

### The properties

*Events.*  `RefIsExact`: the counter of a used block is the number of slots of
working and deferred queues that point to it, plus one while it is handled,
across sends, refusals, deferrals and fetches.  Where a send ahead is refused the
code breaks equality, so EventDefer has `RefCoversHolders`, the half of it that
prevents a premature free.  `NoDanglingEvent`, `NoLeakedEvent`: a block is in use
exactly while something points to it.

*Agents and loop.*  `DispatchesOwed`: the count of an agent's thread is the
length of its queue, plus one for a pending `NSM_INIT`, plus one for the event in
service, less one for a registration under way.  The code has no such statement:
`nthread_insert_i` and `nthread_remove_i` are called in five functions by
different contexts, and `epa_dispatch_i` takes an event from the queue without a
test because of it.  `DispatchIsSafe` is the consequence: the thread picked has a
dispatcher and, if it dispatches, an event.  `TopPriorityIsServed`: agents of the
highest priority get their turns while others of it keep having work.
`DrainsWhenQuiet`: when the application falls silent every queued event is handled.

*Scheduler.*  `BitmapMirrorsLists`, `LinkedIffReady`, `NoLostWakeup` (whenever the
loop waits in `ncore_idle` with a thread ready, the idle lock has been posted),
`ReadyIsDispatched`, `ExitReturns`, `ImplementsAbstract`.

*Timers.*  `ExpiresInItsTick` is the refinement of TimerService: every timer
expires in its tick, whatever was inserted, cancelled and repeated around it, the
period of a repeating one being a tick longer than the number it was started with.
`RepeatsAsDocumented` is the same refinement with the period that `timer.h:177` speaks
of, "Number of ticks to run"; the code breaks it (section 5), so no run checks it.
`CancelledStaysQuiet` quotes `timer.h:93-94`.  `CancelledIsSilent`: once
`netimer_cancel` has returned the timer sends nothing, and what it had sent is a
null event when it is handled.  `StartedIsHandled`: an event timer that is left
alone is handled by its agent unless the queue is full when it expires.

*Deferred work and ports.*  `KernelExclusion`: no handler of the kernel comes
between two steps of a locked section of the thread, nor after it has left a section
within that one.  It holds at the levels that mask and where inner sections are left
as they were entered; section 4 says which those are.  `MaskRestored`: outside every
section the core is open again.  `ListsIntact`: both lists are rings and no job is lost
between them.  `TickStands`, `TickServed`: a tick that comes
while the handler serves the one before is not dropped.  `ActivatedRuns`,
`ImplementsWorkQueue`: an activated job runs, once; the order in which jobs run is left
open.

*Memory.*  `HeapsTiled`: blocks lie end to end with right back pointers and no two
free neighbours.  `FreeListIsRing`: the free list has all free blocks and nothing
else.  `BlocksAreOwned`: no block is lost, in use twice or too small.
`NoRoomIsWasted`: an allocation fails only if there is no room.
`SmallestIsPicked`: an event comes from the smallest memory that is large enough, or is
asked of the largest when none is.
`ImplementsAllocator`: objects never share a word.

*Queue.*  `ImplementsDeque`.

*State machines.*  `RestsInState`: between two events the states entered and not
left are those around `nsm.state`, and that one.  `ImplementsChart` adds the order
of the calls and that a state around both ends is left alone.  `PathFits`: no write
beyond the path buffers, whose size the code does not test.

*Linux port.*  `SectionsExclude`: the two threads are never in locked sections at
once, also while the lock is initialised or destroyed.  `AlarmsAreServed`: every
SIGALRM is followed by a run of the core timer handler.  `ShutsDown`: after
`ncore_os_exit` the program gets to the end of `ncore_term`, unless the loop sleeps
and nobody makes a thread ready.  `QuietAfterTerm`: afterwards the tick under way
and at most the ones already signalled are served, and then none.

### Fairness

`EventRuntime!FairSpec`: the loop is a thread that always runs again, so its steps
are weakly fair.  A call that a context is in comes to its end; where it waits for
the kernel lock it gets it when the loop releases it again and again, hence strong
fairness.  A state machine returns (README.rst: "Each task **must return** after
some defined time"): it may make any number of calls before, so the return is
disabled again and again while a call is under way, and strong fairness expresses
that it is taken in the end.  Nothing is assumed of what interrupt handlers do: they may
flood the queues or fall silent.  Waiting in `ncore_idle` is not modelled in
EventRuntime, where the idle dispatch simply returns, as on the microcontroller
ports; that the wait of the Linux port ends when there is work is `NoLostWakeup`
of Scheduler.

`Scheduler!FairSpec`: the loop is weakly fair while it can step, and a task returns.
`IdleReturn` is not enabled while the idle lock is not posted: nothing is assumed
that would wake it.  `ExitReturns` therefore says what the code guarantees and no
more: after `ncore_os_exit` the loop returns, unless it waits.

`EventTimer!FairSpec`: the core timer keeps ticking and handlers return (weak
fairness); the loop gets to run between the interrupts, which disable its steps
each time they come (strong).

`DeferredWork!FairSpec`: the thread leaves its locked sections of every depth, callbacks and jobs
return however often they lock the kernel, and the hardware takes an interrupt
that is free to come again and again.

`LinuxPort!FairSpec`: both threads run, tasks and callbacks return, the application
calls `nthread_schedule`, and a pending signal is delivered.  Strong fairness where
a thread waits for a mutex that others take and release: glibc's are not fair, but
a thread that is never served while a lock is released again and again is a failure
of the system's scheduler.

## 4. What is proved

The proofs are in EventRuntimeProofs, QueueProofs, SchedulerProofs, TimerProofs,
DeferredWorkProofs, LinuxPortProofs, StateMachineProofs and EventMemoryProofs: every
invariant, every refinement and every action property of a passing run is stated by a
theorem.  They assume of the constants what the `ASSUME`s of the modules say (disjoint
sets of pointers, positive queue sizes, priorities in range, finitely many agents and
jobs), and, where a theorem needs it, the hypotheses named below; nothing about how
many agents, blocks, contexts, threads, slots, levels, states, heaps, timers or jobs
there are, nor of which calls contexts make.

| theorems | hypothesis | why the code needs it |
|---|---|---|
| `RefsCover`, `NothingDangles`, `CountersNeverWrap` | `UnlocksInLoop`: only state machines and `main` call `nevent_unlock` | it reads the counter without the lock (section 5); all runs satisfy it |
| `RefsExact`, `NothingLeaks` | that, and `NeverSendsAhead` | a send ahead to a full queue leaks a reference: the run EventLeak; EventRefs satisfies it |
| `BitmapIsRight` and its like | `Buckets = Levels`, `Exp2Suffices`, `Log2Suffices`, `IdleIsLowest` | below |
| `LockExcludes`, `LockRestores`, `ListsStayIntact`, `WorkIsQueued` | `LocksWork`: every configuration masks the handlers of the kernel, and application code nests sections only where leaving one restores what it found | two ports have lock levels that mask nothing, and the PIC32 at level 255 opens the outer section: `WhichMask` and `WhichRestore` say which |
| `ListsStayIntact`, `WorkIsQueued` | `~Unlocked`: jobs are activated in locked sections | `nsched_deferred_do` takes no lock: see section 5; `CortexWork` satisfies it |
| the theorems of TimerProofs | `TicksFit`: the longest time started for, plus one, fits into a word | `UINT32_MAX` ticks become none (section 5) |
| | `CallbacksKeepOut`: a callback starts no timer and cancels none but its own | a callback that cancels another timer corrupts the list: the run TimerCancel; one that restarts its own can make others expire early (section 5).  TimerTicks satisfies both hypotheses |
| `PathsFitTheirBuffers` | no chain of super states is longer than the buffers at the start | the code does not test it |
| `PicksSmallest` | `FarApart`: the sizes of any two heaps differ by more than six words | the first allocation takes six words off a heap's size after the table was sorted |

The inductive invariants were checked with TLC on the instances of the runs before
they were proved: `SchedInv` and `RefInv` of EventRuntime on those of EventRefs and
EventDefer, `ShapeInv` on that of CortexWork, `MemInv` on that of HeapBlocks,
`TimerInv` and `StoppedAreNull` on that of TimerTicks.

*The run queue.*  EventRuntimeProofs and SchedulerProofs both begin with three lemmas
about the operators of ReadyQueue: what `Append` and `Unlink` do to who is linked, that
they keep lists free of duplicates, and that `HighestUsed` finds the highest bucket used.

**EventRuntimeProofs**: `TypeCorrect`, `CountIsOwed`, `RunQueueIsExact`,
`DispatchInvariant` and `DispatchSafe`.  None of `TypeOK`, `DispatchesOwed` and
`DispatchIsSafe` is inductive.  That `queue[e]` is not empty when `e` is picked
follows from the count, and the count from its balance; that `nthread_remove_i`
unlinks a thread that is linked follows from the count being positive during a
dispatch (`InServiceIsReady`) and from the run queue being exact
(`ReadyIffReferenced`); that the context which inserts the thread in
`nepa_register` still has the right agent at hand needs the locals of the calls
(`LocalsOK`), and that no agent is registered by two contexts at once needs
`RegisteredOnce`.  Their conjunction is `SchedInv`.  A picked thread has a
dispatcher because an agent without one has no count, once `main` has registered
its agents (`UnregisteredIsIdle`).  `DispatchInv == SchedInv /\
UnregisteredIsIdle` is inductive.  The proof that a step keeps it has one lemma per
action, under each of which only the conjuncts that the action disturbs are argued.

The second half of the module is about the reference counts: `RefsCover`,
`NothingDangles`, `CountersNeverWrap`, `RefsExact` and `NothingLeaks`.  The holders of
an event are slots of queues, a set of which only the cardinality matters; lemmas say
what taking from, and putting at, either end of a queue does to it (`Slots`).  Each
step is shown to change the number of holders and the counter by as much
(`CountsKept`); `RefCoversHolders` and `NoDanglingEvent` alone are not inductive: that
the event an agent has in hand is counted, that an event being created is held by
nobody, and that a pointer in a context's local is to a block in use and, if the
context is not its creator, to a reserved one, are the further conjuncts of `RefInv`.
A leak would be a block in use that nothing points to: `NothingLost` says of each step
that a block which loses its last pointer is still reserved or counted.

**SchedulerProofs**: `BitmapIsRight`, `LinksAreRight`, `WakeupsAreKept` and
`SchedulerImplements`, which is the refinement of PriorityScheduler.  The invariant
`SchedInv` says that the lists hold exactly the ready threads, each in its bucket
and once, that bitmap and lists agree, and that the idle thread is ready once the
scheduler is initialised.  `BitmapMirrorsLists` alone is not inductive: clearing a
bucket's bit is right only if the thread removed was linked there.  With groups a
bit is cleared in one word and perhaps in the group indicator; the proof treats
bits as in a set of buckets first (`Agree`) and shows then that both kinds of
bitmap represent it.  Hypotheses: `Buckets = Levels` (with fewer buckets the code
is wrong, section 5), `Exp2Suffices` for the bitmap (the bits of a word can be shifted
in an `unsigned int`), `Log2Suffices` for what the loop picks (the logarithm handles
the words in use), and `IdleIsLowest` for `NoLostWakeup` (an application thread of
priority 0 shares the idle thread's turn).  `SchedGroups` satisfies all four.  The Linux
port does with up to 32 buckets for the bitmap, and up to 16 for the rest.

**TimerProofs**: `TimersExpire`, `CancelledStayQuiet`, `EventTimersExpire` and
`CancelledAreSilent`, for any timers, ticks and order of calls.  A timer's ticks left are
the sum of the relative ticks up to it, which the operators of the list never compute;
`Counts(l, r, d)` says without a sum that the relative ticks `r` of the list `l` count
down from `d`: each timer has left what its predecessor has, plus its own.  Lemmas show
what `insert_timer`, `remove_timer`, `ntimer_cancel_i` and a tick do to `d`, each a
change of one timer's ticks, or of all by one; `ntimer_remaining` computes `d`, and the
head has the fewest.  `TimerInv` adds what the loop of `ncore_timer_isr` may have fetched:
the head, nothing, or a timer that its own callback has just cancelled, which is not due.
Where a callback cancels another timer this third case fails, which is defect 2.  Silence
of event timers needs that one which is stopped is off the list and carries a null event
(`StoppedAreNull`), and that the callback running is none of it.

**DeferredWorkProofs**: `WhichMask` computes from the code which lock levels of
which port mask the handlers of the kernel: the gcc port's but 240 to 254, the arm
port's 255 only, all of the PIC32's.  `WhichRestore` does the same for nesting: leaving
a section gives back the mask found on entry, whatever that was, in every configuration
but the PIC32's at level 255.  `LockExcludes` and `LockRestores` prove
`KernelExclusion` and `MaskRestored` for any set of configurations that mask, any jobs,
and sections nested to any depth where `WhichRestore` allows it: the invariant `LockInv`
relates the mask to the levels saved on the stacks of thread and handler.
`ListsStayIntact` and `WorkIsQueued` are about the two lists: `ShapeInv` says that they
are rings which share no node, and, of a job whose links are half written, that they are
rings with the other links taken for written.  No handler sees a half-written ring,
because the insertion runs under a lock that excludes: the proof rests on `LockInv`
for that.  A ring is defined by its links and by having no proper closed part that
contains the sentinel, which is what adding, removing and swapping preserve and what
makes the refinement of WorkQueue follow.  `TicksStand` is about the timer's flag and
pending interrupt: no operation on lock or jobs touches them.  It needs none of the
above, and holds of every level and port.

**StateMachineProofs**: `RestsInTheState`, `MachineTypes`, `PathsFitTheirBuffers`,
`DeepPathsFit` and `DispatcherIsChart`, for any number of states, any hierarchy and
any transition from any state.  `MachineInv` says that while paths are walked the
states that are active are those inside one state from which the rest of the exit path
leads up and the rest of the enter path down to the target (`Leaving`, `Entering`).  It
holds after `hsm_build_path` because of what the position of the first equal pair
means: nothing below it on either chain is shared.

**EventMemoryProofs**: `MemoryHolds`, `MemoryTypes`, `HeapsStayTiled`,
`FreeListsAreRings`, `BlocksHaveOwners`, `RoomIsFound`, `PicksSmallest` and
`ObjectsLieApart`, for any heaps, static memories and sizes of objects.  `MemInv`
holds of each heap that its tags tile it and its free blocks are on one ring
(`HeapOK`), and that its blocks in use are those of the objects in it (`HeapHolds`);
of a static memory, that it has given out its end.  Setting up, splitting, taking a
whole block and the four cases of a free each have a lemma for the tags and one for the
ring.  That an allocation fails only without room (`RoomIsFound`) is the argument that
a run of free words lies in one block, as no two free blocks touch: the last tag at or
before the run is a free block that reaches to its end.

*Induction over data.*  The library's induction theorems cannot be used, because they
take an operator as a parameter.  These proofs use sets instead: a lemma
`SetInduction` says that a set of numbers which has zero, and with each number the
next, has all of them; a property is proved by naming the set of the numbers that have
it.  What a recursive function yields (`Chain`, the free list) needs first that there
is such a function: its finite beginnings are shown to exist the same way.

**QueueProofs**: `QueueTyped`, `RingAgrees` and `RingIsDeque`.  The inductive
invariant is `TypeOK /\ IndicesAgree`.  The refinement maps `items` to the slots
from `tail` on; the slot that a put overwrites is shown to be none of them, and
each operation is shown to be an action of BoundedDeque.  The assumption
`Size \in Nat /\ Size >= 2` is weaker than the code's (a power of two): `Masked` says
what the mask does to the values that occur.

**LinuxPortProofs**: `LinuxLockExcludes` and `LinuxTyped`.  `SectionsExclude` is not
inductive: the invariant says that the owner and the depth of the recursive lock are
those of the thread in a section from `lock_init` until the lock is destroyed, that
no timer thread exists before the lock does, and that the lock can be destroyed only
when the main thread is done.

*Model-checked only*: liveness, which is out of reach of the prover like `ENABLED`:
`TopPriorityIsServed`, `DrainsWhenQuiet`, `ReadyIsDispatched`, `ExitReturns`,
`StartedIsHandled`, `TickServed`, `ActivatedRuns`, `AlarmsAreServed`, `ShutsDown` and
`QuietAfterTerm`.

## 5. Defects

Shown by a run:

1. EventLeak.  `nepa_send_event_ahead_i` (`source/epa.c:330`) does not give back the
   reference when the queue is full, which `nepa_send_event_i` does: the event leaks.
2. TimerCancel.  A callback that cancels the timer the loop of `ncore_timer_isr` has
   fetched makes the loop unlink it again and call it (`source/timer.c:227`).
3. LockFlag.  The gcc port's `ncore_lock_exit` clears `g_core_is_locked` when it
   leaves an inner section (`port/stm32f4xx-none-gcc/arch/p_core.h:159`): after
   `nevent_ref_up` in `nepa_send_event_i`, `NREQUIRE(ncore_is_lock_valid())` fails
   although the kernel is locked.

Met while reading or modelling, without a run of their own.  In the core:

- A repeating timer runs a tick longer than it was asked to.  `ntimer_start_i` adds a
  tick for the one that is under way (`source/timer.c:140`) and keeps the sum as the
  interval, too (`:146`), though a repeating timer is started again at a tick: asked to
  repeat every `n` ticks it expires every `n + 1`, where `include/timer/timer.h:177` says
  "Number of ticks to run".  With `RepeatsAsDocumented` for `CancelledStaysQuiet` in
  `TimerCancel.cfg`, TLC finds it violated.
- `nsched_deferred_do` takes no lock (`source/deferred.c:93-102`), and its name does not
  say that the caller holds it.  If PendSV swaps the lists between its reading
  `g_ctx.pending` and linking the job, the job is on the list that has just been worked
  on, and waits until some other activation swaps them back; a handler that activates a
  job between two of its links loses one of both.  With `Unlocked = TRUE` in
  `CortexWork.cfg`, TLC finds `ImplementsWorkQueue` violated, and, checked alone,
  `ListsIntact` and `ActivatedRuns`.
- `nevent_unlock` (`source/event.c:335-353`) clears the attribute and reads the
  counter without the lock.  Between `nevent_ref_down` and `nevent_destroy_i` of
  the dispatcher both free the block.  The model has the steps; the runs let only
  state machines unlock.  With `"unlock"` for `isr` in `UsesRefs`, TLC finds
  `NoDanglingEvent` violated.
- `nepa_defer_fetch_all` takes an event out of the deferred queue before it sends
  it (`source/epa.c:259`).  If the working queue has filled up, the event is neither
  deferred nor queued: it is dropped, where `include/ep/epa.h:229` says "Fetch all
  deferred events and put them into working queue".  The model has the drop, and
  the reference counts stay right in spite of it.
- With fewer buckets than levels (`CONFIG_PRIORITY_BUCKETS` below
  `CONFIG_PRIORITY_LEVELS`; they are equal by default) a thread is inserted with
  `nbias_list_sort_insert`, whose loop does nothing on an empty list
  (`include/base/bias_list.h:104`): the thread is not linked although its bucket is
  marked as used, and the scheduler dispatches the list's sentinel.  PrioQueue has
  both insertions; with `Buckets = 2` in `SchedGroups.cfg`, and
  `ImplementsAbstract`, whose queue has a list per level, left out, TLC finds
  `BitmapMirrorsLists` violated in a few steps.  The span of a bucket is rounded down
  besides (`NPRIO_ARRAY_BUCKET_BITS`, `source/sched.c:42`): six levels in two buckets
  put priority 5 in bucket 2, which does not exist.
- Static agents (`NEPA_BUNDLE_DEFINE`) fill in their thread with `NTHREAD_INITIALIZER`
  (`include/ep/epa.h:86`) and call no `nthread_init`, which is what prepares the run
  queue (`source/sched.c:349`).  In an application that has such agents only,
  `nepa_register` links a thread into lists that were never initialised.  EventRuntime
  starts after that call.
- The words of the bitmap have 32 bits (`source/sched.c:59`) and `ncore_exp2` shifts
  `0x1u`, an `unsigned int` (`port/x86-64-linux-gcc/arch/p_core.h:140`), while
  `NCPU_DATA_WIDTH` of the Linux port is 64: with more than 32 buckets the higher ones
  share bits with lower ones.  Shifting so far is undefined in C; `Exp2` does what the
  processor does.  With `Width = 4`, `UintBits = 2` and `Log2Bits = 4` in
  `SchedGroups.cfg` TLC finds `BitmapMirrorsLists` violated.
- `ncore_log2` of the Linux port reads beyond its table for words of 17 bits and
  more (`port/x86-64-linux-gcc/arch/p_core.h:126`); the default has 32 levels.
  `HighPriority` of MCScheduler with 32 levels, words of 64 bits, 32 of them
  that can be shifted to, and a logarithm of 16 shows `ImplementsAbstract` violated.
- A callback that restarts its own timer with the distance of the next one makes
  that one expire at once (`source/timer.c:217`): with `Starts` giving every timer
  itself, TLC finds `ExpiresInItsTick` violated.  Two such timers with equal intervals
  can expire each other in one tick without end.
- `ntimer_start` increments the ticks without a test (`source/timer.c:140`):
  `UINT32_MAX` becomes zero, and the timer expires only when the counter has
  wrapped.  `WordSize` is in the model; the runs start timers with fewer ticks.
- `netimer_cancel` followed by `netimer_after` before the agent has handled the event
  in its queue gives that event its identifier back: it is handled although it was
  cancelled.  `CancelledIsSilent` therefore ends at the next start.  The event of a
  one-shot timer is lost when the queue is full (`source/etimer.c:52`).  A second
  `netimer_init`, or `netimer_term`, wipes an event that may still be queued.
- A job activated by itself, or again while it runs, is lost: `source/deferred.c:125`
  unlinks a job after it has returned.  The model has no such activations.
- The conditions of `NREQUIRE` in `nthread_insert_i` and `nthread_remove_i`
  (`source/sched.c:397`, `413`) are inverted; with validation off, as modelled,
  they have no effect.

In memory management:

- The first allocation from a heap takes six words off the size of its memory
  (`source/heap.c:212`), after which the table of event memories may no longer be
  sorted: `SmallestIsPicked` needs memories that differ by more.  `nmem.free` of a heap
  is never updated.  A free of static memory is an assertion.
- `nevent_unregister_mem` starts its search beyond the end of its table and clears an
  entry in use (`source/event.c:181-194`).  `nevent_forward` of an event without a
  memory takes one from a pool and enters NULL (`source/event.c:304`).
- `pool_init_alloc` writes through an uninitialised pointer; `base.c` does not compile;
  `nepa_destroy` drops queued events without giving back their references.

In the ports:

- At `CONFIG_CORE_LOCK_MAX_LEVEL` 255 the PIC32's `ncore_lock_enter` saves the whole
  Status word, and `ncore_lock_exit` enables interrupts if any bit of it is set
  (`port/pic32-none-gcc/arch/p_core.h:273`), not the one that says whether they were:
  leaving an inner section opens the outer one.  With `Nests <- MaskingConfigs` in
  `CortexWork.cfg`, TLC finds `KernelExclusion` violated; `WhichRestore` proves that this
  configuration is the only one.
- The arm port writes the level into BASEPRI unshifted (`arch/p_core.h:231`), so
  nothing is masked at any level below 255; in the gcc port (`arch/p_core.h:130`)
  levels 240 to 254 become zero, which masks nothing.  `WhichMask` is the proof.
- `TimInit` generates an update event, whose flag makes the first tick come at once
  after the timer is enabled; a SysTick that is pending when the timer is stopped is
  still served.  The handler of the PIC32's core timer never clears its flag
  (`port/pic32-none-gcc/p_core.c:300`) and is entered again for ever.  The arm port has
  no `ncore_is_lock_valid`.
- The Linux port does not compile at this commit: `include/port/core.h:98` and `:102`
  declare `ncore_log2` and `ncore_exp2` with other types than its inline functions, and it
  has no `ncore_atomic_inc` and `ncore_atomic_dec`.  LinuxPort and Scheduler model it as
  it stands, with those functions as the other ports have them.
- Its `g_timer_lock` is free at first, so a first tick is served before any timer was
  enabled.  SIGALRMs that come while one is pending, or while the timer thread has yet
  to take the lock, merge: the timers run late by as many ticks.  `ncore_term` destroys
  the idle lock before it stops the timer, and the kernel lock without joining the
  timer thread, which may unlock the one and lock the other afterwards; glibc refuses
  both, POSIX leaves them undefined.

## 6. Not modelled

*Abstracted away*: contents and identifiers of events other than the null event's,
names and the registry of threads, logging, assertions (`CONFIG_API_VALIDATION = 0`),
the register accesses of the microcontroller ports beyond mask, timer and PendSV.
`port/stm32f4xx-none-gcc/stm32f1xx_core.c` is `stm32f4xx_core.c` but for one include;
CorePort stands for both and is mapped to the latter.

*No behaviour to model*: configuration and debug macros, documentation, build files.
About three fifths of the repository's lines are licence headers and comments.

*Does not compile, or is not part of a build*: `source/base.c` and with it dynamic queues,
`nepa_alloc` and `nepa_destroy`; `pool_init_alloc` and so pools; `nevent_unregister_mem`,
which is wrong in every call; `port/dspic33e-none-xc` and `port/pic32-none-gcc/mips-m4k`
and `common`, remains of an older kernel that include headers the repository does not
have (the dsPIC33's `isr.h` contains Cortex assembly).  `source/stdheap.c` wraps the C
library.

*Could be added*: `netimer_term` and repeated initialisation, once the code says who may
call them; proofs about callbacks that restart their own timer, once the loop stands them.
