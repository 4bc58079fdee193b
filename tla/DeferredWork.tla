------------------------------ MODULE DeferredWork -----------------------------
(***************************************************************************)
(* Deferred work (source/deferred.c) on a microcontroller port: a thread   *)
(* that takes the kernel lock, and the handlers of the core timer and of   *)
(* PendSV that interrupt it wherever the lock does not mask them.  Both    *)
(* have the priority of the kernel, so neither interrupts the other, and a *)
(* handler is done before the thread goes on.                              *)
(*                                                                         *)
(* Locked sections nest: application code calls functions of the kernel in *)
(* sections of its own, and the atomic operations of the gcc port are such *)
(* functions.  Nests and Unlocked say what the application does beyond     *)
(* what the code stands.  A job activates jobs other than itself:          *)
(* source/deferred.c loses activations otherwise.                          *)
(*                                                                         *)
(* at says where the thread stands:                                        *)
(*   "idle"    outside every locked section     "locked"  in one           *)
(*   "node" "next" "current"   in ndlist_add_after, before these links     *)
(*   "pend"    before ncore_deferred_do                                    *)
(*   "term"    between timer_term and lock_term  "halted"  in cpu_term     *)
(***************************************************************************)
EXTENDS CorePort, DList, Sequences, FiniteSets

CONSTANTS
    Configs,        \* the configurations, records [port, level, timer]
    Job, NoJob,     \* the jobs, struct nsched_deferred
    A, B,           \* the lists of g_ctx
    Nests,          \* the configurations on which application code locks the
                    \* kernel again in a locked section
    MaxDepth,       \* bound: locked sections of a context within each other
    Unlocked        \* the thread activates jobs outside locked sections, too

ASSUME WorkAssumption ==
    /\ Configs \subseteq [port : {"gcc", "arm", "pic32"}, level : 0 .. 255,
                          timer : {"SysTick", "TIM"}]
    /\ NoJob \notin Job
    /\ A # B /\ {A, B} \cap Job = {}
    /\ IsFiniteSet(Job)
    /\ MaxDepth \in Nat
    /\ Unlocked \in BOOLEAN

VARIABLES
    config,     \* the configuration the program is built for
    core,       \* the interrupt mask, the timer and PendSV
    links,      \* the links of the jobs and of the two lists
    pending,    \* g_ctx.pending
    working,    \* g_ctx.working
    jobs,       \* the jobs that are initialized
    saved,      \* levels saved by the locked sections of thread and handler
    at, job, list,  \* where the thread stands, the job it activates, and the
                    \* list it has read from g_ctx.pending
    handler,    \* "none", or the handler that runs: "timer" or "pendsv"
    running     \* the job the PendSV handler is calling, or NoJob

thread == <<at, job, list>>
lists == <<links, pending, working>>
vars == <<config, core, lists, jobs, saved, thread, handler, running>>

Context == {"thread", "handler"}
Node == Job \cup {A, B}

TypeOK ==
    /\ config \in Configs
    /\ core \in Core
    /\ links \in [next : [Node -> Node], prev : [Node -> Node]]
    /\ {pending, working} = {A, B}
    /\ jobs \subseteq Job
    /\ saved \in [Context -> Seq(Nat)]
    /\ at \in {"idle", "locked", "node", "next", "current", "pend", "term", "halted"}
    /\ job \in Job \cup {NoJob} /\ list \in {A, B}
    /\ handler \in {"none", "timer", "pendsv"}
    /\ running \in Job \cup {NoJob}

(* ncore_init has run: interrupts are enabled, the timer is stopped. *)
Init ==
    /\ config \in Configs
    /\ core = CoreInit(config)
    /\ links = [next |-> [n \in Node |-> n], prev |-> [n \in Node |-> n]]
    /\ pending = A /\ working = B
    /\ jobs = {}
    /\ saved = [c \in Context |-> << >>]
    /\ at = "idle" /\ job = NoJob /\ list = A
    /\ handler = "none"
    /\ running = NoJob

--------------------------------------------------------------------------------
HasPendSV == config.port # "pic32"

(* The context that has the core. *)
Runs(c) == c = (IF handler = "none" THEN "thread" ELSE "handler")

Locked(c) == saved[c] # << >>

(* Application code runs: the thread, the callback of a timer or a job. *)
InCode(c) ==
    /\ Runs(c)
    /\ IF c = "thread" THEN at \in {"idle", "locked"}
       ELSE handler = "timer" \/ running # NoJob

(* ncore_lock_enter by the code of context c *)
EnterLock(c) ==
    /\ InCode(c) /\ Len(saved[c]) < MaxDepth
    /\ Locked(c) => config \in Nests
    /\ saved' = [saved EXCEPT ![c] = Append(@, SavedLevel(core, config))]
    /\ core' = LockEnter(core, config)
    /\ at' = IF c = "thread" THEN "locked" ELSE at
    /\ UNCHANGED <<config, lists, jobs, job, list, handler, running>>

(* ncore_atomic_inc and ncore_atomic_dec of the gcc port, which            *)
(* nevent_ref_up and nevent_ref_down call in a locked section: they take   *)
(* and leave the lock once more.  Those of the PIC32 take no lock.         *)
EnterAtomic(c) ==
    /\ config.port = "gcc"
    /\ InCode(c) /\ Locked(c) /\ Len(saved[c]) < MaxDepth
    /\ saved' = [saved EXCEPT ![c] = Append(@, SavedLevel(core, config))]
    /\ core' = LockEnter(core, config)
    /\ UNCHANGED <<config, lists, jobs, thread, handler, running>>

(* ncore_lock_exit *)
ExitLock(c) ==
    /\ InCode(c) /\ Locked(c)
    /\ core' = LockExit(core, config, saved[c][Len(saved[c])])
    /\ saved' = [saved EXCEPT ![c] = SubSeq(@, 1, Len(@) - 1)]
    /\ at' = IF c = "thread" /\ Len(saved[c]) = 1 THEN "idle" ELSE at
    /\ UNCHANGED <<config, lists, jobs, job, list, handler, running>>

--------------------------------------------------------------------------------
(* nsched_deferred_init: the first call clears PendSV and both lists. *)
InitJob(j) ==
    /\ InCode("thread") /\ HasPendSV /\ j \notin jobs
    /\ core' = IF jobs = {} THEN DeferredInit(core) ELSE core
    /\ links' = IF jobs = {} THEN ListInit(ListInit(ListInit(links, A), B), j)
                             ELSE ListInit(links, j)
    /\ pending' = IF jobs = {} THEN A ELSE pending
    /\ working' = IF jobs = {} THEN B ELSE working
    /\ jobs' = jobs \cup {j}
    /\ UNCHANGED <<config, saved, thread, handler, running>>

(* nsched_deferred_do by the thread, which takes no lock of its own: a job *)
(* that is on a list stays there, any other is linked into the list        *)
(* g_ctx.pending pointed to.                                               *)
DoJob(j) ==
    /\ InCode("thread") /\ j \in jobs
    /\ ~Locked("thread") => Unlocked
    /\ at' = IF IsEmpty(links, j) THEN "node" ELSE "pend"
    /\ job' = j /\ list' = pending
    /\ UNCHANGED <<config, core, lists, jobs, saved, handler, running>>

(* Variant for sensitivity: the list is changed before its first node. *)
LinkStepSwapped ==
    /\ Runs("thread")
    /\ \/ at = "node" /\ links' = LinkNode(links, list, job) /\ at' = "next"
       \/ at = "next" /\ links' = LinkCurrent(links, list, job) /\ at' = "current"
       \/ at = "current" /\ links' = LinkNext(links, list, job) /\ at' = "pend"
    /\ UNCHANGED <<config, core, pending, working, jobs, saved, job, list, handler, running>>

(* ndlist_add_after, one link after the other *)
LinkStep ==
    /\ Runs("thread")
    /\ \/ at = "node" /\ links' = LinkNode(links, list, job) /\ at' = "next"
       \/ at = "next" /\ links' = LinkNext(links, list, job) /\ at' = "current"
       \/ at = "current" /\ links' = LinkCurrent(links, list, job) /\ at' = "pend"
    /\ UNCHANGED <<config, core, pending, working, jobs, saved, job, list, handler, running>>

(* ncore_deferred_do: PENDSVSET *)
PendWork ==
    /\ Runs("thread") /\ at = "pend"
    /\ core' = DeferredDo(core)
    /\ at' = IF Locked("thread") THEN "locked" ELSE "idle"
    /\ job' = NoJob
    /\ UNCHANGED <<config, lists, jobs, saved, list, handler, running>>

(* nsched_deferred_do by a handler, which nothing interrupts *)
HandlerDoJob(j) ==
    /\ InCode("handler") /\ j \in jobs \ {running}
    /\ links' = IF IsEmpty(links, j) THEN AddAfter(links, pending, j) ELSE links
    /\ core' = DeferredDo(core)
    /\ UNCHANGED <<config, pending, working, jobs, saved, thread, handler, running>>

--------------------------------------------------------------------------------
(* ncore_timer_enable and ncore_timer_disable *)
EnableTimer ==
    /\ InCode("thread") /\ ~core.run
    /\ core' = TimerEnable(core, config)
    /\ UNCHANGED <<config, lists, jobs, saved, thread, handler, running>>

DisableTimer ==
    /\ InCode("thread") /\ core.run
    /\ core' = TimerDisable(core, config)
    /\ UNCHANGED <<config, lists, jobs, saved, thread, handler, running>>

(* ncore_term: timer_term, then lock_term disables all interrupts, then    *)
(* cpu_term loops.                                                         *)
TermTimer ==
    /\ Runs("thread") /\ at = "idle"
    /\ core' = TimerTerm(core, config)
    /\ at' = "term"
    /\ UNCHANGED <<config, lists, jobs, saved, job, list, handler, running>>

TermLock ==
    /\ Runs("thread") /\ at = "term"
    /\ core' = LockTerm(core)
    /\ at' = "halted"
    /\ UNCHANGED <<config, lists, jobs, saved, job, list, handler, running>>

TermLoop == Runs("thread") /\ at = "halted" /\ UNCHANGED vars

--------------------------------------------------------------------------------
(* The timer reaches its period. *)
Expire ==
    /\ core.run
    /\ core' = IF config.port = "pic32" THEN [core EXCEPT !.flag = TRUE]
               ELSE [core EXCEPT !.flag = config.timer = "TIM", !.latch = @ \/ core.irq]
    /\ UNCHANGED <<config, lists, jobs, saved, thread, handler, running>>

Requested == IF config.port = "pic32" THEN core.flag /\ core.irq ELSE core.latch

MayInterrupt == handler = "none" /\ Admits(core, config)

(* The entry of SysTick_Handler, of TIMER_HANDLER, which leaves at once    *)
(* when it reads no update flag, and of core_timer_handler, which lets     *)
(* IFS0.CTIF stand.  PendSV comes first: its exception number is lower.    *)
SysTickHandler ==
    /\ config.port # "pic32" /\ config.timer = "SysTick"
    /\ core' = [core EXCEPT !.latch = FALSE]
    /\ handler' = "timer"

TimHandler ==
    /\ config.port # "pic32" /\ config.timer = "TIM"
    /\ LET seen == core.flag /\ core.clock
       IN  /\ core' = [core EXCEPT !.latch = FALSE, !.flag = @ /\ ~seen]
           /\ handler' = IF seen THEN "timer" ELSE "none"

CoreTimerHandler ==
    /\ config.port = "pic32"
    /\ handler' = "timer"
    /\ UNCHANGED core

TimerInterrupt ==
    /\ MayInterrupt /\ Requested /\ ~core.pendsv
    /\ SysTickHandler \/ TimHandler \/ CoreTimerHandler
    /\ UNCHANGED <<config, lists, jobs, saved, thread, running>>

(* Variant for sensitivity: UIF is cleared when the tick has been served. *)
TimerReturnClears ==
    /\ handler = "timer" /\ ~Locked("handler")
    /\ core' = [core EXCEPT !.flag = FALSE]
    /\ handler' = "none"
    /\ UNCHANGED <<config, lists, jobs, saved, thread, running>>

TimerReturn ==
    /\ handler = "timer" /\ ~Locked("handler")
    /\ handler' = "none"
    /\ UNCHANGED <<config, core, lists, jobs, saved, thread, running>>

(* Variant for sensitivity: PendSV stays pending. *)
PendSVInterruptStays ==
    /\ MayInterrupt /\ core.pendsv
    /\ pending' = working /\ working' = pending
    /\ handler' = "pendsv"
    /\ UNCHANGED <<config, core, links, jobs, saved, thread, running>>

(* PendSV_Handler: PENDSVCLR, then ncore_deferred_work swaps the lists, *)
PendSVInterrupt ==
    /\ MayInterrupt /\ core.pendsv
    /\ core' = PendSVEntry(core)
    /\ pending' = working /\ working' = pending
    /\ handler' = "pendsv"
    /\ UNCHANGED <<config, links, jobs, saved, thread, running>>

(* calls each job on the working list, *)
RunJob ==
    /\ handler = "pendsv" /\ running = NoJob /\ ~IsEmpty(links, working)
    /\ running' = links.next[working]
    /\ UNCHANGED <<config, core, lists, jobs, saved, thread, handler>>

(* Variant for sensitivity: the job is not unlinked. *)
JobReturnKeeps ==
    /\ running # NoJob /\ ~Locked("handler")
    /\ running' = NoJob
    /\ UNCHANGED <<config, core, lists, jobs, saved, thread, handler>>

(* unlinking it when it has returned, until the list is empty. *)
JobReturn ==
    /\ running # NoJob /\ ~Locked("handler")
    /\ links' = Remove(links, running)
    /\ running' = NoJob
    /\ UNCHANGED <<config, core, pending, working, jobs, saved, thread, handler>>

(* Variant for sensitivity: PENDSVCLR after the work instead of before. *)
PendSVReturnClears ==
    /\ handler = "pendsv" /\ running = NoJob /\ IsEmpty(links, working)
    /\ core' = [core EXCEPT !.pendsv = FALSE]
    /\ handler' = "none"
    /\ UNCHANGED <<config, lists, jobs, saved, thread, running>>

PendSVReturn ==
    /\ handler = "pendsv" /\ running = NoJob /\ IsEmpty(links, working)
    /\ handler' = "none"
    /\ UNCHANGED <<config, core, lists, jobs, saved, thread, running>>

--------------------------------------------------------------------------------
ThreadNext ==
    \/ EnterLock("thread") \/ EnterAtomic("thread") \/ ExitLock("thread")
    \/ \E j \in Job : InitJob(j) \/ DoJob(j)
    \/ LinkStep \/ PendWork \/ EnableTimer \/ DisableTimer
    \/ TermTimer \/ TermLock \/ TermLoop

HandlerNext ==
    \/ EnterLock("handler") \/ EnterAtomic("handler") \/ ExitLock("handler")
    \/ \E j \in Job : HandlerDoJob(j)
    \/ RunJob \/ JobReturn \/ TimerReturn \/ PendSVReturn

Next == ThreadNext \/ HandlerNext \/ Expire \/ TimerInterrupt \/ PendSVInterrupt

Spec == Init /\ [][Next]_vars

(* The thread leaves its locked sections of every depth, callbacks and     *)
(* jobs return however often they lock the kernel, and the hardware takes  *)
(* an interrupt that it is free to take again and again.                   *)
Fairness ==
    /\ WF_vars(LinkStep) /\ WF_vars(PendWork) /\ WF_vars(TermLock)
    /\ \A c \in Context, n \in 1 .. MaxDepth : SF_vars(ExitLock(c) /\ Len(saved[c]) = n)
    /\ SF_vars(JobReturn) /\ SF_vars(TimerReturn)
    /\ WF_vars(RunJob) /\ WF_vars(PendSVReturn)
    /\ SF_vars(PendSVInterrupt) /\ SF_vars(TimerInterrupt)

FairSpec == Spec /\ Fairness

--------------------------------------------------------------------------------
(* A handler of the kernel never comes between two steps of a section the  *)
(* thread holds the kernel lock for, also after an inner section has been  *)
(* left (ncore_lock_enter and ncore_lock_exit of every port).              *)
KernelExclusion == handler # "none" => ~Locked("thread")

(* Outside every locked section the core is open to every handler again,   *)
(* however sections were nested (ncore_lock_exit restores the mask).       *)
MaskRestored ==
    (\A c \in Context : ~Locked(c)) /\ at # "halted" => core.mask = 0 /\ core.off = 0

Waiting(l) == Members(links, l, Cardinality(Node))

(* Whenever the thread is not linking a job both lists are intact rings that *)
(* share no job and together hold every job that says it is on one: none   *)
(* is lost between the lists.                                              *)
ListsIntact ==
    at \notin {"next", "current"} =>
        /\ WellLinked(links, Node)
        /\ Waiting(A) \cap Waiting(B) = {}
        /\ Waiting(A) \cup Waiting(B) = {j \in Job : ~IsEmpty(links, j)}

(* A period has passed and the timer asks for its handler. *)
Ticked == core.run /\ Requested /\ (config.timer = "TIM" => core.flag)

(* A tick is not dropped: the request stands, also one that comes while    *)
(* the handler is serving the tick before, until the handler is entered    *)
(* for it or the timer is stopped (TIMER_HANDLER clears UIF first).        *)
TickStands ==
    [][Ticked => Ticked' \/ (handler = "none" /\ handler' = "timer") \/ ~core'.run]_vars

(* A tick is served, or the timer is stopped or the program ends, unless   *)
(* jobs run for ever: PendSV goes before the timer.                        *)
TickServed == []<>(running # NoJob) \/ (Ticked ~> (handler = "timer" \/ ~core.run))

(* An activated job runs, unless the program ends (deferred.h:79-80). *)
ActivatedRuns ==
    \A j \in Job :
        (at \in {"idle", "locked"} /\ ~IsEmpty(links, j) /\ running # j)
            ~> (running = j \/ at = "halted")

(* What every _i function asserts on entry, NREQUIRE(ncore_is_lock_valid()), *)
(* holds in every locked section.                                          *)
LockedIsValid ==
    config.port = "gcc" => \A c \in Context :
        InCode(c) /\ Locked(c) => LockValid(core, c = "handler")

(* Deferred work implements WorkQueue: no activation is lost, none runs    *)
(* twice, and no job runs that was not activated.                          *)
Work == INSTANCE WorkQueue WITH
    asked <- {j \in Job : ~IsEmpty(links, j)} \ {running}
ImplementsWorkQueue == Work!Spec
================================================================================
