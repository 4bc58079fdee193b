------------------------------- MODULE LinuxPort -------------------------------
(***************************************************************************)
(* port/x86-64-linux-gcc: the core on POSIX threads.  The main thread runs *)
(* the scheduler, the timer thread runs the core timer handler, and the    *)
(* handler of SIGALRM, on whichever thread it interrupts, wakes the timer  *)
(* thread.  Their mutexes are the ones of glibc: a mutex of the default    *)
(* kind can be unlocked by anyone, a recursive one only by its owner, and  *)
(* one that was destroyed refuses every operation without waiting.         *)
(*                                                                         *)
(*   main = "off"        before ncore_init                                 *)
(*          "locks"      the locks are there, the timer thread is not      *)
(*          "app"        ncore_init has returned                           *)
(*          "loop"       in nthread_schedule, kernel locked                *)
(*          "task"       in a task                                         *)
(*          "idle"       in ncore_idle                                     *)
(*          "relock"     about to lock the kernel for the loop again       *)
(*          "appSection", "taskSection"  in a locked section               *)
(*          "left"       nthread_schedule has returned; in ncore_term      *)
(*          "busy", "taken", "noIdle", "noTimer"  ncore_term, further on   *)
(*          "done"       ncore_term has returned                           *)
(*   timer = "none"      not created         "wait"    for g_timer_lock    *)
(*           "tick"      for the kernel lock "isr"     in ncore_timer_isr  *)
(*           "nested"    in a locked section of a callback                 *)
(***************************************************************************)
EXTENDS Integers

VARIABLES
    main, timer,    \* where the threads stand
    kernel,         \* g_global_lock: statically zero, initialised or destroyed,
    owner, depth,   \* who has it and how often
    idle,           \* g_idle_lock
    tick,           \* g_timer_lock
    armed,          \* the interval timer runs
    pending,        \* SIGALRM is pending; it does not queue
    ready,          \* the run queue has a thread other than the idle thread
    exit            \* g_should_exit

global == <<kernel, owner, depth>>
vars == <<main, timer, global, idle, tick, armed, pending, ready, exit>>

Sections == {"loop", "appSection", "taskSection"}

ThreadsTyped ==
    /\ main \in {"off", "locks", "app", "task", "idle", "relock", "left", "busy",
                 "taken", "noIdle", "noTimer", "done"} \cup Sections
    /\ timer \in {"none", "wait", "tick", "isr", "nested"}
    /\ kernel \in {"static", "live", "gone"}
    /\ owner \in {"nobody", "main", "timer"} /\ depth \in Nat
TypeOK ==
    /\ ThreadsTyped
    /\ idle \in {"free", "held", "gone"} /\ tick \in {"free", "held"}
    /\ armed \in BOOLEAN /\ pending \in BOOLEAN /\ ready \in BOOLEAN /\ exit \in BOOLEAN

Init ==
    /\ main = "off" /\ timer = "none"
    /\ kernel = "static" /\ owner = "nobody" /\ depth = 0
    /\ idle = "free" /\ tick = "free"
    /\ armed = FALSE /\ pending = FALSE
    /\ ready = FALSE /\ exit = FALSE

--------------------------------------------------------------------------------
(* The kernel lock can be taken: it is free, or the caller has it and      *)
(* lock_init has made it recursive.                                        *)
MayEnter(t) == kernel = "gone" \/ owner = "nobody" \/ (kernel = "live" /\ owner = t)

(* ncore_lock_enter *)
LockEnter(t) ==
    /\ MayEnter(t)
    /\ owner' = IF kernel = "gone" THEN owner ELSE t
    /\ depth' = IF kernel = "gone" THEN depth ELSE depth + 1
    /\ UNCHANGED kernel

(* ncore_lock_exit *)
LockExit(t) ==
    LET releases == kernel # "gone" /\ owner = t
    IN  /\ owner' = IF releases /\ depth = 1 THEN "nobody" ELSE owner
        /\ depth' = IF releases THEN depth - 1 ELSE depth
        /\ UNCHANGED kernel

(* ncore_os_ready *)
OsReady == idle' = IF idle = "held" THEN "free" ELSE idle

(* lock_init and lock_term; destroying a mutex that is held has no effect. *)
LockInit == kernel' = "live" /\ owner' = "nobody" /\ depth' = 0
LockTerm ==
    /\ kernel' = IF owner = "nobody" THEN "gone" ELSE kernel
    /\ UNCHANGED <<owner, depth>>

--------------------------------------------------------------------------------
(* Variants for sensitivity: timer_init before lock_init. *)
InitTimerFirst ==
    /\ main = "off"
    /\ main' = "locks"
    /\ tick' = "free" /\ timer' = "wait" /\ idle' = "free"
    /\ UNCHANGED <<global, armed, pending, ready, exit>>
InitLocksLast ==
    /\ main = "locks"
    /\ main' = "app"
    /\ LockInit
    /\ UNCHANGED <<timer, tick, idle, armed, pending, ready, exit>>

(* ncore_init: the locks, then timer_init, which creates the thread and    *)
(* installs the handler.                                                   *)
InitLocks ==
    /\ main = "off"
    /\ main' = "locks"
    /\ idle' = "free" /\ LockInit
    /\ UNCHANGED <<timer, tick, armed, pending, ready, exit>>
InitTimer ==
    /\ main = "locks"
    /\ main' = "app"
    /\ tick' = "free" /\ timer' = "wait"
    /\ UNCHANGED <<global, idle, armed, pending, ready, exit>>

(* ncore_timer_enable and ncore_timer_disable by the application or a task *)
TimerEnable ==
    /\ main \in {"app", "task"} /\ ~armed
    /\ armed' = TRUE
    /\ UNCHANGED <<main, timer, global, idle, tick, pending, ready, exit>>
TimerDisable ==
    /\ main \in {"app", "task"} /\ armed
    /\ armed' = FALSE
    /\ UNCHANGED <<main, timer, global, idle, tick, pending, ready, exit>>

(* A locked section of the application or a task, which makes a thread     *)
(* ready or blocks it.                                                     *)
SectionEnter ==
    /\ main \in {"app", "task"}
    /\ LockEnter("main")
    /\ main' = IF main = "app" THEN "appSection" ELSE "taskSection"
    /\ UNCHANGED <<timer, idle, tick, armed, pending, ready, exit>>
SectionExit ==
    /\ main \in {"appSection", "taskSection"}
    /\ LockExit("main")
    /\ main' = IF main = "appSection" THEN "app" ELSE "task"
    /\ \/ ready' = TRUE /\ OsReady
       \/ ready' = FALSE /\ UNCHANGED idle
    /\ UNCHANGED <<timer, tick, armed, pending, exit>>

(* ncore_os_exit by a task or a timer's callback *)
OsExit ==
    /\ main = "task" \/ timer = "isr"
    /\ exit' = TRUE
    /\ UNCHANGED <<main, timer, global, idle, tick, armed, pending, ready>>

(* nthread_schedule *)
LoopEnter ==
    /\ main \in {"app", "relock"}
    /\ LockEnter("main")
    /\ main' = "loop"
    /\ UNCHANGED <<timer, idle, tick, armed, pending, ready, exit>>

(* Variant for sensitivity: the kernel stays locked while the loop idles. *)
ScheduleLocked ==
    /\ main = "loop"
    /\ main' = IF exit THEN "left" ELSE IF ready THEN "task" ELSE "idle"
    /\ IF exit \/ ready THEN LockExit("main") ELSE UNCHANGED global
    /\ UNCHANGED <<timer, idle, tick, armed, pending, ready, exit>>

(* One turn: the loop ends, or it picks a thread whose dispatcher releases *)
(* the kernel.                                                             *)
Schedule ==
    /\ main = "loop"
    /\ main' = IF exit THEN "left" ELSE IF ready THEN "task" ELSE "idle"
    /\ LockExit("main")
    /\ UNCHANGED <<timer, idle, tick, armed, pending, ready, exit>>
TaskReturn ==
    /\ main = "task"
    /\ main' = "relock"
    /\ UNCHANGED <<timer, global, idle, tick, armed, pending, ready, exit>>

(* ncore_idle *)
IdleReturn ==
    /\ main = "idle" /\ idle # "held"
    /\ idle' = "held"
    /\ main' = "relock"
    /\ UNCHANGED <<timer, global, tick, armed, pending, ready, exit>>

--------------------------------------------------------------------------------
(* ncore_term tries the idle lock and frees it until it is its own, ... *)
TermTry ==
    /\ main = "left"
    /\ main' = IF idle = "held" THEN "busy" ELSE "taken"
    /\ idle' = "held"
    /\ UNCHANGED <<timer, global, tick, armed, pending, ready, exit>>

(* Variant for sensitivity: it tries again without freeing the lock. *)
TermRetryOnly ==
    /\ main = "busy"
    /\ main' = "left"
    /\ UNCHANGED <<timer, global, idle, tick, armed, pending, ready, exit>>
TermRetry ==
    /\ main = "busy"
    /\ main' = "left"
    /\ OsReady
    /\ UNCHANGED <<timer, global, tick, armed, pending, ready, exit>>

(* ... then frees and destroys it, ... *)
TermIdle ==
    /\ main = "taken"
    /\ main' = "noIdle"
    /\ idle' = "gone"
    /\ UNCHANGED <<timer, global, tick, armed, pending, ready, exit>>

(* Variant for sensitivity: the interval timer is left running. *)
TermTimerNot ==
    /\ main = "noIdle"
    /\ main' = "noTimer"
    /\ UNCHANGED <<timer, global, idle, tick, armed, pending, ready, exit>>

(* ... stops the interval timer, timer_term, ... *)
TermTimer ==
    /\ main = "noIdle"
    /\ main' = "noTimer"
    /\ armed' = FALSE
    /\ UNCHANGED <<timer, global, idle, tick, pending, ready, exit>>

(* ... and destroys the kernel lock; the timer thread is not joined. *)
TermLock ==
    /\ main = "noTimer"
    /\ main' = "done"
    /\ LockTerm
    /\ UNCHANGED <<timer, idle, tick, armed, pending, ready, exit>>

--------------------------------------------------------------------------------
(* The interval timer expires; another SIGALRM may still be pending. *)
Alarm ==
    /\ armed
    /\ pending' = TRUE
    /\ UNCHANGED <<main, timer, global, idle, tick, armed, ready, exit>>

(* timer_handler *)
TimerHandler ==
    /\ pending
    /\ pending' = FALSE
    /\ tick' = "free"
    /\ UNCHANGED <<main, timer, global, idle, armed, ready, exit>>

(* timer_thread: g_timer_lock, free at first, is taken and never given     *)
(* back by this thread, ...                                                *)
TickTaken ==
    /\ timer = "wait" /\ tick = "free"
    /\ timer' = "tick"
    /\ tick' = "held"
    /\ UNCHANGED <<main, global, idle, armed, pending, ready, exit>>

(* ... the kernel is locked, ... *)
IsrEnter ==
    /\ timer = "tick"
    /\ LockEnter("timer")
    /\ timer' = "isr"
    /\ UNCHANGED <<main, idle, tick, armed, pending, ready, exit>>

(* ... the callbacks of ncore_timer_isr lock it again to make threads      *)
(* ready ...                                                               *)
NestedEnter ==
    /\ timer = "isr"
    /\ LockEnter("timer")
    /\ timer' = "nested"
    /\ UNCHANGED <<main, idle, tick, armed, pending, ready, exit>>
NestedExit ==
    /\ timer = "nested"
    /\ LockExit("timer")
    /\ timer' = "isr"
    /\ ready' = TRUE /\ OsReady
    /\ UNCHANGED <<main, tick, armed, pending, exit>>

(* ... and it is released. *)
IsrExit ==
    /\ timer = "isr"
    /\ LockExit("timer")
    /\ timer' = "wait"
    /\ UNCHANGED <<main, idle, tick, armed, pending, ready, exit>>

--------------------------------------------------------------------------------
(* Variant for sensitivity: timer_init runs before lock_init. *)
InitStepsSwapped == InitTimerFirst \/ InitLocksLast
InitSteps == InitLocks \/ InitTimer
TermSteps == TermTry \/ TermRetry \/ TermIdle \/ TermTimer \/ TermLock
MainSteps ==
    \/ InitSteps \/ TimerEnable \/ TimerDisable \/ SectionEnter \/ SectionExit
    \/ LoopEnter \/ Schedule \/ TaskReturn \/ IdleReturn \/ TermSteps
TimerSteps == TickTaken \/ IsrEnter \/ NestedEnter \/ NestedExit \/ IsrExit

Next == MainSteps \/ TimerSteps \/ OsExit \/ Alarm \/ TimerHandler

Spec == Init /\ [][Next]_vars

(* Both threads run, tasks and callbacks return after finitely many locked *)
(* sections, the application calls nthread_schedule, a thread that waits   *)
(* for the kernel lock gets it when it is released again and again, and a  *)
(* pending signal is delivered.                                            *)
Fairness ==
    /\ WF_vars(InitSteps \/ SectionExit \/ Schedule \/ TermSteps)
    /\ SF_vars(LoopEnter) /\ SF_vars(TaskReturn) /\ WF_vars(IdleReturn)
    /\ SF_vars(TickTaken) /\ SF_vars(IsrEnter) /\ WF_vars(NestedExit) /\ SF_vars(IsrExit)
    /\ WF_vars(TimerHandler)

FairSpec == Spec /\ Fairness

--------------------------------------------------------------------------------
(* The two threads are never in locked sections at once: not when a tick   *)
(* races the initialisation of the lock, and not when ncore_term destroys  *)
(* it under a timer thread that is still at work.                          *)
SectionsExclude == ~(main \in Sections /\ timer \in {"isr", "nested"})

(* Every SIGALRM is followed by a run of the core timer handler, although  *)
(* the loop sleeps in ncore_idle and callbacks lock the kernel again.      *)
AlarmsAreServed == pending ~> timer = "isr"

(* An application that asks to exit gets to the end of ncore_term, unless  *)
(* the loop sleeps in ncore_idle and nobody makes a thread ready: a loop   *)
(* that returned leaves the idle lock held as often as not.                *)
ShutsDown ==
    (exit /\ main # "off") ~> (main = "done" \/ (main = "idle" /\ idle = "held"))

(* After ncore_term the ticks under way end, and no other follows. *)
QuietAfterTerm == (main = "done") ~> [](timer \in {"none", "wait"})
================================================================================
