------------------------------- MODULE Scheduler -------------------------------
(***************************************************************************)
(* source/sched.c: threads and tasks that come and go, are made ready and  *)
(* blocked by interrupt handlers and by tasks, and the scheduler loop,     *)
(* with the priority queue it is built on (module PrioQueue) and the idle  *)
(* lock of the Linux port it sleeps on.                                    *)
(*                                                                         *)
(*   pc = "off"    nthread_schedule has not been called                    *)
(*        "sched"  the loop holds the kernel lock                          *)
(*        "idle"   in ncore_idle, kernel lock released                     *)
(*        "task"   in a task function, kernel lock released                *)
(*        "wild"   dispatched a node that is not a thread                  *)
(*        "done"   nthread_schedule has returned                           *)
(***************************************************************************)
EXTENDS PrioQueue

CONSTANTS
    Idle,           \* idle_thread of nthread_init
    MaxRef,         \* bound: references a thread is given in a run
    IdleWaits       \* ncore_idle waits (Linux port) or returns at once

ASSUME SchedulerAssumption ==
    /\ Idle \in Thread /\ Priority[Idle] = 0
    /\ MaxRef \in Nat
    /\ IdleWaits \in BOOLEAN

VARIABLES
    queue,          \* g_sched_ctx.run_queue
    initialized,    \* g_sched_ctx.is_initialized
    current,        \* g_sched_ctx.current
    live,           \* threads after nthread_init and before nthread_term
    ref,            \* nthread.ref
    pc,             \* where the loop stands
    token,          \* g_idle_lock is free: ncore_idle will not wait
    exit            \* g_should_exit

vars == <<queue, initialized, current, live, ref, pc, token, exit>>

TypeOK ==
    /\ queue \in [list : [Bucket -> Seq(Thread)], bit : [Word -> SUBSET Nat],
                  group : SUBSET Nat]
    /\ initialized \in BOOLEAN /\ token \in BOOLEAN /\ exit \in BOOLEAN
    /\ current \in Thread \cup {Sentinel}
    /\ live \subseteq Thread
    /\ ref \in [Thread -> Nat]
    /\ pc \in {"off", "sched", "idle", "task", "wild", "done"}

Init ==
    /\ queue = PqInit
    /\ initialized = FALSE
    /\ current = Sentinel
    /\ live = {}
    /\ ref = [t \in Thread |-> 0]
    /\ pc = "off"
    /\ token = TRUE
    /\ exit = FALSE

LockFree == pc # "sched"

(* nthread_init, ntask_init.  The first call prepares the run queue and    *)
(* inserts the idle thread, which posts the idle lock.                     *)
ThreadInit(t) ==
    /\ t \notin live \cup {Idle} /\ LockFree
    /\ live' = live \cup {t, Idle}
    /\ initialized' = TRUE
    /\ IF initialized
       THEN /\ ref' = [ref EXCEPT ![t] = 0]
            /\ UNCHANGED <<queue, token>>
       ELSE /\ ref' = [ref EXCEPT ![t] = 0, ![Idle] = 1]
            /\ queue' = PqInsert(PqInit, Idle)
            /\ token' = TRUE
    /\ UNCHANGED <<current, pc, exit>>

(* Variants for sensitivity: the node is not unlinked, or a reference is   *)
(* given back that the thread may not have.                                *)
ThreadTermLinked(t) ==
    /\ t \in live \ {Idle} /\ LockFree
    /\ live' = live \ {t}
    /\ UNCHANGED <<queue, initialized, current, ref, pc, token, exit>>

(* nthread_term: the count is left as it is. *)
ThreadTerm(t) ==
    /\ t \in live \ {Idle} /\ LockFree
    /\ live' = live \ {t}
    /\ queue' = IF ref[t] # 0 THEN PqRemove(queue, t) ELSE queue
    /\ UNCHANGED <<initialized, current, ref, pc, token, exit>>

(* Variant for sensitivity: the idle lock is not posted. *)
InsertThreadSilently(t) ==
    /\ t \in live \ {Idle} /\ LockFree /\ ref[t] < MaxRef
    /\ queue' = IF ref[t] = 0 THEN PqInsert(queue, t) ELSE queue
    /\ ref' = [ref EXCEPT ![t] = @ + 1]
    /\ UNCHANGED <<initialized, current, live, pc, token, exit>>

(* nthread_insert_i and ntask_ready; ncore_os_ready posts the idle lock. *)
InsertThread(t) ==
    /\ t \in live \ {Idle} /\ LockFree /\ ref[t] < MaxRef
    /\ queue' = IF ref[t] = 0 THEN PqInsert(queue, t) ELSE queue
    /\ ref' = [ref EXCEPT ![t] = @ + 1]
    /\ token' = TRUE
    /\ UNCHANGED <<initialized, current, live, pc, exit>>

(* nthread_remove_i and ntask_block.  The code decrements the count without *)
(* a test: that there is something to take back is up to its callers, who  *)
(* remove what they have inserted (EventRuntime shows that agents do).     *)
RemoveThread(t) ==
    /\ t \in live \ {Idle} /\ LockFree /\ ref[t] > 0
    /\ ref' = [ref EXCEPT ![t] = @ - 1]
    /\ queue' = IF ref[t] = 1 THEN PqRemove(queue, t) ELSE queue
    /\ UNCHANGED <<initialized, current, live, pc, token, exit>>

(* ncore_os_exit sets the flag and does nothing else. *)
OsExit ==
    /\ ~exit
    /\ exit' = TRUE
    /\ UNCHANGED <<queue, initialized, current, live, ref, pc, token>>

(* nthread_schedule is called and takes the kernel lock. *)
EnterLoop ==
    /\ pc = "off" /\ initialized
    /\ pc' = "sched"
    /\ UNCHANGED <<queue, initialized, current, live, ref, token, exit>>

(* Variant for sensitivity: the flag is not tested on every turn. *)
ScheduleIgnoresExit ==
    /\ pc = "sched"
    /\ current' \in PqPeek(queue)
    /\ queue' = PqRotate(queue, current')
    /\ pc' = IF current' = Idle THEN "idle" ELSE "task"
    /\ UNCHANGED <<initialized, live, ref, token, exit>>

(* sched_schedule_i, then the dispatcher of the thread up to the point     *)
(* where the kernel lock is released.                                      *)
Schedule ==
    /\ pc = "sched" /\ ~exit
    /\ current' \in PqPeek(queue)
    /\ IF current' \in Thread
       THEN /\ queue' = PqRotate(queue, current')
            /\ pc' = IF current' = Idle THEN "idle" ELSE "task"
       ELSE /\ UNCHANGED queue
            /\ pc' = "wild"
    /\ UNCHANGED <<initialized, live, ref, token, exit>>

(* ncore_idle returns once it has taken the idle lock. *)
IdleReturn ==
    /\ pc = "idle"
    /\ IdleWaits => token
    /\ token' = (token /\ ~IdleWaits)
    /\ pc' = "sched"
    /\ UNCHANGED <<queue, initialized, current, live, ref, exit>>

(* The task function returns. *)
TaskReturn ==
    /\ pc = "task"
    /\ pc' = "sched"
    /\ UNCHANGED <<queue, initialized, current, live, ref, token, exit>>

(* ncore_os_should_exit() ends the loop. *)
LeaveLoop ==
    /\ pc = "sched" /\ exit
    /\ pc' = "done"
    /\ UNCHANGED <<queue, initialized, current, live, ref, token, exit>>

LoopStep == Schedule \/ IdleReturn \/ TaskReturn \/ LeaveLoop

Next ==
    \/ \E t \in Thread :
         ThreadInit(t) \/ ThreadTerm(t) \/ InsertThread(t) \/ RemoveThread(t)
    \/ OsExit \/ EnterLoop \/ LoopStep

Spec == Init /\ [][Next]_vars

(* The loop runs as long as it can; tasks return. *)
FairSpec == Spec /\ WF_vars(LoopStep)

--------------------------------------------------------------------------------
(* The bitmap says of every bucket whether a thread is in it, and of every *)
(* word whether a bucket of it is in use: the scheduler looks nowhere      *)
(* else, so one stale bit hides a ready thread or dispatches a sentinel.   *)
BitmapMirrorsLists == initialized => Mirrors(queue) /\ GroupsMirror(queue)

(* A thread is linked exactly while it is live and has a count, in its     *)
(* bucket and once, however inserts, removals, terminations and new        *)
(* initialisations of the same thread follow each other.                   *)
LinkedIffReady ==
    \A b \in Bucket :
        /\ \A t \in Thread :
             Linked(queue.list[b], t) <=> t \in live /\ ref[t] > 0 /\ BucketOf(t) = b
        /\ Distinct(queue.list[b])

(* The loop never waits in ncore_idle while a thread is ready: the idle    *)
(* lock posted by ncore_os_ready between the release of the kernel lock    *)
(* and the wait is kept.                                                   *)
NoLostWakeup ==
    pc = "idle" /\ (\E t \in live \ {Idle} : ref[t] > 0) => token

(* The scheduler with its bitmap implements the abstract one. *)
Abstract == INSTANCE PriorityScheduler WITH
    runq <- queue.list, thref <- ref, picking <- (pc = "sched")
ImplementsAbstract == Abstract!Spec

(* A ready thread of the highest priority is dispatched, or blocked or     *)
(* terminated by someone before, unless the loop is told to exit.          *)
TopPriority == {t \in Thread \ {Idle} : \A u \in Thread : Priority[u] <= Priority[t]}
ReadyIsDispatched ==
    \A t \in TopPriority :
        (pc # "off" /\ t \in live /\ ref[t] > 0)
            ~> ((current = t /\ pc = "task") \/ t \notin live \/ ref[t] = 0 \/ exit)

(* The loop leaves when it is told to, unless it waits in ncore_idle:      *)
(* ncore_os_exit does not post the idle lock, so it takes a thread made    *)
(* ready to let nthread_schedule return.                                   *)
ExitReturns ==
    (exit /\ pc # "off") ~> (pc = "done" \/ (pc = "idle" /\ ~token))
================================================================================
