----------------------------- MODULE EventRuntime -----------------------------
(***************************************************************************)
(* The core of Neon EDS: the scheduler loop (source/sched.c), the event    *)
(* processing agents it dispatches (source/epa.c) and the reference        *)
(* counted events they exchange (source/event.c), preempted at every point *)
(* where the kernel lock is not held by interrupt handlers and by other    *)
(* threads that use the same API.                                          *)
(*                                                                         *)
(* The loop is one sequential program.  Its state pc says where it stands: *)
(*                                                                         *)
(*   "boot"     main() before nthread_schedule                             *)
(*   "sched"    nthread_schedule holds the kernel lock and picks a thread  *)
(*   "idle"     in ncore_idle, lock released                               *)
(*   "init"     a state machine handles NSM_INIT, lock released            *)
(*   "handle"   a state machine handles event cur, lock released           *)
(*   "destroy"  the reference of cur is given back, lock not yet taken     *)
(*                                                                         *)
(* The contexts in Ctx run application code that calls the API: Loop is    *)
(* the code that runs inside the loop ("boot", "init", "handle"), the      *)
(* others are interrupt handlers or threads.  Uses says which calls each   *)
(* of them makes.  Application code follows the ownership rules of the     *)
(* event API: who creates an event may use it until it is sent, sends it   *)
(* once unless it is reserved, and unlocks what it has reserved.           *)
(***************************************************************************)
EXTENDS Event, ReadyQueue

CONSTANTS
    Epa,            \* the event processing agents
    Idle,           \* the idle thread of nthread_init
    Ctx,            \* application contexts
    Loop,           \* the context that runs inside the scheduler loop
    Prio,           \* Prio[e]: the priority of agent e
    MaxPrio,        \* NTHREAD_PRIORITY_MAX
    QueueSize,      \* slots of a working queue
    DeferSize,      \* slots of a deferred event queue
    BootEpa,        \* agents that main() registers before nthread_schedule
    Uses            \* Uses[c]: the API calls context c makes

Calls == {"create", "lock", "unlock", "destroy", "send", "ahead", "signal",
          "defer", "fetch", "register"}

ASSUME RuntimeAssumption ==
    /\ IsFiniteSet(Epa)
    /\ Epa \cap (EventPtr \cup {Idle, NoEvent}) = {}
    /\ Loop \in Ctx
    /\ MaxPrio \in Nat
    /\ Prio \in [Epa -> 1 .. MaxPrio]
    /\ QueueSize \in Nat \ {0}
    /\ DeferSize \in Nat \ {0}
    /\ BootEpa \subseteq Epa
    /\ Uses \in [Ctx -> SUBSET Calls]

VARIABLES
    runq,       \* g_sched_ctx.run_queue
    thref,      \* thref[t]: nthread.ref
    current,    \* g_sched_ctx.current
    vf,         \* vf[e]: nthread.vf_dispatch_i: "null", "init" or "dispatch"
    queue,      \* queue[e]: the working queue of agent e
    deferq,     \* deferq[e]: the deferred event queue of agent e
    pc,         \* where the loop stands
    cur,        \* the event being dispatched
    cpc,        \* cpc[c]: where context c stands inside an API call
    own,        \* own[c]: the event context c has a pointer to
    arg         \* arg[c]: local pointer of the call c is in

threadVars == <<runq, thref>>
loopVars == <<pc, cur, current>>
ctxVars == <<cpc, own, arg>>
vars == <<eventVars, threadVars, loopVars, ctxVars, vf, queue, deferq>>

Thread == Epa \cup {Idle}
PrioOf(t) == IF t = Idle THEN 0 ELSE Prio[t]

TypeOK ==
    /\ EventTypeOK
    /\ runq \in [0 .. MaxPrio -> Seq(Thread)]
    /\ thref \in [Thread -> Nat]
    /\ current \in Thread
    /\ vf \in [Epa -> {"null", "init", "dispatch"}]
    /\ queue \in [Epa -> Seq(EventPtr)]
    /\ deferq \in [Epa -> Seq(EventPtr)]
    /\ \A e \in Epa : Len(queue[e]) <= QueueSize /\ Len(deferq[e]) <= DeferSize
    /\ pc \in {"boot", "sched", "idle", "init", "handle", "destroy"}
    /\ cur \in EventPtr \cup {NoEvent}
    /\ cpc \in [Ctx -> {"ready", "create", "unlock", "release", "register",
                        "fetched", "fetchedAll", "fetchNext"}]
    /\ own \in [Ctx -> Block \cup {NoEvent}]
    /\ arg \in [Ctx -> EventPtr \cup Epa \cup {NoEvent}]

(* The run queue is as the first nthread_init leaves it, with the idle     *)
(* thread in it.  Agents are defined statically (NEPA_BUNDLE_DEFINE), which *)
(* calls no nthread_init: the application is taken to have made that call, *)
(* with a task of its own for example, before it registers an agent.       *)
Init ==
    /\ EventInit
    /\ runq = [p \in 0 .. MaxPrio |-> IF p = 0 THEN <<Idle>> ELSE << >>]
    /\ thref = [t \in Thread |-> IF t = Idle THEN 1 ELSE 0]
    /\ current = Idle
    /\ vf = [e \in Epa |-> "null"]
    /\ queue = [e \in Epa |-> << >>]
    /\ deferq = [e \in Epa |-> << >>]
    /\ pc = "boot"
    /\ cur = NoEvent
    /\ cpc = [c \in Ctx |-> "ready"]
    /\ own = [c \in Ctx |-> NoEvent]
    /\ arg = [c \in Ctx |-> NoEvent]

--------------------------------------------------------------------------------
(* Threads and the kernel lock.                                            *)

(* Variant for sensitivity: a thread has a flag instead of a count. *)
ThreadInsertFlag(t) ==
    /\ thref' = [thref EXCEPT ![t] = 1]
    /\ runq' = IF thref[t] = 0 THEN RqInsert(runq, PrioOf(t), t) ELSE runq

(* nthread_insert_i: the first reference makes the thread ready. *)
ThreadInsert(t) ==
    /\ thref' = [thref EXCEPT ![t] = @ + 1]
    /\ runq' = IF thref[t] = 0 THEN RqInsert(runq, PrioOf(t), t) ELSE runq

(* Variant for sensitivity: the count is tested before it is decremented. *)
ThreadRemoveLate(t) ==
    /\ thref' = [thref EXCEPT ![t] = @ - 1]
    /\ runq' = IF thref[t] = 0 THEN RqRemove(runq, PrioOf(t), t) ELSE runq

(* nthread_remove_i: the last reference given back blocks the thread. *)
ThreadRemove(t) ==
    /\ thref' = [thref EXCEPT ![t] = @ - 1]
    /\ runq' = IF thref[t] = 1 THEN RqRemove(runq, PrioOf(t), t) ELSE runq

(* The loop holds the kernel lock from the end of one dispatch to the      *)
(* start of the next one.  Every other locked section is a single step.    *)
LockFree == pc # "sched"

(* Application code of the loop runs only while the loop calls it. *)
Running(c) == c = Loop => pc \in {"boot", "init", "handle"}

(* Context c makes the API call named op next. *)
Calling(c, op) == op \in Uses[c] /\ Running(c) /\ cpc[c] = "ready"

(* Agents that an event may be sent to: main() knows the agents it will    *)
(* register, all others are known once they are being registered.          *)
Known(e) == e \in BootEpa \/ vf[e] # "null"

(* Event pointers that context c may pass to a send: its own event, any    *)
(* static event and, in a state machine, the event being handled.          *)
Sendable(c) ==
    Static \cup ({own[c]} \ {NoEvent})
           \cup (IF c = Loop /\ pc = "handle" THEN {cur} ELSE {})

(* Sending a dynamic event hands it over; a reserved one is kept. *)
HandOver(c, ev) ==
    own' = IF own[c] = ev /\ attrib[ev] = "dynamic"
           THEN [own EXCEPT ![c] = NoEvent] ELSE own
--------------------------------------------------------------------------------
(* Event transport: what the nepa_send_* functions do under the lock.      *)

HasRoom(e) == Len(queue[e]) < QueueSize

(* nepa_send_event_i: NERROR_NONE, NERROR_NO_RESOURCE, NERROR_NO_REFERENCE. *)
SendEvent_i(e, ev) ==
    \/ /\ BelowRefLimit(ev) /\ HasRoom(e)
       /\ ref' = RefUp(ref, ev)
       /\ queue' = [queue EXCEPT ![e] = Append(@, ev)]
       /\ ThreadInsert(e)
       /\ UNCHANGED mem
    \/ /\ BelowRefLimit(ev) /\ ~HasRoom(e)
       /\ ref' = RefDown(RefUp(ref, ev), ev)
       /\ mem' = Destroy(mem, ref', ev)
       /\ UNCHANGED <<queue, threadVars>>
    \/ /\ ~BelowRefLimit(ev)
       /\ UNCHANGED <<mem, ref, queue, threadVars>>

(* Variant for sensitivity: an event sent ahead is not counted. *)
SendAheadUncounted(e, ev) ==
    /\ BelowRefLimit(ev) /\ HasRoom(e)
    /\ queue' = [queue EXCEPT ![e] = <<ev>> \o @]
    /\ ThreadInsert(e)
    /\ UNCHANGED <<mem, ref>>

(* nepa_send_event_ahead_i: the event goes to the front of the queue.  On  *)
(* a full queue the reference just taken is not given back.                *)
SendEventAhead_i(e, ev) ==
    \/ /\ BelowRefLimit(ev) /\ HasRoom(e)
       /\ ref' = RefUp(ref, ev)
       /\ queue' = [queue EXCEPT ![e] = <<ev>> \o @]
       /\ ThreadInsert(e)
       /\ UNCHANGED mem
    \/ /\ BelowRefLimit(ev) /\ ~HasRoom(e)
       /\ ref' = RefUp(ref, ev)
       /\ mem' = Destroy(mem, ref', ev)
       /\ UNCHANGED <<queue, threadVars>>
    \/ /\ ~BelowRefLimit(ev)
       /\ UNCHANGED <<mem, ref, queue, threadVars>>

(* nepa_send_event: the locked call, made by application code. *)
SendEvent(c, e, ev) ==
    /\ Calling(c, "send") /\ LockFree
    /\ Known(e) /\ ev \in Sendable(c)
    /\ SendEvent_i(e, ev)
    /\ HandOver(c, ev)
    /\ UNCHANGED <<attrib, loopVars, cpc, arg, vf, deferq>>

(* nepa_send_event_ahead *)
SendEventAhead(c, e, ev) ==
    /\ Calling(c, "ahead") /\ LockFree
    /\ Known(e) /\ ev \in Sendable(c)
    /\ SendEventAhead_i(e, ev)
    /\ HandOver(c, ev)
    /\ UNCHANGED <<attrib, loopVars, cpc, arg, vf, deferq>>

(* nepa_send_signal: creates an event and sends it in one locked section.  *)
(* Without a free block it returns NERROR_NO_MEMORY and changes nothing.   *)
SendSignal(c, e) ==
    /\ Calling(c, "signal") /\ LockFree
    /\ Known(e)
    /\ \E b \in FreeBlocks :
         /\ attrib' = [attrib EXCEPT ![b] = "dynamic"]
         /\ \/ /\ HasRoom(e)
               /\ mem' = [mem EXCEPT ![b] = "used"]
               /\ ref' = [ref EXCEPT ![b] = 1]
               /\ queue' = [queue EXCEPT ![e] = Append(@, b)]
               /\ ThreadInsert(e)
            \/ /\ ~HasRoom(e)
               /\ ref' = [ref EXCEPT ![b] = 0]
               /\ UNCHANGED <<mem, queue, threadVars>>
    /\ UNCHANGED <<loopVars, ctxVars, vf, deferq>>

--------------------------------------------------------------------------------
(* Event management by application code.                                   *)

(* nevent_create: the block is allocated under the lock ...                *)
CreateAlloc(c) ==
    /\ Calling(c, "create") /\ LockFree
    /\ own[c] = NoEvent
    /\ \E b \in FreeBlocks :
         /\ mem' = [mem EXCEPT ![b] = "used"]
         /\ own' = [own EXCEPT ![c] = b]
    /\ cpc' = [cpc EXCEPT ![c] = "create"]
    /\ UNCHANGED <<ref, attrib, threadVars, loopVars, arg, vf, queue, deferq>>

(* ... and event_init fills the header in after the lock is released.      *)
CreateInit(c) ==
    /\ cpc[c] = "create" /\ Running(c)
    /\ ref' = [ref EXCEPT ![own[c]] = 0]
    /\ attrib' = [attrib EXCEPT ![own[c]] = "dynamic"]
    /\ cpc' = [cpc EXCEPT ![c] = "ready"]
    /\ UNCHANGED <<mem, threadVars, loopVars, own, arg, vf, queue, deferq>>

(* nevent_destroy, by the owner of an event it has not sent. *)
DestroyOwn(c) ==
    /\ Calling(c, "destroy") /\ LockFree
    /\ own[c] # NoEvent /\ attrib[own[c]] = "dynamic"
    /\ mem' = Destroy(mem, ref, own[c])
    /\ own' = [own EXCEPT ![c] = NoEvent]
    /\ UNCHANGED <<ref, attrib, threadVars, loopVars, cpc, arg, vf, queue, deferq>>

(* nevent_lock, by the owner, or by a state machine that keeps the dynamic *)
(* event it is handling beyond the end of the dispatch.                    *)
Reserve(c, ev) ==
    /\ Calling(c, "lock")
    /\ ev \in Block /\ attrib[ev] = "dynamic"
    /\ \/ ev = own[c]
       \/ c = Loop /\ pc = "handle" /\ ev = cur /\ own[c] = NoEvent
    /\ attrib' = [attrib EXCEPT ![ev] = "reserved"]
    /\ own' = [own EXCEPT ![c] = ev]
    /\ UNCHANGED <<mem, ref, threadVars, loopVars, cpc, arg, vf, queue, deferq>>

(* nevent_unlock: the attribute is cleared ... *)
UnlockClear(c) ==
    /\ Calling(c, "unlock")
    /\ own[c] # NoEvent /\ attrib[own[c]] = "reserved"
    /\ attrib' = [attrib EXCEPT ![own[c]] = "dynamic"]
    /\ cpc' = [cpc EXCEPT ![c] = "unlock"]
    /\ UNCHANGED <<mem, ref, threadVars, loopVars, own, arg, vf, queue, deferq>>

(* ... the counter is read without the lock ... *)
UnlockTest(c) ==
    /\ cpc[c] = "unlock" /\ Running(c)
    /\ \/ /\ ref[own[c]] = 0
          /\ cpc' = [cpc EXCEPT ![c] = "release"]
          /\ UNCHANGED own
       \/ /\ ref[own[c]] # 0
          /\ cpc' = [cpc EXCEPT ![c] = "ready"]
          /\ own' = [own EXCEPT ![c] = NoEvent]
    /\ UNCHANGED <<eventVars, threadVars, loopVars, arg, vf, queue, deferq>>

(* ... and the block of an event that read zero is freed under the lock.   *)
UnlockRelease(c) ==
    /\ cpc[c] = "release" /\ Running(c) /\ LockFree
    /\ mem' = [mem EXCEPT ![own[c]] = "free"]
    /\ cpc' = [cpc EXCEPT ![c] = "ready"]
    /\ own' = [own EXCEPT ![c] = NoEvent]
    /\ UNCHANGED <<ref, attrib, threadVars, loopVars, arg, vf, queue, deferq>>

--------------------------------------------------------------------------------
(* Deferred events: called by a state machine, on a queue that only the    *)
(* code of the loop touches.                                               *)

(* Variant for sensitivity: the deferred queue takes no reference. *)
DeferUncounted ==
    /\ Calling(Loop, "defer") /\ pc = "handle"
    /\ Len(deferq[current]) < DeferSize
    /\ deferq' = [deferq EXCEPT ![current] = Append(@, cur)]
    /\ UNCHANGED <<eventVars, threadVars, loopVars, ctxVars, vf, queue>>

(* nepa_defer_event: keeps the current event; a full queue refuses it. *)
DeferEvent ==
    /\ Calling(Loop, "defer") /\ pc = "handle"
    /\ Len(deferq[current]) < DeferSize
    /\ ref' = RefUp(ref, cur)
    /\ deferq' = [deferq EXCEPT ![current] = Append(@, cur)]
    /\ UNCHANGED <<mem, attrib, threadVars, loopVars, ctxVars, vf, queue>>

(* nepa_defer_fetch_one and one turn of the loop of nepa_defer_fetch_all:  *)
(* the event leaves the deferred queue and its reference is given back ... *)
FetchGet(next) ==
    /\ pc = "handle" /\ deferq[current] # << >>
    /\ \/ Calling(Loop, "fetch") /\ next \in {"fetched", "fetchedAll"}
       \/ cpc[Loop] = "fetchNext" /\ next = "fetchedAll"
    /\ arg' = [arg EXCEPT ![Loop] = Head(deferq[current])]
    /\ deferq' = [deferq EXCEPT ![current] = Tail(@)]
    /\ ref' = RefDown(ref, Head(deferq[current]))
    /\ cpc' = [cpc EXCEPT ![Loop] = next]
    /\ UNCHANGED <<mem, attrib, threadVars, loopVars, own, vf, queue>>

(* ... before it is sent to the agent itself; fetch_all goes on until the  *)
(* deferred queue is empty or a send fails.                                *)
FetchSend ==
    /\ cpc[Loop] \in {"fetched", "fetchedAll"}
    /\ SendEvent_i(current, arg[Loop])
    /\ arg' = [arg EXCEPT ![Loop] = NoEvent]
    /\ cpc' = [cpc EXCEPT ![Loop] =
                 IF /\ @ = "fetchedAll"
                    /\ BelowRefLimit(arg[Loop]) /\ HasRoom(current)
                    /\ deferq[current] # << >>
                 THEN "fetchNext" ELSE "ready"]
    /\ UNCHANGED <<attrib, loopVars, own, vf, deferq>>
--------------------------------------------------------------------------------
(* nepa_register: the dispatcher is set outside the lock ...               *)
RegisterSet(c, e) ==
    /\ Calling(c, "register")
    /\ vf[e] = "null"
    /\ c = Loop \/ e \notin BootEpa
    /\ vf' = [vf EXCEPT ![e] = "init"]
    /\ arg' = [arg EXCEPT ![c] = e]
    /\ cpc' = [cpc EXCEPT ![c] = "register"]
    /\ UNCHANGED <<eventVars, threadVars, loopVars, own, queue, deferq>>

(* ... then the thread is inserted, which makes it run its NSM_INIT. *)
RegisterInsert(c) ==
    /\ cpc[c] = "register" /\ Running(c) /\ LockFree
    /\ ThreadInsert(arg[c])
    /\ arg' = [arg EXCEPT ![c] = NoEvent]
    /\ cpc' = [cpc EXCEPT ![c] = "ready"]
    /\ UNCHANGED <<eventVars, loopVars, own, vf, queue, deferq>>

--------------------------------------------------------------------------------
(* The scheduler loop.                                                     *)

(* main() calls nthread_schedule once its agents are registered. *)
Start ==
    /\ pc = "boot" /\ cpc[Loop] = "ready"
    /\ \A e \in BootEpa : vf[e] # "null"
    /\ pc' = "sched"
    /\ UNCHANGED <<eventVars, threadVars, ctxVars, cur, current, vf, queue, deferq>>

(* sched_schedule_i: the first thread of the highest used priority becomes *)
(* the current one and moves to the end of its bucket.                     *)
PickThread(t) ==
    /\ pc = "sched"
    /\ t = RqPeek(runq)
    /\ current' = t
    /\ runq' = RqRotate(runq, PrioOf(t), t)

(* sched_idle_dispatch_i up to ncore_idle. *)
ScheduleIdle ==
    /\ PickThread(Idle)
    /\ pc' = "idle"
    /\ UNCHANGED <<eventVars, thref, cur, ctxVars, vf, queue, deferq>>

(* ncore_idle returns and the lock is taken again. *)
IdleReturn ==
    /\ pc = "idle"
    /\ pc' = "sched"
    /\ UNCHANGED <<eventVars, threadVars, cur, current, ctxVars, vf, queue, deferq>>

(* epa_init_i up to the call of the state machine. *)
ScheduleInit(e) ==
    /\ PickThread(e)
    /\ vf[e] = "init"
    /\ pc' = "init"
    /\ UNCHANGED <<eventVars, thref, cur, ctxVars, vf, queue, deferq>>

(* epa_init_i after the state machine returned. *)
InitReturn ==
    /\ pc = "init" /\ cpc[Loop] = "ready"
    /\ ThreadRemove(current)
    /\ vf' = [vf EXCEPT ![current] = "dispatch"]
    /\ pc' = "sched"
    /\ UNCHANGED <<eventVars, cur, current, ctxVars, queue, deferq>>

(* epa_dispatch_i up to the call of the state machine: the next event is   *)
(* taken without a test that there is one.                                 *)
ScheduleDispatch(e) ==
    /\ PickThread(e)
    /\ vf[e] = "dispatch"
    /\ cur' = Head(queue[e])
    /\ queue' = [queue EXCEPT ![e] = Tail(@)]
    /\ pc' = "handle"
    /\ UNCHANGED <<eventVars, thref, ctxVars, vf, deferq>>

(* The state machine returns: its event loses the reference of the queue. *)
HandlerReturn ==
    /\ pc = "handle" /\ cpc[Loop] = "ready"
    /\ ref' = RefDown(ref, cur)
    /\ pc' = "destroy"
    /\ UNCHANGED <<mem, attrib, threadVars, cur, current, ctxVars, vf, queue, deferq>>

(* Variants for sensitivity: the end of a dispatch does not try to recycle *)
(* the event, or does not give the thread's reference back.                *)
DispatchEndKeepsBlock ==
    /\ pc = "destroy"
    /\ ThreadRemove(current)
    /\ cur' = NoEvent
    /\ pc' = "sched"
    /\ UNCHANGED <<eventVars, current, ctxVars, vf, queue, deferq>>
DispatchEndStaysReady ==
    /\ pc = "destroy"
    /\ mem' = Destroy(mem, ref, cur)
    /\ cur' = NoEvent
    /\ pc' = "sched"
    /\ UNCHANGED <<ref, attrib, threadVars, current, ctxVars, vf, queue, deferq>>

(* epa_dispatch_i after the lock is taken again. *)
DispatchEnd ==
    /\ pc = "destroy"
    /\ mem' = Destroy(mem, ref, cur)
    /\ ThreadRemove(current)
    /\ cur' = NoEvent
    /\ pc' = "sched"
    /\ UNCHANGED <<ref, attrib, current, ctxVars, vf, queue, deferq>>

--------------------------------------------------------------------------------
(* What application code does in context c. *)
ClientStep(c) ==
    \/ \E e \in Epa, ev \in EventPtr : SendEvent(c, e, ev) \/ SendEventAhead(c, e, ev)
    \/ \E e \in Epa : SendSignal(c, e) \/ RegisterSet(c, e)
    \/ CreateAlloc(c)
    \/ CreateInit(c)
    \/ DestroyOwn(c)
    \/ \E ev \in Block : Reserve(c, ev)
    \/ UnlockClear(c)
    \/ UnlockTest(c)
    \/ UnlockRelease(c)
    \/ RegisterInsert(c)

DeferStep ==
    \/ DeferEvent
    \/ \E next \in {"fetched", "fetchedAll"} : FetchGet(next)
    \/ FetchSend

LoopStep ==
    \/ Start
    \/ ScheduleIdle
    \/ IdleReturn
    \/ \E e \in Epa : ScheduleInit(e) \/ ScheduleDispatch(e)
    \/ InitReturn
    \/ HandlerReturn
    \/ DispatchEnd

Next == LoopStep \/ DeferStep \/ \E c \in Ctx : ClientStep(c)

Spec == Init /\ [][Next]_vars

(* The loop never stops by itself, a call that a context is in ends - an   *)
(* interrupt handler that waits for the kernel lock gets it when the loop  *)
(* releases it again and again -, and a state machine returns: it makes    *)
(* finitely many calls per dispatch, each of which leaves the return       *)
(* enabled again (run to completion).                                      *)
Fairness ==
    /\ WF_vars(LoopStep)
    /\ \A c \in Ctx :
         SF_vars(CreateInit(c) \/ UnlockTest(c) \/ UnlockRelease(c) \/ RegisterInsert(c))
    /\ WF_vars(FetchSend \/ (cpc[Loop] = "fetchNext" /\ FetchGet("fetchedAll")))
    /\ SF_vars(Start \/ InitReturn \/ HandlerReturn)

FairSpec == Spec /\ Fairness
--------------------------------------------------------------------------------
(* Safety.                                                                 *)

B2N(b) == IF b THEN 1 ELSE 0

Serving(e) == current = e /\ pc \in {"handle", "destroy"}
Registering(e) == \E c \in Ctx : cpc[c] = "register" /\ arg[c] = e

(* The reference count of a thread is the number of dispatches it is owed: *)
(* one per queued event, one for its NSM_INIT, one for the event in        *)
(* service, less the one a registration in progress has still to add.      *)
(* nthread_insert_i and nthread_remove_i are called far apart, by          *)
(* different contexts, and nothing else keeps them in balance.             *)
Owed(e) == B2N(vf[e] = "init") + B2N(Serving(e)) - B2N(Registering(e))

DispatchesOwed == \A e \in Epa : thref[e] = Len(queue[e]) + Owed(e)

(* A thread is in the run queue exactly while its count is not zero, in    *)
(* the bucket of its priority and only once: linking a node twice would    *)
(* corrupt the list, and a node left out would never run again.            *)
ReadyIffReferenced ==
    \A p \in 0 .. MaxPrio :
        /\ \A t \in Thread : Linked(runq[p], t) <=> thref[t] > 0 /\ PrioOf(t) = p
        /\ Distinct(runq[p])

(* The thread in service stays ready until its dispatch ends, and the idle *)
(* thread always is.                                                       *)
InServiceIsReady ==
    /\ pc \in {"init", "handle", "destroy"} => thref[current] > 0
    /\ thref[Idle] = 1

(* What the scheduler picks can be dispatched: epa_dispatch_i never takes  *)
(* an event from an empty queue (nqueue_get does not test for one) and     *)
(* the dispatcher of the picked thread is never NULL.                      *)
DispatchIsSafe ==
    pc = "sched" =>
        LET t == RqPeek(runq) IN
        t # Idle => /\ vf[t] # "null"
                    /\ vf[t] = "dispatch" => queue[t] # << >>

(* The slots of working and deferred queues that point to event ev. *)
Slots(q, n, ev) ==
    {s \in Epa \X (1 .. n) : s[2] <= Len(q[s[1]]) /\ q[s[1]][s[2]] = ev}
Queued(ev) == Cardinality(Slots(queue, QueueSize, ev))
Deferred(ev) == Cardinality(Slots(deferq, DeferSize, ev))
Holders(ev) == Queued(ev) + Deferred(ev) + B2N(pc = "handle" /\ cur = ev)

BeingCreated(b) == \E c \in Ctx : cpc[c] = "create" /\ own[c] = b

(* The reference counter of a dynamic event is the number of queue slots   *)
(* that point to it plus one while a state machine handles it, through     *)
(* sends, deferrals, fetches and refused sends.                            *)
RefIsExact ==
    \A b \in Block : mem[b] = "used" /\ ~BeingCreated(b) => ref[b] = Holders(b)

(* The same without equality: a reference too many is a leak, one too few  *)
(* frees an event that is still in use.                                    *)
RefCoversHolders ==
    \A b \in Block : mem[b] = "used" /\ ~BeingCreated(b) => ref[b] >= Holders(b)

(* Some queue, the dispatcher or a context points to event b. *)
PointedTo(b) ==
    \/ Queued(b) > 0 \/ Deferred(b) > 0 \/ cur = b
    \/ \E c \in Ctx : own[c] = b \/ arg[c] = b

(* No pointer dangles: an event that a queue, the dispatcher or a context  *)
(* still points to has not been recycled.                                  *)
NoDanglingEvent == \A b \in Block : PointedTo(b) => mem[b] = "used"

(* No event is lost: event.h:55-56 "EDS will may try to recycle the event  *)
(* if it is not referenced by any EPA object", so a block in use is one    *)
(* that something still points to.                                         *)
NoLeakedEvent == \A b \in Block : mem[b] = "used" => PointedTo(b)

(* Pointers local to a call that is under way, and to the dispatcher. *)
LocalsOK ==
    /\ pc \in {"init", "handle", "destroy"} => current \in Epa
    /\ pc = "init" => vf[current] = "init"
    /\ pc \in {"handle", "destroy"} => cur \in EventPtr /\ vf[current] = "dispatch"
    /\ \A c \in Ctx :
         /\ cpc[c] \in {"create", "unlock", "release"} => own[c] \in Block
         /\ cpc[c] = "register" => arg[c] \in Epa /\ vf[arg[c]] # "null"
         /\ cpc[c] \in {"fetched", "fetchedAll"} => arg[c] \in EventPtr
         /\ cpc[c] \in {"fetched", "fetchedAll", "fetchNext"} =>
               c = Loop /\ pc = "handle"
    /\ pc = "boot" \/ cpc[Loop] = "ready" \/ pc \in {"init", "handle"}

(* One registration per agent is under way at a time. *)
RegisteredOnce ==
    \A c, d \in Ctx :
        cpc[c] = "register" /\ cpc[d] = "register" /\ arg[c] = arg[d] => c = d

(* An agent without a dispatcher has no reference, but for those of main() *)
(* that events are sent to while main() is still registering its agents.   *)
UnregisteredIsIdle ==
    \A e \in Epa : vf[e] = "null" => IF e \in BootEpa THEN pc = "boot" ELSE thref[e] = 0

(* The counts, the run queue and the dispatchers agree: inductive. *)
SchedInv ==
    /\ TypeOK
    /\ LocalsOK
    /\ RegisteredOnce
    /\ InServiceIsReady
    /\ DispatchesOwed
    /\ ReadyIffReferenced

(* The inductive invariant behind DispatchIsSafe. *)
DispatchInv == SchedInv /\ UnregisteredIsIdle

(* Nothing but the pointer of its owner leads to event b. *)
Unshared(b) == Holders(b) = 0 /\ cur # b /\ \A c \in Ctx : arg[c] # b

(* Who may use an event: it has one owner at most, a reserved event has    *)
(* one, and one whose owner has neither sent nor reserved it is nowhere    *)
(* else.  The exception is a reservation that has been cleared but whose   *)
(* counter has not been read yet (UnlockClear).                            *)
OwnershipOK ==
    /\ \A c, d \in Ctx : own[c] \in Block /\ own[c] = own[d] => c = d
    /\ \A b \in Block : attrib[b] = "reserved" => \E c \in Ctx : own[c] = b
    /\ \A c \in Ctx :
         /\ cpc[c] \in {"create", "unlock", "release"} => attrib[own[c]] = "dynamic"
         /\ cpc[c] \in {"unlock", "release"} => c = Loop
         /\ \A b \in Block :
              own[c] = b /\ attrib[b] = "dynamic" /\ cpc[c] # "unlock" => Unshared(b)

(* A local pointer is NULL outside the calls that use it. *)
NoStalePointer ==
    /\ pc \notin {"handle", "destroy"} => cur = NoEvent
    /\ \A c \in Ctx :
         arg[c] # NoEvent => cpc[c] \in {"register", "fetched", "fetchedAll"}

(* What keeps pointers from dangling: inductive together with SchedInv if  *)
(* reservations are undone by the code of the loop only.                   *)
RefInv ==
    /\ RefCoversHolders
    /\ NoDanglingEvent
    /\ OwnershipOK
    /\ NoStalePointer

(* The two ways of using the API that the theorems about references need   *)
(* to exclude: nevent_unlock reads the counter without the lock, and a     *)
(* send ahead that finds the queue full keeps the reference it has taken.  *)
UnlocksInLoop == \A c \in Ctx \ {Loop} : "unlock" \notin Uses[c]
NeverSendsAhead == \A c \in Ctx : "ahead" \notin Uses[c]

--------------------------------------------------------------------------------
(* Liveness.                                                               *)

(* Agents of the highest priority share the loop: whatever the others      *)
(* send, one that is ready gets its turn.  (sched_schedule_i rotates the   *)
(* bucket before the dispatch, so an agent that always has work does not   *)
(* keep its equals from running.)                                          *)
TopPriority == {e \in Epa : \A f \in Epa : Prio[f] <= Prio[e]}
TopPriorityIsServed ==
    \A e \in TopPriority :
        (pc # "boot" /\ queue[e] # << >>) ~> (current = e /\ pc = "handle")

(* Once application code stops making calls, every agent of any priority   *)
(* has handled all its events and the loop only idles: no agent with work  *)
(* left is ever taken out of the run queue.                                *)
ClientActs == DeferStep \/ \E c \in Ctx : ClientStep(c)
DrainsWhenQuiet ==
    <>[][~ClientActs]_vars =>
        <>[](pc # "boot" =>
               \A e \in Epa : thref[e] = 0 /\ queue[e] = << >>)
================================================================================
