------------------------------- MODULE EventTimer -------------------------------
(***************************************************************************)
(* Event timers (source/etimer.c) on top of Timer: a timer whose callback  *)
(* sends the event it carries to the agent it belongs to.  The event is    *)
(* one object, in the queue as often as it was sent and not yet handled:   *)
(* its identifier is read when it is handled, not when it is sent.         *)
(*                                                                         *)
(* Timers outside ETimer are used through the API of Timer.  All timers    *)
(* of ETimer belong to one agent.                                          *)
(***************************************************************************)
EXTENDS Timer, FiniteSets

CONSTANTS
    ETimer,         \* the event timers
    QueueSize,      \* slots of the queue of the agent
    Null            \* NSM_NULL

ASSUME EventTimerAssumption ==
    /\ ETimer \subseteq Timer
    /\ \A t \in ETimer : Starts[t] = {} /\ Cancels[t] = {}
    /\ QueueSize \in Nat \ {0}

Nobody == Sentinel

VARIABLES
    id,         \* id[t]: netimer.event.id
    epaq,       \* the queue of the agent: the timers of its events
    handling,   \* the timer whose event the agent has taken, or Nobody
    canceller,  \* the timer a netimer_cancel under way is for, or Nobody
    stopped     \* the timers cancelled and not started since, for a property

timerVars == <<list, rtick, itick, isr, current, expired>>
eventVars == <<id, epaq, handling, canceller, stopped>>

EventInit ==
    /\ Init
    /\ id = [t \in ETimer |-> "default"]
    /\ epaq = << >>
    /\ handling = Nobody /\ canceller = Nobody
    /\ stopped = {}

EventTypeOK ==
    /\ TypeOK
    /\ id \in [ETimer -> {"default", "due", Null}]
    /\ epaq \in Seq(ETimer) /\ Len(epaq) <= QueueSize
    /\ {handling, canceller} \subseteq ETimer \cup {Nobody}
    /\ stopped \subseteq ETimer

--------------------------------------------------------------------------------
(* netimer_after and netimer_every *)
Schedule(t, tick, repeat) ==
    /\ canceller = Nobody
    /\ StartTimer(t, tick, repeat) \/ RestartTimer(t, tick, repeat)
    /\ id' = [id EXCEPT ![t] = "due"]
    /\ stopped' = stopped \ {t}
    /\ UNCHANGED <<epaq, handling, canceller>>

(* Variant for sensitivity: the event keeps its identifier. *)
CancelMarkNot(t) ==
    /\ canceller = Nobody
    /\ canceller' = t
    /\ UNCHANGED <<id, epaq, handling, stopped, timerVars>>

(* netimer_cancel marks the event before it takes the lock, *)
CancelMark(t) ==
    /\ canceller = Nobody
    /\ id' = [id EXCEPT ![t] = Null]
    /\ canceller' = t
    /\ UNCHANGED <<epaq, handling, stopped, timerVars>>

(* and cancels the timer. *)
CancelStop ==
    /\ canceller # Nobody /\ isr = "off"
    /\ CancelTimer(canceller) \/ (~Running(canceller) /\ UNCHANGED timerVars)
    /\ stopped' = stopped \cup {canceller}
    /\ canceller' = Nobody
    /\ UNCHANGED <<id, epaq, handling>>

(* Variant for sensitivity: the last slot is never used. *)
EtimerHandlerEarly ==
    /\ CallbackReturn /\ expired \in ETimer
    /\ epaq' = IF Len(epaq) < QueueSize - 1 THEN Append(epaq, expired) ELSE epaq
    /\ UNCHANGED <<id, handling, canceller, stopped>>

(* etimer_handler: the event is sent; that the queue may be full is        *)
(* overlooked.                                                             *)
EtimerHandler ==
    /\ CallbackReturn /\ expired \in ETimer
    /\ epaq' = IF Len(epaq) < QueueSize THEN Append(epaq, expired) ELSE epaq
    /\ UNCHANGED <<id, handling, canceller, stopped>>

(* epa_dispatch_i takes the next event from the queue, *)
FetchEvent ==
    /\ handling = Nobody /\ canceller = Nobody /\ isr = "off" /\ epaq # << >>
    /\ handling' = Head(epaq)
    /\ epaq' = Tail(epaq)
    /\ UNCHANGED <<id, canceller, stopped, timerVars>>

(* and the state machine reads its identifier and handles it. *)
HandleEvent ==
    /\ handling # Nobody /\ canceller = Nobody
    /\ handling' = Nobody
    /\ UNCHANGED <<id, epaq, canceller, stopped, timerVars>>

(* The other timers, and the steps of ncore_timer_isr *)
UsePlainTimer(t) ==
    /\ \/ \E n \in 1 .. MaxTick, repeat \in BOOLEAN : StartTimer(t, n, repeat)
       \/ CancelTimer(t)
    /\ UNCHANGED eventVars

PlainIsrStep ==
    /\ TimerIsr \/ Expire \/ IsrEnd \/ (CallbackReturn /\ expired \notin ETimer)
    /\ UNCHANGED eventVars

EventNext ==
    \/ \E t \in ETimer :
         \/ \E n \in 1 .. MaxTick, repeat \in BOOLEAN : Schedule(t, n, repeat)
         \/ CancelMark(t)
    \/ \E t \in Timer \ ETimer : UsePlainTimer(t)
    \/ CancelStop \/ FetchEvent \/ HandleEvent
    \/ EtimerHandler \/ PlainIsrStep

allVars == <<list, rtick, itick, isr, current, expired,
             id, epaq, handling, canceller, stopped>>

EventSpec == EventInit /\ [][EventNext]_allVars

(* The core timer keeps ticking, callbacks and handlers return, and the    *)
(* loop gets to run between the interrupts.                                *)
FairSpec ==
    /\ EventSpec
    /\ WF_allVars(PlainIsrStep \/ EtimerHandler)
    /\ SF_allVars(CancelStop) /\ SF_allVars(FetchEvent) /\ SF_allVars(HandleEvent)

--------------------------------------------------------------------------------
Sent(t, q) == {i \in 1 .. Len(q) : q[i] = t}

(* Once netimer_cancel has returned the timer sends nothing until it is    *)
(* started again, and what it had sent is a null event when it is handled  *)
(* (etimer.c:124-126), whatever ticks came while it was being cancelled.   *)
CancelledIsSilent ==
    [][ \A t \in stopped \cap stopped' :
          /\ Cardinality(Sent(t, epaq')) <= Cardinality(Sent(t, epaq))
          /\ handling = t => id[t] = Null ]_allVars

(* An event timer that is started is handled by its agent, unless it is    *)
(* cancelled, or started again and again, or finds the queue full.         *)
StartedIsHandled ==
    \A t \in ETimer :
        \/ []<><<\E n \in 1 .. MaxTick, repeat \in BOOLEAN : Schedule(t, n, repeat)>>_allVars
        \/ Running(t) ~> \/ t \in stopped \/ handling = t
                         \/ isr = "call" /\ expired = t /\ Len(epaq) = QueueSize
================================================================================
