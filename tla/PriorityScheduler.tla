--------------------------- MODULE PriorityScheduler ---------------------------
(***************************************************************************)
(* What the scheduler promises the rest of the system: threads are counted *)
(* in and out, one that has a count is ready, and whenever the scheduler   *)
(* picks a thread it is the one of the highest priority in use that has    *)
(* waited longest.  There is no bitmap here and no list with a sentinel;   *)
(* EventRuntime is written in terms of this scheduler.                     *)
(***************************************************************************)
EXTENDS ReadyQueue

CONSTANTS Thread, Idle, Sentinel, Priority, Levels

VARIABLES
    runq,       \* a FIFO sequence of threads per priority level
    thref,      \* the count of each thread
    live,       \* threads that have been initialised and not terminated
    current,    \* the thread picked last
    picking     \* the scheduler is about to pick a thread

vars == <<runq, thref, live, current, picking>>

Init ==
    /\ runq = [p \in 0 .. Levels - 1 |-> << >>]
    /\ thref = [t \in Thread |-> 0]
    /\ live = {}
    /\ current = Sentinel
    /\ picking = FALSE

(* The first thread that is initialised makes the idle thread ready. *)
Create(t) ==
    /\ t \notin live \cup {Idle}
    /\ live' = live \cup {t, Idle}
    /\ IF live = {}
       THEN /\ runq' = RqInsert(runq, Priority[Idle], Idle)
            /\ thref' = [thref EXCEPT ![Idle] = 1, ![t] = 0]
       ELSE /\ UNCHANGED runq
            /\ thref' = [thref EXCEPT ![t] = 0]
    /\ UNCHANGED <<current, picking>>

Terminate(t) ==
    /\ t \in live \ {Idle}
    /\ live' = live \ {t}
    /\ runq' = IF thref[t] > 0 THEN RqRemove(runq, Priority[t], t) ELSE runq
    /\ UNCHANGED <<thref, current, picking>>

Insert(t) ==
    /\ t \in live \ {Idle} /\ ~picking
    /\ thref' = [thref EXCEPT ![t] = @ + 1]
    /\ runq' = IF thref[t] = 0 THEN RqInsert(runq, Priority[t], t) ELSE runq
    /\ UNCHANGED <<live, current, picking>>

Remove(t) ==
    /\ t \in live \ {Idle} /\ ~picking /\ thref[t] > 0
    /\ thref' = [thref EXCEPT ![t] = @ - 1]
    /\ runq' = IF thref[t] = 1 THEN RqRemove(runq, Priority[t], t) ELSE runq
    /\ UNCHANGED <<live, current, picking>>

(* The one guarantee: the first of the highest priority, moved to the end. *)
Pick ==
    /\ picking
    /\ current' = RqPeek(runq)
    /\ runq' = RqRotate(runq, Priority[current'], current')
    /\ picking' = FALSE
    /\ UNCHANGED <<thref, live>>

(* A dispatch ends, the scheduler starts to pick or stops for good. *)
Ask == live # {} /\ picking' = TRUE /\ UNCHANGED <<runq, thref, live, current>>
Stop == picking /\ picking' = FALSE /\ UNCHANGED <<runq, thref, live, current>>

Next ==
    \/ \E t \in Thread : Create(t) \/ Terminate(t) \/ Insert(t) \/ Remove(t)
    \/ Pick \/ Ask \/ Stop

Spec == Init /\ [][Next]_vars
================================================================================
