----------------------------- MODULE TimerService -----------------------------
(***************************************************************************)
(* What virtual timers promise: every running timer counts down once per   *)
(* tick of the core timer, its callback runs in the tick in which it       *)
(* reaches zero, in no other, and no tick ends before all timers that are  *)
(* due in it have expired.  Callbacks may start and cancel timers.         *)
(* A repeating timer then runs for the ticks it was started for and Late   *)
(* more.                                                                   *)
(***************************************************************************)
EXTENDS Integers

CONSTANTS
    Timer,
    MaxTick,
    Late        \* ticks by which each period exceeds the one asked for

VARIABLES
    left,       \* left[t]: ticks until timer t expires, 0 when it is stopped
    period,     \* period[t]: ticks it then runs again, 0 for a one-shot timer
    active,     \* the timers that are running
    phase       \* "off", or in a tick: between callbacks or in a "call"

vars == <<left, period, active, phase>>

Init ==
    /\ left = [t \in Timer |-> 0]
    /\ period = [t \in Timer |-> 0]
    /\ active = {}
    /\ phase = "off"

(* A timer started for n ticks first expires in the tick n + 1 from now,   *)
(* when n whole ticks have passed: part of the next one is over already.   *)
(* From then on it counts from a tick, and runs for n + Late.              *)
Start(t, n, repeat) ==
    /\ phase \in {"off", "call"} /\ t \notin active
    /\ active' = active \cup {t}
    /\ left' = [left EXCEPT ![t] = n + 1]
    /\ period' = [period EXCEPT ![t] = IF repeat THEN n + Late ELSE 0]
    /\ UNCHANGED phase

(* A running timer may be started anew. *)
Restart(t, n, repeat) ==
    /\ phase = "off" /\ t \in active
    /\ left' = [left EXCEPT ![t] = n + 1]
    /\ period' = [period EXCEPT ![t] = IF repeat THEN n + Late ELSE 0]
    /\ UNCHANGED <<active, phase>>

Cancel(t) ==
    /\ phase \in {"off", "call"} /\ t \in active
    /\ active' = active \ {t}
    /\ left' = [left EXCEPT ![t] = 0]
    /\ period' = [period EXCEPT ![t] = 0]
    /\ UNCHANGED phase

Tick ==
    /\ phase = "off" /\ active # {}
    /\ left' = [t \in Timer |-> IF t \in active THEN left[t] - 1 ELSE 0]
    /\ phase' = "loop"
    /\ UNCHANGED <<period, active>>

Expire(t) ==
    /\ phase = "loop" /\ t \in active /\ left[t] = 0
    /\ left' = [left EXCEPT ![t] = period[t]]
    /\ active' = IF period[t] = 0 THEN active \ {t} ELSE active
    /\ phase' = "call"
    /\ UNCHANGED period

Return == phase = "call" /\ phase' = "loop" /\ UNCHANGED <<left, period, active>>

TickEnd ==
    /\ phase = "loop" /\ \A t \in active : left[t] > 0
    /\ phase' = "off"
    /\ UNCHANGED <<left, period, active>>

Next ==
    \/ \E t \in Timer :
         \/ \E n \in 1 .. MaxTick, repeat \in BOOLEAN :
              Start(t, n, repeat) \/ Restart(t, n, repeat)
         \/ Cancel(t) \/ Expire(t)
    \/ Tick \/ Return \/ TickEnd

Spec == Init /\ [][Next]_vars
================================================================================
