---------------------------- MODULE MCEventRuntime ----------------------------
(* Instances of EventRuntime for TLC: what the contexts do in each run.    *)
EXTENDS EventRuntime, TLC

CONSTANTS e1, e2, isr, main

EqualPrio == [e \in {e1, e2} |-> 1]
TwoPrios == [e \in {e1, e2} |-> IF e = e1 THEN 1 ELSE 2]

(* References: an interrupt handler that creates, reserves and sends, and  *)
(* state machines that forward, keep, unlock and destroy events.           *)
UsesRefs == (isr :> {"create", "lock", "send", "signal"})
         @@ (main :> {"create", "send", "lock", "unlock", "destroy", "register"})

(* Deferred events and agents registered while an interrupt handler fills  *)
(* the queues from both ends.                                              *)
UsesDefer == (isr :> {"create", "ahead", "register"})
          @@ (main :> {"signal", "defer", "fetch", "register"})

UsesAhead == (isr :> {"create", "ahead"}) @@ (main :> {"register"})
================================================================================
