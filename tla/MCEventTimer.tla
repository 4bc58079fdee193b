------------------------------ MODULE MCEventTimer ------------------------------
(* An instance of EventTimer for TLC: event timers, and a timer whose      *)
(* callback may cancel it.                                                 *)
EXTENDS EventTimer

NoTimer == [t \in Timer |-> {}]
PlainCancelsItself == [t \in Timer |-> IF t \in ETimer THEN {} ELSE {t}]
================================================================================
