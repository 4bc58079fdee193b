-------------------------------- MODULE MCTimer --------------------------------
(* An instance of Timer for TLC whose callbacks cancel any timer.          *)
EXTENDS Timer

NoTimer == [t \in Timer |-> {}]
AnyTimer == [t \in Timer |-> Timer]
================================================================================
