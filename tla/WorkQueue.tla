------------------------------- MODULE WorkQueue -------------------------------
(***************************************************************************)
(* What deferred work promises: an activated job runs once, later, in no   *)
(* other job's time; activating it again before it has started adds        *)
(* nothing.                                                                *)
(***************************************************************************)
CONSTANTS Job, NoJob

VARIABLES
    asked,      \* the jobs that were activated and have not started since
    running     \* the job that runs, or NoJob

Init == asked = {} /\ running = NoJob

(* A job does not activate itself. *)
Activate(j) == j # running /\ asked' = asked \cup {j} /\ UNCHANGED running

Start(j) == running = NoJob /\ j \in asked /\ running' = j /\ asked' = asked \ {j}

Finish == running # NoJob /\ running' = NoJob /\ UNCHANGED asked

Next == (\E j \in Job : Activate(j) \/ Start(j)) \/ Finish

Spec == Init /\ [][Next]_<<asked, running>>
================================================================================
