------------------------------ MODULE MCScheduler ------------------------------
(* Instances of Scheduler for TLC. *)
EXTENDS Scheduler, TLC

CONSTANTS idle, t1, t2, t3

(* Two threads of one priority and a third of another, in other words of   *)
(* the bitmap when a word has two bits.                                    *)
SpreadPriority == (idle :> 0) @@ (t1 :> 1) @@ (t2 :> 3) @@ (t3 :> 3)

(* A priority beyond the 16 bits that ncore_log2 of the Linux port handles. *)
HighPriority == (idle :> 0) @@ (t1 :> 3) @@ (t2 :> 17)
================================================================================
