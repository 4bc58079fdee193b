----------------------------- MODULE MCEventMemory -----------------------------
(* An instance of EventMemory for TLC: a small heap, one in which four     *)
(* blocks lie side by side, and a static memory.                           *)
EXTENDS EventMemory, TLC

CONSTANTS m1, m2, s1

SomeCapacity == (m1 :> 14) @@ (m2 :> 26) @@ (s1 :> 4)
================================================================================
