------------------------------- MODULE Allocator -------------------------------
(***************************************************************************)
(* What a set of memories promises: every object that is allocated has     *)
(* words of its own in one of them, until it is freed.                     *)
(***************************************************************************)
EXTENDS Integers

CONSTANTS
    Memory,
    Capacity,   \* Capacity[m]: the words of memory m
    Sizes       \* the sizes of objects

VARIABLE owned  \* the objects, records [mem, at, words]

Extent(o) == o.at .. o.at + o.words - 1

Init == owned = {}

Allocate(o) ==
    /\ Extent(o) \subseteq 0 .. Capacity[o.mem] - 1
    /\ \A p \in owned : p.mem = o.mem => Extent(p) \cap Extent(o) = {}
    /\ owned' = owned \cup {o}

Release(o) == o \in owned /\ owned' = owned \ {o}

Next ==
    \/ \E m \in Memory : \E a \in 0 .. Capacity[m], w \in Sizes :
         Allocate([mem |-> m, at |-> a, words |-> w])
    \/ \E o \in owned : Release(o)

Spec == Init /\ [][Next]_owned
================================================================================
