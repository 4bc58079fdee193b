------------------------------ MODULE BoundedDeque ------------------------------
(***************************************************************************)
(* What a queue promises its users: a sequence of at most Size items that  *)
(* grows at either end and shrinks at the front.  The working and deferred *)
(* queues of EventRuntime are such sequences.                              *)
(***************************************************************************)
EXTENDS Integers, Sequences

CONSTANTS Item, Size

VARIABLES
    items,      \* the items queued, the next one to get first
    result      \* the item returned by the last call that returns one

vars == <<items, result>>

Init == items = << >> /\ result \in Item

PutBack(x) == Len(items) < Size /\ items' = Append(items, x) /\ UNCHANGED result
PutFront(x) == Len(items) < Size /\ items' = <<x>> \o items /\ UNCHANGED result

TakeFirst == items # << >> /\ items' = Tail(items) /\ result' = Head(items)

SeeFirst == items # << >> /\ result' = items[1] /\ UNCHANGED items
SeeLast == items # << >> /\ result' = items[Len(items)] /\ UNCHANGED items

Next ==
    \/ \E x \in Item : PutBack(x) \/ PutFront(x)
    \/ TakeFirst \/ SeeFirst \/ SeeLast

Spec == Init /\ [][Next]_vars
================================================================================
