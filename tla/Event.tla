--------------------------------- MODULE Event ---------------------------------
(***************************************************************************)
(* Events of source/event.c and include/ep/event.h: the header every event *)
(* starts with (attrib, ref), the memory block a dynamic event lives in,   *)
(* and what the nevent_* functions do to them.  The contents of an event   *)
(* and its identifier are left out: nothing here depends on them.          *)
(***************************************************************************)
EXTENDS Integers, FiniteSets

CONSTANTS
    Block,          \* memory blocks: each holds one dynamic event at a time
    Static,         \* events defined with NEVENT_INITIALIZER (attrib = 0)
    NoEvent,        \* the NULL event pointer
    RefLimit,       \* NEVENT_REF_LIMIT, the references a dynamic event may have
    ReservedLimit   \* the same for a reserved one, whose attribute bits are or-ed in

ASSUME EventAssumption ==
    /\ Block \cap Static = {}
    /\ NoEvent \notin Block \cup Static
    /\ RefLimit \in Nat \ {0}
    /\ ReservedLimit \in 1 .. RefLimit

VARIABLES
    mem,        \* mem[b]: is the block "free" or "used"
    ref,        \* ref[b]: nevent.ref of the event in block b
    attrib      \* attrib[b]: nevent.attrib, "dynamic" or "reserved"

eventVars == <<mem, ref, attrib>>

EventPtr == Block \cup Static

(* ref is an unsigned counter; that it never drops below zero is not a     *)
(* matter of its type but follows from RefIsExact of EventRuntime.         *)
EventTypeOK ==
    /\ mem \in [Block -> {"free", "used"}]
    /\ ref \in [Block -> Int]
    /\ attrib \in [Block -> {"dynamic", "reserved"}]

EventInit ==
    /\ mem = [b \in Block |-> "free"]
    /\ ref = [b \in Block |-> 0]
    /\ attrib = [b \in Block |-> "dynamic"]

--------------------------------------------------------------------------------
(* nevent_ref_up and nevent_ref_down: a static event is not counted.  Both *)
(* take the counters and return the new ones, as callers chain them.       *)
RefUp(r, ev) == IF ev \in Block THEN [r EXCEPT ![ev] = @ + 1] ELSE r

(* Variant for sensitivity: a reserved event does not get its count back. *)
RefDownUnlessReserved(r, ev) ==
    IF ev \in Block /\ attrib[ev] = "dynamic" THEN [r EXCEPT ![ev] = @ - 1] ELSE r

RefDown(r, ev) == IF ev \in Block THEN [r EXCEPT ![ev] = @ - 1] ELSE r

(* Variant for sensitivity: the test forgets the reservation. *)
UnreferencedIgnoringLock(r, ev) == ev \in Block /\ r[ev] = 0

(* nevent_ref(ev) = 0: never for a static nor for a reserved event. *)
Unreferenced(r, ev) == ev \in Block /\ attrib[ev] = "dynamic" /\ r[ev] = 0

(* nevent_ref(ev) < NEVENT_REF_LIMIT, the test every send makes first. *)
BelowRefLimit(ev) ==
    ev \in Block =>
        ref[ev] < (IF attrib[ev] = "reserved" THEN ReservedLimit ELSE RefLimit)

(* nevent_destroy_i: the block of an unreferenced event is free again. *)
Destroy(m, r, ev) == IF Unreferenced(r, ev) THEN [m EXCEPT ![ev] = "free"] ELSE m

(* nmem_alloc_i on the event memory: any free block may be returned. *)
FreeBlocks == {b \in Block : mem[b] = "free"}
================================================================================
