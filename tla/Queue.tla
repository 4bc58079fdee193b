---------------------------------- MODULE Queue ----------------------------------
(***************************************************************************)
(* The queue of include/base/queue.h: a ring buffer with two indices that  *)
(* a mask wraps around and a counter of empty slots, which alone tells a   *)
(* full queue from an empty one.  The operations test nothing; their users *)
(* test nqueue_is_full and nqueue_is_empty first, as the header asks.      *)
(***************************************************************************)
EXTENDS Integers, Sequences

CONSTANTS
    Item,       \* what the slots hold, the contents of fresh memory included
    Size        \* number of slots: a power of two (NQUEUE_BUNDLE_STRUCT)

ASSUME QueueAssumption == Size \in Nat /\ Size >= 2

VARIABLES
    buf,        \* nqueue.buf
    head,       \* nqueue.head, the slot of the next item put in FIFO mode
    tail,       \* nqueue.tail, the slot of the next item to get
    empty,      \* nqueue.empty, the slots that are free
    result      \* what the last call that returns an item returned

vars == <<buf, head, tail, empty, result>>

Slot == 0 .. Size - 1

TypeOK ==
    /\ buf \in [Slot -> Item]
    /\ head \in Slot /\ tail \in Slot
    /\ empty \in 0 .. Size
    /\ result \in Item

(* nqueue_init: the buffer holds whatever is in memory. *)
Init ==
    /\ buf \in [Slot -> Item]
    /\ head = 0 /\ tail = 0
    /\ empty = Size
    /\ result \in Item

--------------------------------------------------------------------------------
(* index & mask, for the indices of -1 .. Size that it is applied to: Size *)
(* is a power of two and -1 is the 32-bit word of ones.                    *)
Masked(i) == IF i = Size THEN 0 ELSE IF i = -1 THEN Size - 1 ELSE i

IsFull == empty = 0
IsEmpty == empty = Size

(* nqueue_put_fifo *)
PutFifo(x) ==
    /\ ~IsFull
    /\ buf' = [buf EXCEPT ![head] = x]
    /\ head' = Masked(head + 1)
    /\ empty' = empty - 1
    /\ UNCHANGED <<tail, result>>

(* Variant for sensitivity: the item is stored before the index moves. *)
PutLifoEarly(x) ==
    /\ ~IsFull
    /\ tail' = Masked(tail - 1)
    /\ buf' = [buf EXCEPT ![tail] = x]
    /\ empty' = empty - 1
    /\ UNCHANGED <<head, result>>

(* nqueue_put_lifo *)
PutLifo(x) ==
    /\ ~IsFull
    /\ tail' = Masked(tail - 1)
    /\ buf' = [buf EXCEPT ![tail'] = x]
    /\ empty' = empty - 1
    /\ UNCHANGED <<head, result>>

(* nqueue_get *)
Get ==
    /\ ~IsEmpty
    /\ result' = buf[tail]
    /\ tail' = Masked(tail + 1)
    /\ empty' = empty + 1
    /\ UNCHANGED <<buf, head>>

(* nqueue_head: the item put last in FIFO mode, or the only one left. *)
PeekHead ==
    /\ ~IsEmpty
    /\ result' = buf[Masked(head - 1)]
    /\ UNCHANGED <<buf, head, tail, empty>>

(* nqueue_tail: the item that nqueue_get would return. *)
PeekTail ==
    /\ ~IsEmpty
    /\ result' = buf[tail]
    /\ UNCHANGED <<buf, head, tail, empty>>

Next ==
    \/ \E x \in Item : PutFifo(x) \/ PutLifo(x)
    \/ Get \/ PeekHead \/ PeekTail

Spec == Init /\ [][Next]_vars

--------------------------------------------------------------------------------
Count == Size - empty

(* The slot of the i-th item from the tail on. *)
SlotOf(i) == IF tail + i - 1 < Size THEN tail + i - 1 ELSE tail + i - 1 - Size

Items == [i \in 1 .. Count |-> buf[SlotOf(i)]]

(* The three words that are updated apart from each other agree: the used  *)
(* slots run from tail up to head, and when both are equal empty tells     *)
(* whether that is all of them or none.                                    *)
IndicesAgree == head = SlotOf(Count + 1)

(* The ring buffer is a bounded sequence: whatever mix of puts at both     *)
(* ends and gets has wrapped the indices, in either direction, every get   *)
(* and peek returns the right item and no put overwrites one.              *)
Deque == INSTANCE BoundedDeque WITH items <- Items
ImplementsDeque == Deque!Spec
================================================================================
