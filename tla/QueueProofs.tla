------------------------------- MODULE QueueProofs -------------------------------
(***************************************************************************)
(* The ring buffer of module Queue implements a bounded sequence, for any  *)
(* number of slots and any items.                                          *)
(***************************************************************************)
EXTENDS Queue, SequenceTheorems, TLAPS

(* The inductive invariant: the indices are slots and agree. *)
RingInv == TypeOK /\ IndicesAgree

(* A fresh queue. *)
LEMMA InitRing == Init => RingInv
  BY QueueAssumption DEF Init, RingInv, TypeOK, IndicesAgree, Slot, SlotOf, Count

(* Every operation moves one index by one slot and the counter with it. *)
LEMMA NextRing == RingInv /\ [Next]_vars => RingInv'
<1> SUFFICES ASSUME RingInv, [Next]_vars PROVE RingInv'
  OBVIOUS
<1> USE QueueAssumption DEF RingInv, TypeOK, IndicesAgree, Slot, SlotOf, Count, Masked
<1>1. ASSUME NEW x \in Item, PutFifo(x) PROVE RingInv'
  BY <1>1 DEF PutFifo, IsFull
<1>2. ASSUME NEW x \in Item, PutLifo(x) PROVE RingInv'
  BY <1>2 DEF PutLifo, IsFull
<1>3. CASE Get
  BY <1>3 DEF Get, IsEmpty
<1>4. CASE PeekHead
  BY <1>4 DEF PeekHead, IsEmpty
<1>5. CASE PeekTail
  BY <1>5 DEF PeekTail, IsEmpty
<1>6. CASE UNCHANGED vars
  BY <1>6 DEF vars
<1> QED
  BY <1>1, <1>2, <1>3, <1>4, <1>5, <1>6 DEF Next

(* The invariant holds in every reachable state. *)
LEMMA RingInvariant == Spec => []RingInv
  BY InitRing, NextRing, PTL DEF Spec

(* No index ever leaves the buffer, in whichever direction it wraps. *)
THEOREM QueueTyped == Spec => []TypeOK
<1>1. RingInv => TypeOK
  BY DEF RingInv
<1> QED
  BY <1>1, RingInvariant, PTL

(* The used slots always run from tail up to head: the two indices and the *)
(* counter of empty slots never drift apart.                               *)
THEOREM RingAgrees == Spec => []IndicesAgree
<1>1. RingInv => IndicesAgree
  BY DEF RingInv
<1> QED
  BY <1>1, RingInvariant, PTL

--------------------------------------------------------------------------------
(* Refinement.                                                             *)

(* The items are a sequence with one element per used slot. *)
ItemsShape ==
    /\ Count \in 0 .. Size
    /\ Items \in Seq(Item) /\ Len(Items) = Count
    /\ \A i \in 1 .. Count : Items[i] = buf[SlotOf(i)] /\ SlotOf(i) \in Slot
    /\ IsEmpty <=> Items = << >>

(* It is one whenever the indices agree. *)
LEMMA ItemsTyped == RingInv => ItemsShape
<1> SUFFICES ASSUME RingInv PROVE ItemsShape
  OBVIOUS
<1>1. Count \in 0 .. Size /\ \A i \in 1 .. Count : SlotOf(i) \in Slot
  BY QueueAssumption DEF RingInv, TypeOK, Count, SlotOf, Slot
<1>2. Items \in [1 .. Count -> Item]
  BY <1>1 DEF RingInv, TypeOK, Items
<1>3. Items \in Seq(Item) /\ Len(Items) = Count
  BY <1>1, <1>2
<1>4. \A i \in 1 .. Count : Items[i] = buf[SlotOf(i)]
  BY DEF Items
<1>5. IsEmpty <=> Count = 0
  BY QueueAssumption DEF RingInv, TypeOK, IsEmpty, Count
<1> QED
  BY <1>1, <1>3, <1>4, <1>5, EmptySeq DEF ItemsShape

(* The same after a step that keeps the invariant. *)
LEMMA ItemsTypedNext == RingInv' => ItemsShape'
  BY ItemsTyped, PTL

(* A queue that is not full has a free slot at head, which no used slot is. *)
LEMMA HeadIsFree ==
    ASSUME RingInv, ~IsFull
    PROVE  \A i \in 1 .. Count : SlotOf(i) # head
  BY QueueAssumption DEF RingInv, TypeOK, IndicesAgree, IsFull, SlotOf, Count, Slot

(* ... and so is the slot before tail. *)
LEMMA BeforeTailIsFree ==
    ASSUME RingInv, ~IsFull
    PROVE  \A i \in 1 .. Count : SlotOf(i) # Masked(tail - 1)
  BY QueueAssumption DEF RingInv, TypeOK, IsFull, SlotOf, Count, Slot, Masked

(* nqueue_put_fifo appends. *)
LEMMA PutFifoAppends ==
    ASSUME RingInv, NEW x \in Item, PutFifo(x), RingInv'
    PROVE  Deque!PutBack(x)
<1>0. ItemsShape /\ ItemsShape'
  BY ItemsTyped, ItemsTypedNext
<1>1. Count' = Count + 1 /\ \A i \in 1 .. Count + 1 : SlotOf(i)' = SlotOf(i)
  BY QueueAssumption DEF PutFifo, RingInv, TypeOK, Count, SlotOf
<1>2. \A i \in 1 .. Count : Items'[i] = Items[i]
  <2> TAKE i \in 1 .. Count
  <2>1. i \in 1 .. Count' /\ SlotOf(i) # head /\ SlotOf(i) \in Slot /\ SlotOf(i)' = SlotOf(i)
    BY <1>0, <1>1, HeadIsFree DEF PutFifo, ItemsShape
  <2>2. Items'[i] = buf'[SlotOf(i)]
    BY <2>1 DEF Items
  <2> QED
    BY <1>0, <2>1, <2>2 DEF PutFifo, RingInv, TypeOK, ItemsShape
<1>3. \A n \in 1 .. Count + 1 : n = Count + 1 => Items'[n] = x
  <2> TAKE n \in 1 .. Count + 1
  <2> HAVE n = Count + 1
  <2>1. SlotOf(n)' = head /\ n \in 1 .. Count'
    BY <1>0, <1>1 DEF RingInv, IndicesAgree, ItemsShape
  <2>2. Items'[n] = buf'[head]
    BY <2>1 DEF Items
  <2> QED
    BY <2>2 DEF PutFifo, RingInv, TypeOK
<1>4. Items \in Seq(Item) /\ Len(Items) = Count /\ Items' \in Seq(Item) /\ Len(Items') = Count + 1
  BY <1>0, <1>1 DEF ItemsShape
<1>5. Items' = Append(Items, x)
  <2>1. /\ Append(Items, x) \in Seq(Item) /\ Len(Append(Items, x)) = Count + 1
        /\ \A i \in 1 .. Count : Append(Items, x)[i] = Items[i]
        /\ Append(Items, x)[Count + 1] = x
    BY <1>4, AppendProperties
  <2>2. Count \in Nat
    BY <1>0 DEF ItemsShape
  <2>3. \A i \in 1 .. Len(Items') : Items'[i] = Append(Items, x)[i]
    BY <1>2, <1>3, <1>4, <2>1, <2>2
  <2> QED
    BY <1>4, <2>1, <2>3, SeqEqual
<1>6. Len(Items) < Size
  BY <1>4, QueueAssumption DEF PutFifo, IsFull, RingInv, TypeOK, Count
<1> QED
  BY <1>5, <1>6 DEF Deque!PutBack, PutFifo

(* nqueue_put_lifo puts in front. *)
LEMMA PutLifoPrepends ==
    ASSUME RingInv, NEW x \in Item, PutLifo(x), RingInv'
    PROVE  Deque!PutFront(x)
<1>0. ItemsShape /\ ItemsShape'
  BY ItemsTyped, ItemsTypedNext
<1>1. /\ Count' = Count + 1 /\ tail' = Masked(tail - 1)
      /\ SlotOf(1)' = tail'
      /\ \A i \in 1 .. Count : SlotOf(i + 1)' = SlotOf(i)
  BY QueueAssumption DEF PutLifo, RingInv, TypeOK, Count, SlotOf, Slot, Masked
<1>2. \A i \in 1 .. Count : Items'[i + 1] = Items[i]
  <2> TAKE i \in 1 .. Count
  <2>1. /\ i + 1 \in 1 .. Count' /\ SlotOf(i) # tail'
        /\ SlotOf(i) \in Slot /\ SlotOf(i + 1)' = SlotOf(i)
    BY <1>0, <1>1, BeforeTailIsFree DEF PutLifo, ItemsShape
  <2>2. Items'[i + 1] = buf'[SlotOf(i)]
    BY <2>1 DEF Items
  <2> QED
    BY <1>0, <2>1, <2>2 DEF PutLifo, RingInv, TypeOK, ItemsShape
<1>3. Items'[1] = x
  <2>1. 1 \in 1 .. Count' /\ tail' \in Slot
    BY <1>0, <1>1 DEF ItemsShape, RingInv, TypeOK
  <2>2. Items'[1] = buf'[tail']
    BY <1>1, <2>1 DEF Items
  <2> QED
    BY <2>1, <2>2 DEF PutLifo, RingInv, TypeOK
<1>4. /\ Count \in Nat
      /\ Items \in Seq(Item) /\ Len(Items) = Count /\ Items' \in Seq(Item) /\ Len(Items') = Count + 1
  BY <1>0, <1>1 DEF ItemsShape
<1>5. Items' = <<x>> \o Items
  <2>1. <<x>> \in Seq(Item) /\ Len(<<x>>) = 1 /\ <<x>>[1] = x
    OBVIOUS
  <2>2. /\ <<x>> \o Items \in Seq(Item) /\ Len(<<x>> \o Items) = 1 + Count
        /\ \A i \in 1 .. 1 + Count : (<<x>> \o Items)[i] = IF i <= 1 THEN <<x>>[i] ELSE Items[i - 1]
    BY <1>4, <2>1, ConcatProperties
  <2>3. \A i \in 1 .. Len(Items') : Items'[i] = (<<x>> \o Items)[i]
    <3> TAKE i \in 1 .. Len(Items')
    <3>1. CASE i = 1
      BY <3>1, <1>3, <1>4, <2>1, <2>2
    <3>2. CASE i # 1
      <4>1. i - 1 \in 1 .. Count /\ (i - 1) + 1 = i
        BY <3>2, <1>4
      <4> QED
        BY <4>1, <1>2, <1>4, <2>2
    <3> QED
      BY <3>1, <3>2
  <2> QED
    BY <1>4, <2>2, <2>3, SeqEqual
<1>6. Len(Items) < Size
  BY <1>4, QueueAssumption DEF PutLifo, IsFull, RingInv, TypeOK, Count
<1> QED
  BY <1>5, <1>6 DEF Deque!PutFront, PutLifo

(* nqueue_get takes the first item. *)
LEMMA GetTakesFirst ==
    ASSUME RingInv, Get, RingInv'
    PROVE  Deque!TakeFirst
<1>0. ItemsShape /\ ItemsShape' /\ Items # << >> /\ Count \in Nat \ {0}
  BY ItemsTyped, ItemsTypedNext, QueueAssumption
     DEF Get, ItemsShape, IsEmpty, Count, RingInv, TypeOK
<1>1. /\ Count' = Count - 1 /\ SlotOf(1) = tail /\ buf' = buf
      /\ \A i \in 1 .. Count - 1 : SlotOf(i)' = SlotOf(i + 1)
  BY <1>0, QueueAssumption DEF Get, RingInv, TypeOK, Count, SlotOf, Slot, Masked
<1>2. /\ Items \in Seq(Item) /\ Len(Items) = Count
      /\ Items' \in Seq(Item) /\ Len(Items') = Count - 1
  BY <1>0, <1>1 DEF ItemsShape
<1>3. \A i \in 1 .. Count - 1 : Items'[i] = Items[i + 1]
  <2> TAKE i \in 1 .. Count - 1
  <2>1. i \in 1 .. Count' /\ i + 1 \in 1 .. Count /\ SlotOf(i)' = SlotOf(i + 1)
    BY <1>0, <1>1
  <2> QED
    BY <1>1, <2>1 DEF Items
<1>4. /\ Tail(Items) \in Seq(Item) /\ Len(Tail(Items)) = Count - 1
      /\ \A i \in 1 .. Len(Tail(Items)) : Tail(Items)[i] = Items[i + 1]
  BY <1>0, <1>2, HeadTailProperties
<1>5. Items' = Tail(Items)
  BY <1>2, <1>3, <1>4, SeqEqual
<1>6. result' = Head(Items)
  <2>1. Head(Items) = Items[1]
    BY <1>0, <1>2
  <2>2. Items[1] = buf[SlotOf(1)]
    BY <1>0 DEF ItemsShape
  <2> QED
    BY <1>1, <2>1, <2>2 DEF Get
<1> QED
  BY <1>0, <1>5, <1>6 DEF Deque!TakeFirst

(* A peek leaves the items alone. *)
LEMMA PeekKeepsItems == UNCHANGED <<buf, head, tail, empty>> => UNCHANGED Items
  BY DEF Items, SlotOf, Count

(* nqueue_head shows the last item. *)
LEMMA PeekHeadSeesLast ==
    ASSUME RingInv, PeekHead
    PROVE  Deque!SeeLast
<1>0. ItemsShape /\ Items # << >> /\ Count \in Nat \ {0}
  BY ItemsTyped, QueueAssumption DEF PeekHead, ItemsShape, IsEmpty, Count, RingInv, TypeOK
<1>1. Masked(head - 1) = SlotOf(Count)
  BY <1>0, QueueAssumption
     DEF RingInv, TypeOK, IndicesAgree, Count, SlotOf, Slot, Masked
<1>2. Items[Len(Items)] = buf[SlotOf(Count)]
  BY <1>0 DEF ItemsShape
<1> QED
  BY <1>0, <1>1, <1>2, PeekKeepsItems DEF PeekHead, Deque!SeeLast

(* nqueue_tail shows the first item. *)
LEMMA PeekTailSeesFirst ==
    ASSUME RingInv, PeekTail
    PROVE  Deque!SeeFirst
<1>0. ItemsShape /\ Items # << >> /\ Count \in Nat \ {0}
  BY ItemsTyped, QueueAssumption DEF PeekTail, ItemsShape, IsEmpty, Count, RingInv, TypeOK
<1>1. SlotOf(1) = tail
  BY QueueAssumption DEF RingInv, TypeOK, SlotOf, Slot
<1>2. Items[1] = buf[SlotOf(1)]
  BY <1>0 DEF ItemsShape
<1> QED
  BY <1>0, <1>1, <1>2, PeekKeepsItems DEF PeekTail, Deque!SeeFirst

(* The ring buffer implements a bounded sequence that grows at both ends   *)
(* and shrinks at the front, whatever mix of operations has wrapped its    *)
(* indices.                                                                *)
THEOREM RingIsDeque == Spec => ImplementsDeque
<1>1. Init => Deque!Init
  <2> SUFFICES ASSUME Init PROVE Deque!Init
    OBVIOUS
  <2>1. ItemsShape /\ IsEmpty
    BY InitRing, ItemsTyped DEF Init, IsEmpty
  <2> QED
    BY <2>1 DEF ItemsShape, Deque!Init, Init
<1>2. RingInv /\ RingInv' /\ [Next]_vars => [Deque!Next]_(Deque!vars)
  <2> SUFFICES ASSUME RingInv, RingInv', [Next]_vars
               PROVE  [Deque!Next]_(Deque!vars)
    OBVIOUS
  <2>1. ASSUME NEW x \in Item, PutFifo(x) PROVE Deque!Next
    BY <2>1, PutFifoAppends DEF Deque!Next
  <2>2. ASSUME NEW x \in Item, PutLifo(x) PROVE Deque!Next
    BY <2>2, PutLifoPrepends DEF Deque!Next
  <2>3. CASE Get
    BY <2>3, GetTakesFirst DEF Deque!Next
  <2>4. CASE PeekHead
    BY <2>4, PeekHeadSeesLast DEF Deque!Next
  <2>5. CASE PeekTail
    BY <2>5, PeekTailSeesFirst DEF Deque!Next
  <2>6. CASE UNCHANGED vars
    BY <2>6, PeekKeepsItems DEF vars, Deque!vars
  <2> QED
    BY <2>1, <2>2, <2>3, <2>4, <2>5, <2>6 DEF Next
<1> QED
  BY <1>1, <1>2, RingInvariant, PTL DEF Spec, ImplementsDeque, Deque!Spec
================================================================================
