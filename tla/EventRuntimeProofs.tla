-------------------------- MODULE EventRuntimeProofs --------------------------
(***************************************************************************)
(* Proofs about EventRuntime for every set of agents, contexts, events,    *)
(* priorities and queue sizes: the dispatch of events and the run queue,   *)
(* then the reference counters of the events.                              *)
(***************************************************************************)
EXTENDS EventRuntime, SequenceTheorems, FiniteSetTheorems, FunctionTheorems, WellFoundedInduction, TLAPS

--------------------------------------------------------------------------------
(* The run queue                                                           *)

(* prio_queue_insert: an unlinked thread is linked, nothing else changes. *)
LEMMA AppendLinked ==
    ASSUME NEW T, NEW s \in Seq(T), NEW t \in T
    PROVE  /\ Append(s, t) \in Seq(T)
           /\ \A u : Linked(Append(s, t), u) <=> Linked(s, u) \/ u = t
           /\ Distinct(s) /\ ~Linked(s, t) => Distinct(Append(s, t))
<1>1. /\ Append(s, t) \in Seq(T)
      /\ Len(Append(s, t)) = Len(s) + 1
      /\ \A i \in 1 .. Len(s) : Append(s, t)[i] = s[i]
      /\ Append(s, t)[Len(s) + 1] = t
  BY AppendProperties
<1>2. Len(s) \in Nat
  BY LenProperties
<1>3. \A u : Linked(Append(s, t), u) <=> Linked(s, u) \/ u = t
  BY <1>1, <1>2 DEF Linked
<1>4. ASSUME Distinct(s), ~Linked(s, t)
      PROVE  Distinct(Append(s, t))
  BY <1>1, <1>2, <1>4 DEF Linked, Distinct
<1> QED
  BY <1>1, <1>3, <1>4

(* prio_queue_remove: the thread is unlinked, nothing else changes. *)
LEMMA UnlinkLinked ==
    ASSUME NEW T, NEW s \in Seq(T), NEW t, Linked(s, t), Distinct(s)
    PROVE  /\ Unlink(s, t) \in Seq(T)
           /\ \A u : Linked(Unlink(s, t), u) <=> Linked(s, u) /\ u # t
           /\ Distinct(Unlink(s, t))
<1> DEFINE i == CHOOSE k \in 1 .. Len(s) : s[k] = t
<1> DEFINE r == Unlink(s, t)
<1>1. Len(s) \in Nat /\ \A k \in 1 .. Len(s) : s[k] \in T
  BY LenProperties, ElementOfSeq
<1>2. i \in 1 .. Len(s) /\ s[i] = t
  BY DEF Linked
<1>3. r = [j \in 1 .. Len(s) - 1 |-> IF j < i THEN s[j] ELSE s[j + 1]]
  BY DEF Unlink
<1> HIDE DEF i, r
<1>4. r \in Seq(T) /\ Len(r) = Len(s) - 1
  <2>1. Len(s) - 1 \in Nat
    BY <1>1, <1>2
  <2>2. \A j \in 1 .. Len(s) - 1 : (IF j < i THEN s[j] ELSE s[j + 1]) \in T
    BY <1>1, <1>2
  <2>3. r \in [1 .. Len(s) - 1 -> T]
    BY <2>2, <1>3
  <2> QED
    BY <2>1, <2>3, IsASeq, LenProperties, <1>3
<1>5. \A j \in 1 .. Len(r) :
          r[j] = IF j < i THEN s[j] ELSE s[j + 1]
  BY <1>3, <1>4
<1>6. ASSUME NEW u
      PROVE  Linked(r, u) <=> Linked(s, u) /\ u # t
  <2>1. ASSUME Linked(r, u)
        PROVE  Linked(s, u) /\ u # t
    <3>1. PICK j \in 1 .. Len(r) : r[j] = u
      BY <2>1 DEF Linked
    <3>2. CASE j < i
      BY <3>1, <3>2, <1>1, <1>2, <1>4, <1>5 DEF Linked, Distinct
    <3>3. CASE ~(j < i)
      BY <3>1, <3>3, <1>1, <1>2, <1>4, <1>5 DEF Linked, Distinct
    <3> QED
      BY <3>2, <3>3
  <2>2. ASSUME Linked(s, u), u # t
        PROVE  Linked(r, u)
    <3>1. PICK k \in 1 .. Len(s) : s[k] = u
      BY <2>2 DEF Linked
    <3>2. k # i
      BY <3>1, <1>2, <2>2
    <3>3. CASE k < i
      BY <3>1, <3>3, <1>1, <1>2, <1>4, <1>5 DEF Linked
    <3>4. CASE k > i
      <4>1. k - 1 \in 1 .. Len(r) /\ r[k - 1] = s[k]
        BY <3>1, <3>4, <1>1, <1>2, <1>4, <1>5
      <4> QED
        BY <4>1, <3>1 DEF Linked
    <3> QED
      BY <3>2, <3>3, <3>4, <1>1, <1>2
  <2> QED
    BY <2>1, <2>2
<1>7. Distinct(r)
  BY <1>1, <1>2, <1>4, <1>5 DEF Distinct
<1> QED
  BY <1>4, <1>6, <1>7 DEF r

(* bitmap_get_highest: when some bucket is used there is a highest one. *)
LEMMA HighestUsedProperties ==
    ASSUME NEW M \in Nat, NEW rq, DOMAIN rq = 0 .. M,
           \E p \in 0 .. M : rq[p] # << >>
    PROVE  /\ HighestUsed(rq) \in 0 .. M
           /\ rq[HighestUsed(rq)] # << >>
           /\ \A q \in 0 .. M : rq[q] # << >> => q <= HighestUsed(rq)
<1> DEFINE D == {n \in 0 .. M : rq[M - n] # << >>}
<1>1. D \subseteq Nat /\ D # {}
  <2>1. PICK p \in 0 .. M : rq[p] # << >>
    OBVIOUS
  <2>2. M - p \in 0 .. M /\ M - (M - p) = p
    OBVIOUS
  <2> QED
    BY <2>1, <2>2
<1>2. PICK n \in D : \A m \in D : ~(<<m, n>> \in OpToRel(<, Nat))
  BY <1>1, WFMin, NatLessThanWellFounded
<1>3. \A m \in D : ~(m < n)
  BY <1>1, <1>2 DEF OpToRel
<1>4. /\ M - n \in 0 .. M /\ rq[M - n] # << >>
      /\ \A q \in 0 .. M : rq[q] # << >> => q <= M - n
  <2>1. ASSUME NEW q \in 0 .. M, rq[q] # << >>
        PROVE  q <= M - n
    <3>1. M - q \in D
      <4>1. M - (M - q) = q /\ M - q \in 0 .. M
        OBVIOUS
      <4> QED
        BY <4>1, <2>1
    <3>2. ~(M - q < n)
      BY <3>1, <1>3
    <3>3. n \in 0 .. M
      OBVIOUS
    <3> QED
      BY <3>2, <3>3
  <2> QED
    BY <2>1
<1>5. \E p \in DOMAIN rq : rq[p] # << >> /\ \A q \in DOMAIN rq : rq[q] # << >> => q <= p
  BY <1>4
<1> QED
  BY <1>5 DEF HighestUsed

--------------------------------------------------------------------------------
(* The dispatch of events                                                  *)

(* A step that inserts or removes keeps run queue and counts in agreement. *)
RunqTypeOK ==
    /\ runq \in [0 .. MaxPrio -> Seq(Thread)]
    /\ thref \in [Thread -> Nat]

(* Every thread's priority is a bucket of the run queue. *)
LEMMA PrioInRange == \A t \in Thread : PrioOf(t) \in 0 .. MaxPrio
  BY RuntimeAssumption DEF Thread, PrioOf

(* nthread_insert_i keeps exactly the referenced threads in the run queue. *)
LEMMA InsertKeepsRunq ==
    ASSUME NEW t \in Thread, RunqTypeOK, ReadyIffReferenced, ThreadInsert(t)
    PROVE  /\ RunqTypeOK' /\ ReadyIffReferenced'
           /\ thref' = [thref EXCEPT ![t] = @ + 1]
<1> DEFINE q == PrioOf(t)
<1> USE DEF RunqTypeOK
<1>1. q \in 0 .. MaxPrio
  BY PrioInRange
<1>2. thref' = [thref EXCEPT ![t] = @ + 1] /\ thref' \in [Thread -> Nat]
  BY DEF ThreadInsert
<1>3. CASE thref[t] = 0
  <2>1. runq' = [runq EXCEPT ![q] = Append(runq[q], t)]
    BY <1>1, <1>3 DEF ThreadInsert, RqInsert
  <2>2. ~Linked(runq[q], t) /\ Distinct(runq[q]) /\ runq[q] \in Seq(Thread)
    BY <1>1, <1>3 DEF ReadyIffReferenced
  <2>3. /\ Append(runq[q], t) \in Seq(Thread)
        /\ \A u : Linked(Append(runq[q], t), u) <=> Linked(runq[q], u) \/ u = t
        /\ Distinct(Append(runq[q], t))
    BY <2>2, AppendLinked
  <2>4. runq' \in [0 .. MaxPrio -> Seq(Thread)]
    BY <2>1, <2>3, <1>1
  <2>5. ReadyIffReferenced'
    <3> SUFFICES ASSUME NEW p \in 0 .. MaxPrio
                 PROVE  /\ \A u \in Thread :
                             Linked(runq'[p], u) <=> thref'[u] > 0 /\ PrioOf(u) = p
                        /\ Distinct(runq'[p])
      BY DEF ReadyIffReferenced, PrioOf
    <3>1. CASE p = q
      BY <3>1, <2>1, <2>3, <1>1, <1>2, <1>3 DEF ReadyIffReferenced
    <3>2. CASE p # q
      BY <3>2, <2>1, <1>1, <1>2, <1>3 DEF ReadyIffReferenced
    <3> QED
      BY <3>1, <3>2
  <2> QED
    BY <2>4, <2>5, <1>2
<1>4. CASE thref[t] # 0
  <2>1. runq' = runq
    BY <1>4 DEF ThreadInsert
  <2>2. ReadyIffReferenced'
    BY <2>1, <1>2, <1>4 DEF ReadyIffReferenced, PrioOf
  <2> QED
    BY <2>1, <2>2, <1>2
<1> QED
  BY <1>3, <1>4

(* nthread_remove_i does so too, given a reference to give back. *)
LEMMA RemoveKeepsRunq ==
    ASSUME NEW t \in Thread, RunqTypeOK, ReadyIffReferenced, ThreadRemove(t),
           thref[t] > 0
    PROVE  /\ RunqTypeOK' /\ ReadyIffReferenced'
           /\ thref' = [thref EXCEPT ![t] = @ - 1]
<1> DEFINE q == PrioOf(t)
<1> USE DEF RunqTypeOK
<1>1. q \in 0 .. MaxPrio
  BY PrioInRange
<1>2. thref' = [thref EXCEPT ![t] = @ - 1] /\ thref' \in [Thread -> Nat]
  BY DEF ThreadRemove
<1>3. CASE thref[t] = 1
  <2>1. runq' = [runq EXCEPT ![q] = Unlink(runq[q], t)]
    BY <1>1, <1>3 DEF ThreadRemove, RqRemove
  <2>2. Linked(runq[q], t) /\ Distinct(runq[q]) /\ runq[q] \in Seq(Thread)
    BY <1>1, <1>3 DEF ReadyIffReferenced
  <2>3. /\ Unlink(runq[q], t) \in Seq(Thread)
        /\ \A u : Linked(Unlink(runq[q], t), u) <=> Linked(runq[q], u) /\ u # t
        /\ Distinct(Unlink(runq[q], t))
    BY <2>2, UnlinkLinked
  <2>4. runq' \in [0 .. MaxPrio -> Seq(Thread)]
    BY <2>1, <2>3, <1>1
  <2>5. ReadyIffReferenced'
    <3> SUFFICES ASSUME NEW p \in 0 .. MaxPrio
                 PROVE  /\ \A u \in Thread :
                             Linked(runq'[p], u) <=> thref'[u] > 0 /\ PrioOf(u) = p
                        /\ Distinct(runq'[p])
      BY DEF ReadyIffReferenced, PrioOf
    <3>1. CASE p = q
      BY <3>1, <2>1, <2>3, <1>1, <1>2, <1>3 DEF ReadyIffReferenced
    <3>2. CASE p # q
      BY <3>2, <2>1, <1>1, <1>2, <1>3 DEF ReadyIffReferenced
    <3> QED
      BY <3>1, <3>2
  <2> QED
    BY <2>4, <2>5, <1>2
<1>4. CASE thref[t] # 1
  <2>1. runq' = runq
    BY <1>4 DEF ThreadRemove
  <2>2. ReadyIffReferenced'
    BY <2>1, <1>2, <1>4 DEF ReadyIffReferenced, PrioOf
  <2> QED
    BY <2>1, <2>2, <1>2
<1> QED
  BY <1>3, <1>4

(* The idle thread is always ready, so there is a thread to pick, and the  *)
(* one picked has a reference and is linked in the bucket of its priority. *)
LEMMA PeekedIsReady ==
    ASSUME RunqTypeOK, ReadyIffReferenced, thref[Idle] = 1
    PROVE  LET t == RqPeek(runq) IN
           t \in Thread /\ thref[t] > 0 /\ Linked(runq[PrioOf(t)], t)
<1> DEFINE t == RqPeek(runq)
<1> DEFINE h == HighestUsed(runq)
<1> USE DEF RunqTypeOK
<1>1. Idle \in Thread /\ PrioOf(Idle) = 0 /\ MaxPrio \in Nat
  BY RuntimeAssumption DEF Thread, PrioOf
<1>2. Linked(runq[0], Idle)
  BY <1>1 DEF ReadyIffReferenced
<1>3. runq[0] # << >>
  BY <1>2, <1>1, EmptySeq DEF Linked
<1>4. h \in 0 .. MaxPrio /\ runq[h] # << >>
  <2>1. \E p \in 0 .. MaxPrio : runq[p] # << >>
    BY <1>1, <1>3
  <2>2. DOMAIN runq = 0 .. MaxPrio
    OBVIOUS
  <2> QED
    BY <1>1, <2>1, <2>2, HighestUsedProperties
<1>5. t = Head(runq[h])
  BY DEF RqPeek
<1> HIDE DEF h, t
<1>6. Linked(runq[h], t) /\ t \in Thread
  <2>1. runq[h] \in Seq(Thread)
    BY <1>4
  <2>2. Len(runq[h]) \in Nat /\ Len(runq[h]) # 0
    BY <2>1, <1>4, LenProperties, EmptySeq
  <2>3. t = runq[h][1] /\ t \in Thread
    BY <1>4, <1>5, <2>1
  <2> QED
    BY <2>2, <2>3 DEF Linked
<1>7. thref[t] > 0 /\ PrioOf(t) = h
  BY <1>4, <1>6 DEF ReadyIffReferenced
<1> QED
  BY <1>6, <1>7 DEF t

(* sched_schedule_i: rotating the picked thread changes only its place. *)
LEMMA PickKeepsRunq ==
    ASSUME NEW t \in Thread, RunqTypeOK, ReadyIffReferenced, thref[Idle] = 1,
           PickThread(t), thref' = thref
    PROVE  RunqTypeOK' /\ ReadyIffReferenced' /\ thref[t] > 0 /\ current' = t
<1> DEFINE q == PrioOf(t)
<1> USE DEF RunqTypeOK
<1>1. q \in 0 .. MaxPrio
  BY PrioInRange
<1>2. current' = t
  BY DEF PickThread
<1>3. thref[t] > 0 /\ Linked(runq[q], t)
  BY PeekedIsReady DEF PickThread
<1>4. runq' = [runq EXCEPT ![q] = Append(Unlink(runq[q], t), t)]
  BY <1>1 DEF PickThread, RqRotate
<1>5. Linked(runq[q], t) /\ Distinct(runq[q]) /\ runq[q] \in Seq(Thread)
  BY <1>1, <1>3 DEF ReadyIffReferenced
<1>6. /\ Unlink(runq[q], t) \in Seq(Thread)
      /\ \A u : Linked(Unlink(runq[q], t), u) <=> Linked(runq[q], u) /\ u # t
      /\ Distinct(Unlink(runq[q], t))
  BY <1>5, UnlinkLinked
<1> DEFINE s == Append(Unlink(runq[q], t), t)
<1>7. /\ s \in Seq(Thread)
      /\ \A u : Linked(s, u) <=> Linked(Unlink(runq[q], t), u) \/ u = t
      /\ Distinct(s)
  BY <1>6, AppendLinked
<1>8. \A u : Linked(s, u) <=> Linked(runq[q], u)
  BY <1>5, <1>6, <1>7
<1>9. runq' = [runq EXCEPT ![q] = s] /\ runq' \in [0 .. MaxPrio -> Seq(Thread)]
  BY <1>4, <1>7, <1>1
<1> HIDE DEF s
<1>10. ReadyIffReferenced'
  <2> SUFFICES ASSUME NEW p \in 0 .. MaxPrio
               PROVE  /\ \A u \in Thread :
                           Linked(runq'[p], u) <=> thref'[u] > 0 /\ PrioOf(u) = p
                      /\ Distinct(runq'[p])
    BY DEF ReadyIffReferenced, PrioOf
  <2>1. CASE p = q
    BY <2>1, <1>1, <1>7, <1>8, <1>9 DEF ReadyIffReferenced
  <2>2. CASE p # q
    BY <2>2, <1>1, <1>9 DEF ReadyIffReferenced
  <2> QED
    BY <2>1, <2>2
<1> QED
  BY <1>2, <1>3, <1>9, <1>10

--------------------------------------------------------------------------------
(* Steps of application code.                                              *)


(* What a send may do to the counts: an event that enters the queue of an  *)
(* agent is matched by one more reference to its thread.                   *)
SendEffect ==
    /\ mem' \in [Block -> {"free", "used"}]
    /\ ref' \in [Block -> Int]
    /\ queue' \in [Epa -> Seq(EventPtr)]
    /\ \A f \in Epa : Len(queue'[f]) <= QueueSize
    /\ RunqTypeOK' /\ ReadyIffReferenced'
    /\ \A f \in Epa : /\ thref'[f] - Len(queue'[f]) = thref[f] - Len(queue[f])
                      /\ thref'[f] >= thref[f]
    /\ thref'[Idle] = thref[Idle]

(* What the type invariant says of counts, queues and threads, as numbers. *)
LEMMA TypedCounts ==
    ASSUME TypeOK
    PROVE  /\ RunqTypeOK
           /\ \A e \in Epa : Len(queue[e]) \in Nat /\ Len(deferq[e]) \in Nat
           /\ \A e \in Epa : thref[e] \in Nat /\ e \in Thread /\ e # Idle
           /\ Idle \in Thread /\ thref[Idle] \in Nat
  BY RuntimeAssumption, LenProperties DEF TypeOK, RunqTypeOK, Thread

(* An event put into the queue of agent e along with nthread_insert_i. *)
LEMMA EnqueueEffect ==
    ASSUME TypeOK, ReadyIffReferenced, NEW e \in Epa, NEW s \in Seq(EventPtr),
           Len(s) = Len(queue[e]) + 1, Len(s) <= QueueSize,
           queue' = [queue EXCEPT ![e] = s], ThreadInsert(e),
           mem' \in [Block -> {"free", "used"}], ref' \in [Block -> Int]
    PROVE  SendEffect
<1>1. /\ RunqTypeOK' /\ ReadyIffReferenced'
      /\ thref' = [thref EXCEPT ![e] = @ + 1]
  BY InsertKeepsRunq, TypedCounts
<1>2. queue' \in [Epa -> Seq(EventPtr)] /\ \A f \in Epa : Len(queue'[f]) <= QueueSize
  BY DEF TypeOK
<1>3. \A f \in Epa : /\ thref'[f] - Len(queue'[f]) = thref[f] - Len(queue[f])
                     /\ thref'[f] >= thref[f]
  <2> TAKE f \in Epa
  <2>1. CASE f = e
    <3>1. thref'[f] = thref[f] + 1 /\ Len(queue'[f]) = Len(queue[f]) + 1
      BY <2>1, <1>1, TypedCounts DEF RunqTypeOK, TypeOK
    <3> QED
      BY <3>1, TypedCounts
  <2>2. CASE f # e
    <3>1. thref'[f] = thref[f] /\ queue'[f] = queue[f]
      BY <2>2, <1>1, TypedCounts DEF RunqTypeOK, TypeOK
    <3> QED
      BY <3>1, TypedCounts
  <2> QED
    BY <2>1, <2>2
<1>4. thref'[Idle] = thref[Idle]
  BY <1>1, TypedCounts DEF RunqTypeOK
<1> QED
  BY <1>1, <1>2, <1>3, <1>4 DEF SendEffect

(* A send that leaves queues and threads alone. *)
LEMMA RefusedEffect ==
    ASSUME TypeOK, ReadyIffReferenced, UNCHANGED <<queue, threadVars>>,
           mem' \in [Block -> {"free", "used"}], ref' \in [Block -> Int]
    PROVE  SendEffect
<1>1. RunqTypeOK' /\ ReadyIffReferenced'
  BY TypedCounts DEF RunqTypeOK, threadVars, ReadyIffReferenced, PrioOf
<1> QED
  BY <1>1, TypedCounts DEF SendEffect, TypeOK, threadVars

(* Counting a reference up or down keeps the type of the counters. *)
LEMMA RefTyped ==
    ASSUME EventTypeOK, NEW r \in [Block -> Int], NEW ev \in EventPtr
    PROVE  /\ RefUp(r, ev) \in [Block -> Int]
           /\ RefDown(r, ev) \in [Block -> Int]
           /\ Destroy(mem, r, ev) \in [Block -> {"free", "used"}]
  BY DEF EventTypeOK, RefUp, RefDown, Destroy, Unreferenced

(* nepa_send_event_i and nepa_send_event_ahead_i, whatever their outcome. *)
LEMMA SendEventEffect ==
    ASSUME TypeOK, ReadyIffReferenced, NEW e \in Epa, NEW ev \in EventPtr,
           SendEvent_i(e, ev) \/ SendEventAhead_i(e, ev)
    PROVE  SendEffect
<1>1. EventTypeOK /\ ref \in [Block -> Int] /\ mem \in [Block -> {"free", "used"}]
  BY DEF TypeOK, EventTypeOK
<1>2. queue[e] \in Seq(EventPtr) /\ Len(queue[e]) \in Nat /\ QueueSize \in Nat
  BY TypedCounts, RuntimeAssumption DEF TypeOK
<1>3. /\ Append(queue[e], ev) \in Seq(EventPtr)
      /\ Len(Append(queue[e], ev)) = Len(queue[e]) + 1
  BY <1>2, AppendProperties
<1>4. /\ <<ev>> \o queue[e] \in Seq(EventPtr)
      /\ Len(<<ev>> \o queue[e]) = Len(queue[e]) + 1
  BY <1>2, ConcatProperties
<1>5. /\ RefUp(ref, ev) \in [Block -> Int]
      /\ RefDown(RefUp(ref, ev), ev) \in [Block -> Int]
      /\ \A r \in [Block -> Int] : Destroy(mem, r, ev) \in [Block -> {"free", "used"}]
  BY <1>1, RefTyped
<1>6. CASE UNCHANGED <<queue, threadVars>>
  <2>1. mem' \in [Block -> {"free", "used"}] /\ ref' \in [Block -> Int]
    BY <1>1, <1>5 DEF SendEvent_i, SendEventAhead_i
  <2> QED
    BY <2>1, <1>6, RefusedEffect
<1>7. CASE ~UNCHANGED <<queue, threadVars>>
  <2>1. /\ HasRoom(e) /\ ThreadInsert(e) /\ UNCHANGED mem /\ ref' = RefUp(ref, ev)
        /\ \/ queue' = [queue EXCEPT ![e] = Append(queue[e], ev)]
           \/ queue' = [queue EXCEPT ![e] = <<ev>> \o queue[e]]
    BY <1>7 DEF SendEvent_i, SendEventAhead_i
  <2>2. Len(queue[e]) + 1 <= QueueSize
    BY <2>1, <1>2 DEF HasRoom
  <2> QED
    BY <2>1, <2>2, <1>1, <1>3, <1>4, <1>5, EnqueueEffect
<1> QED
  BY <1>6, <1>7

(* A step that makes such a send, or none, and neither starts nor ends a   *)
(* registration or a dispatch, keeps SchedInv.                             *)
LEMMA ClientKeepsSchedInv ==
    ASSUME SchedInv, TypeOK', LocalsOK', SendEffect,
           UNCHANGED <<loopVars, vf>>,
           \A c \in Ctx : /\ cpc'[c] = "register" <=> cpc[c] = "register"
                          /\ cpc[c] = "register" => arg'[c] = arg[c]
    PROVE  SchedInv'
<1>1. RegisteredOnce'
  BY DEF SchedInv, RegisteredOnce
<1>2. \A e \in Epa : Registering(e)' <=> Registering(e)
  BY DEF Registering
<1>3. InServiceIsReady'
  <2>1. pc \in {"init", "handle", "destroy"} => current \in Epa
    BY DEF SchedInv, LocalsOK
  <2>2. \A e \in Epa : thref'[e] \in Nat /\ thref[e] \in Nat /\ thref'[e] >= thref[e]
    BY TypedCounts DEF SchedInv, SendEffect, RunqTypeOK, Thread
  <2> QED
    BY <2>1, <2>2 DEF SchedInv, SendEffect, InServiceIsReady, loopVars
<1>4. DispatchesOwed'
  <2> SUFFICES ASSUME NEW e \in Epa
               PROVE  thref'[e] = Len(queue'[e]) + Owed(e)'
    BY DEF DispatchesOwed
  <2>1. /\ thref[e] = Len(queue[e]) + Owed(e)
        /\ thref'[e] - Len(queue'[e]) = thref[e] - Len(queue[e])
    BY DEF SchedInv, DispatchesOwed, SendEffect
  <2>2. Owed(e)' = Owed(e) /\ Owed(e) \in Int
    <3>1. B2N(Registering(e)') = B2N(Registering(e)) /\ B2N(Registering(e)) \in Int
      BY <1>2 DEF B2N
    <3>2. (Serving(e)' <=> Serving(e)) /\ vf' = vf
      BY DEF Serving, loopVars
    <3> QED
      BY <3>1, <3>2 DEF Owed, B2N
  <2>3. /\ thref[e] \in Nat /\ thref'[e] \in Nat
        /\ Len(queue[e]) \in Nat /\ Len(queue'[e]) \in Nat
    BY TypedCounts, LenProperties DEF SchedInv, SendEffect, RunqTypeOK, Thread
  <2> QED
    BY <2>1, <2>2, <2>3
<1> QED
  BY <1>1, <1>3, <1>4 DEF SchedInv, SendEffect

(* A client step that leaves queues and threads alone. *)
LEMMA NoSendEffect ==
    ASSUME SchedInv, TypeOK', UNCHANGED <<queue, threadVars>>
    PROVE  SendEffect
<1>1. mem' \in [Block -> {"free", "used"}] /\ ref' \in [Block -> Int]
  BY DEF TypeOK, EventTypeOK
<1> QED
  BY <1>1, RefusedEffect DEF SchedInv

(* The three sends of application code. *)
LEMMA SendStep ==
    ASSUME SchedInv, NEW c \in Ctx, NEW e \in Epa, NEW ev \in EventPtr,
           SendEvent(c, e, ev) \/ SendEventAhead(c, e, ev)
    PROVE  SchedInv'
<1>1. SendEffect
  BY SendEventEffect DEF SchedInv, SendEvent, SendEventAhead
<1>2. UNCHANGED <<attrib, loopVars, cpc, arg, vf, deferq>> /\ cpc[c] = "ready"
  BY DEF SendEvent, SendEventAhead, Calling
<1>3. own' = own \/ own' = [own EXCEPT ![c] = NoEvent]
  BY DEF SendEvent, SendEventAhead, HandOver
<1>4. TypeOK'
  BY <1>1, <1>2, <1>3
  DEF SchedInv, TypeOK, EventTypeOK, SendEffect, RunqTypeOK, loopVars, EventPtr, Thread
<1>5. LocalsOK'
  BY <1>2, <1>3 DEF SchedInv, LocalsOK, TypeOK, loopVars
<1> QED
  BY <1>1, <1>2, <1>4, <1>5, ClientKeepsSchedInv

(* nepa_send_signal: the send of an event it has created itself. *)
LEMMA SignalStep ==
    ASSUME SchedInv, NEW c \in Ctx, NEW e \in Epa, SendSignal(c, e)
    PROVE  SchedInv'
<1>1. UNCHANGED <<loopVars, ctxVars, vf, deferq>>
  BY DEF SendSignal
<1>2. PICK b \in Block :
        /\ attrib' = [attrib EXCEPT ![b] = "dynamic"]
        /\ \/ /\ HasRoom(e)
              /\ mem' = [mem EXCEPT ![b] = "used"]
              /\ ref' = [ref EXCEPT ![b] = 1]
              /\ queue' = [queue EXCEPT ![e] = Append(@, b)]
              /\ ThreadInsert(e)
           \/ /\ ~HasRoom(e)
              /\ ref' = [ref EXCEPT ![b] = 0]
              /\ UNCHANGED <<mem, queue, threadVars>>
  BY DEF SendSignal, FreeBlocks
<1>3. /\ mem' \in [Block -> {"free", "used"}]
      /\ ref' \in [Block -> Int]
      /\ attrib' \in [Block -> {"dynamic", "reserved"}]
  <2>1. EventTypeOK
    BY DEF SchedInv, TypeOK
  <2>2. /\ attrib' = [attrib EXCEPT ![b] = "dynamic"]
        /\ mem' = [mem EXCEPT ![b] = "used"] \/ mem' = mem
        /\ ref' = [ref EXCEPT ![b] = 0] \/ ref' = [ref EXCEPT ![b] = 1]
    BY <1>2
  <2> QED
    BY <2>1, <2>2 DEF EventTypeOK
<1>4. SendEffect
  <2>1. CASE HasRoom(e)
    <3>1. /\ queue[e] \in Seq(EventPtr) /\ b \in EventPtr
          /\ Len(queue[e]) \in Nat /\ QueueSize \in Nat
      BY TypedCounts, RuntimeAssumption DEF SchedInv, TypeOK, EventPtr
    <3>2. /\ Append(queue[e], b) \in Seq(EventPtr)
          /\ Len(Append(queue[e], b)) = Len(queue[e]) + 1
      BY <3>1, AppendProperties
    <3>3. Len(queue[e]) + 1 <= QueueSize
      BY <2>1, <3>1 DEF HasRoom
    <3>4. /\ ThreadInsert(e)
          /\ queue' = [queue EXCEPT ![e] = Append(queue[e], b)]
      BY <1>2, <2>1
    <3> QED
      BY <1>3, <3>2, <3>3, <3>4, EnqueueEffect DEF SchedInv
  <2>2. CASE ~HasRoom(e)
    BY <1>2, <1>3, <2>2, RefusedEffect DEF SchedInv
  <2> QED
    BY <2>1, <2>2
<1>5. TypeOK'
  BY <1>1, <1>3, <1>4
  DEF SchedInv, TypeOK, EventTypeOK, SendEffect, RunqTypeOK, loopVars, ctxVars, EventPtr,
      Thread
<1>6. LocalsOK'
  BY <1>1 DEF SchedInv, LocalsOK, loopVars, ctxVars
<1> QED
  BY <1>1, <1>4, <1>5, <1>6, ClientKeepsSchedInv DEF ctxVars

(* A context moves on in its own call and may change its own pointer. *)
LEMMA OwnStep ==
    ASSUME SchedInv, EventTypeOK', NEW c \in Ctx,
           NEW m \in {"ready", "create", "unlock", "release"},
           NEW o \in Block \cup {NoEvent},
           cpc[c] \in {"ready", "create", "unlock", "release"},
           m # "ready" => o \in Block,
           cpc' = [cpc EXCEPT ![c] = m], own' = [own EXCEPT ![c] = o],
           UNCHANGED <<threadVars, loopVars, arg, vf, queue, deferq>>,
           c = Loop => pc \in {"boot", "init", "handle"}
    PROVE  SchedInv'
<1>1. TypeOK'
  BY DEF SchedInv, TypeOK, threadVars, loopVars, EventPtr, Thread
<1>2. LocalsOK'
  <2>1. /\ UNCHANGED <<pc, cur, current>>
        /\ \A d \in Ctx : d # c => cpc'[d] = cpc[d] /\ own'[d] = own[d]
        /\ cpc'[c] = m /\ own'[c] = o
    BY DEF SchedInv, TypeOK, loopVars
  <2> QED
    BY <2>1 DEF SchedInv, LocalsOK, EventPtr
<1>3. SendEffect
  BY <1>1, NoSendEffect
<1>4. \A d \in Ctx : /\ cpc'[d] = "register" <=> cpc[d] = "register"
                     /\ cpc[d] = "register" => arg'[d] = arg[d]
  BY DEF SchedInv, TypeOK
<1> QED
  BY <1>1, <1>2, <1>3, <1>4, ClientKeepsSchedInv

(* Event management by application code. *)
LEMMA EventManagementStep ==
    ASSUME SchedInv, NEW c \in Ctx,
           \/ CreateAlloc(c) \/ CreateInit(c) \/ DestroyOwn(c)
           \/ \E ev \in Block : Reserve(c, ev)
           \/ UnlockClear(c) \/ UnlockTest(c) \/ UnlockRelease(c)
    PROVE  SchedInv'
<1>1. /\ EventTypeOK
      /\ cpc = [cpc EXCEPT ![c] = cpc[c]]
      /\ own = [own EXCEPT ![c] = own[c]] /\ own[c] \in Block \cup {NoEvent}
      /\ cpc[c] \in {"create", "unlock", "release"} => own[c] \in Block
  BY DEF SchedInv, TypeOK, LocalsOK
<1>2. CASE CreateAlloc(c)
  <2>1. PICK b \in Block : mem' = [mem EXCEPT ![b] = "used"] /\ own' = [own EXCEPT ![c] = b]
    BY <1>2 DEF CreateAlloc, FreeBlocks
  <2>2. EventTypeOK'
    BY <1>1, <1>2, <2>1 DEF CreateAlloc, EventTypeOK
  <2> QED
    BY <1>1, <1>2, <2>1, <2>2, OwnStep DEF CreateAlloc, Calling, Running
<1>3. CASE CreateInit(c)
  <2>1. EventTypeOK'
    BY <1>1, <1>3 DEF CreateInit, EventTypeOK
  <2> QED
    BY <1>1, <1>3, <2>1, OwnStep DEF CreateInit, Running
<1>4. CASE DestroyOwn(c)
  <2>1. EventTypeOK'
    BY <1>1, <1>4 DEF DestroyOwn, EventTypeOK, Destroy
  <2> QED
    BY <1>1, <1>4, <2>1, OwnStep DEF DestroyOwn, Calling, Running
<1>5. ASSUME NEW ev \in Block, Reserve(c, ev)
      PROVE  SchedInv'
  <2>1. EventTypeOK'
    BY <1>1, <1>5 DEF Reserve, EventTypeOK
  <2> QED
    BY <1>1, <1>5, <2>1, OwnStep DEF Reserve, Calling, Running
<1>6. CASE UnlockClear(c)
  <2>1. own[c] \in Block
    BY <1>1, <1>6 DEF UnlockClear
  <2>2. EventTypeOK'
    BY <1>1, <1>6 DEF UnlockClear, EventTypeOK
  <2> QED
    BY <1>1, <1>6, <2>1, <2>2, OwnStep DEF UnlockClear, Calling, Running
<1>7. CASE UnlockTest(c)
  <2>1. EventTypeOK' /\ own[c] \in Block
    BY <1>1, <1>7 DEF UnlockTest, EventTypeOK, eventVars
  <2> QED
    BY <1>1, <1>7, <2>1, OwnStep DEF UnlockTest, Running
<1>8. CASE UnlockRelease(c)
  <2>1. EventTypeOK'
    BY <1>1, <1>8 DEF UnlockRelease, EventTypeOK
  <2> QED
    BY <1>1, <1>8, <2>1, OwnStep DEF UnlockRelease, Running
<1> QED
  BY <1>2, <1>3, <1>4, <1>5, <1>6, <1>7, <1>8

(* Deferred events. *)
LEMMA DeferStepKeeps ==
    ASSUME SchedInv, DeferStep
    PROVE  SchedInv'
<1>1. UNCHANGED <<attrib, loopVars, own, vf>> /\ Loop \in Ctx
  BY RuntimeAssumption DEF DeferStep, DeferEvent, FetchGet, FetchSend, ctxVars
<1>2. pc = "handle" /\ current \in Epa /\ cur \in EventPtr
  <2>1. pc = "handle"
    BY <1>1 DEF SchedInv, LocalsOK, DeferStep, DeferEvent, FetchGet, FetchSend
  <2> QED
    BY <2>1 DEF SchedInv, LocalsOK
<1>3. \A d \in Ctx : /\ cpc'[d] = "register" <=> cpc[d] = "register"
                     /\ cpc[d] = "register" => arg'[d] = arg[d]
  BY <1>1 DEF SchedInv, TypeOK, DeferStep, DeferEvent, FetchGet, FetchSend, ctxVars, Calling
<1>4. /\ EventTypeOK /\ deferq[current] \in Seq(EventPtr)
      /\ Len(deferq[current]) \in Nat /\ DeferSize \in Nat
  BY <1>2, TypedCounts, RuntimeAssumption DEF SchedInv, TypeOK
<1>5. CASE DeferEvent
  <2>1. /\ Append(deferq[current], cur) \in Seq(EventPtr)
        /\ Len(Append(deferq[current], cur)) = Len(deferq[current]) + 1
    BY <1>2, <1>4, AppendProperties
  <2>2. deferq' \in [Epa -> Seq(EventPtr)] /\ \A e \in Epa : Len(deferq'[e]) <= DeferSize
    BY <1>2, <1>4, <1>5, <2>1 DEF DeferEvent, SchedInv, TypeOK
  <2>3. EventTypeOK'
    BY <1>2, <1>4, <1>5, RefTyped DEF DeferEvent, EventTypeOK
  <2>4. TypeOK'
    BY <1>5, <2>2, <2>3
    DEF DeferEvent, SchedInv, TypeOK, threadVars, loopVars, ctxVars, EventPtr, Thread
  <2>5. LocalsOK'
    BY <1>5 DEF DeferEvent, SchedInv, LocalsOK, loopVars, ctxVars, EventPtr
  <2>6. SendEffect
    BY <1>5, <2>4, NoSendEffect DEF DeferEvent
  <2> QED
    BY <1>1, <1>3, <2>4, <2>5, <2>6, ClientKeepsSchedInv
<1>6. ASSUME NEW next \in {"fetched", "fetchedAll"}, FetchGet(next)
      PROVE  SchedInv'
  <2>1. /\ Head(deferq[current]) \in EventPtr /\ Tail(deferq[current]) \in Seq(EventPtr)
        /\ Len(Tail(deferq[current])) = Len(deferq[current]) - 1
    BY <1>4, <1>6, HeadTailProperties DEF FetchGet
  <2>2. deferq' \in [Epa -> Seq(EventPtr)] /\ \A e \in Epa : Len(deferq'[e]) <= DeferSize
    <3>1. deferq' = [deferq EXCEPT ![current] = Tail(deferq[current])]
      BY <1>6 DEF FetchGet
    <3>2. Len(deferq[current]) <= DeferSize
      BY <1>2 DEF SchedInv, TypeOK
    <3> QED
      BY <1>2, <1>4, <2>1, <3>1, <3>2 DEF SchedInv, TypeOK
  <2>3. EventTypeOK'
    <3>1. ref' = RefDown(ref, Head(deferq[current])) /\ UNCHANGED <<mem, attrib>>
      BY <1>6 DEF FetchGet
    <3> QED
      BY <1>4, <2>1, <3>1, RefTyped DEF EventTypeOK
  <2>4. arg' = [arg EXCEPT ![Loop] = Head(deferq[current])] /\ cpc' = [cpc EXCEPT ![Loop] = next]
    BY <1>6 DEF FetchGet
  <2>5. TypeOK'
    BY <1>1, <1>6, <2>1, <2>2, <2>3, <2>4
    DEF FetchGet, SchedInv, TypeOK, threadVars, loopVars, EventPtr, Thread
  <2>6. LocalsOK'
    BY <1>1, <1>2, <1>4, <1>6, <2>1, <2>4
    DEF FetchGet, SchedInv, LocalsOK, TypeOK, loopVars, EventPtr
  <2>7. SendEffect
    BY <1>6, <2>5, NoSendEffect DEF FetchGet
  <2> QED
    BY <1>1, <1>3, <2>5, <2>6, <2>7, ClientKeepsSchedInv
<1>7. CASE FetchSend
  <2>1. arg[Loop] \in EventPtr
    BY <1>1, <1>7 DEF FetchSend, SchedInv, LocalsOK
  <2>2. SendEffect
    BY <1>2, <1>7, <2>1, SendEventEffect DEF FetchSend, SchedInv
  <2>3. PICK m \in {"ready", "fetchNext"} : cpc' = [cpc EXCEPT ![Loop] = m]
    BY <1>7 DEF FetchSend
  <2>4. arg' = [arg EXCEPT ![Loop] = NoEvent]
    BY <1>7 DEF FetchSend
  <2>5. TypeOK'
    BY <1>1, <1>7, <2>2, <2>3, <2>4
    DEF FetchSend, SendEffect, SchedInv, TypeOK, EventTypeOK, RunqTypeOK, loopVars, EventPtr,
        Thread
  <2>6. LocalsOK'
    BY <1>1, <1>2, <1>4, <2>3, <2>4 DEF SchedInv, LocalsOK, TypeOK, loopVars, EventPtr
  <2> QED
    BY <1>1, <1>3, <2>2, <2>5, <2>6, ClientKeepsSchedInv
<1> QED
  BY <1>5, <1>6, <1>7 DEF DeferStep

--------------------------------------------------------------------------------
(* Registration.                                                           *)

(* The dispatches owed to an agent are a number. *)
LEMMA OwedIsInt == \A e \in Epa : Owed(e) \in Int
  BY DEF Owed, B2N

(* Between nthread_set_dispatch and nthread_insert_i the NSM_INIT that is  *)
(* owed and the insertion that is still to come cancel out.                *)
LEMMA RegisterSetStep ==
    ASSUME SchedInv, NEW c \in Ctx, NEW e \in Epa, RegisterSet(c, e)
    PROVE  SchedInv'
<1>1. /\ cpc' = [cpc EXCEPT ![c] = "register"] /\ arg' = [arg EXCEPT ![c] = e]
      /\ vf' = [vf EXCEPT ![e] = "init"] /\ vf[e] = "null" /\ cpc[c] = "ready"
      /\ UNCHANGED <<eventVars, threadVars, loopVars, own, queue, deferq>>
      /\ c = Loop => pc \in {"boot", "init", "handle"}
  BY DEF RegisterSet, Calling, Running
<1>2. TypeOK'
  BY <1>1 DEF SchedInv, TypeOK, EventTypeOK, eventVars, threadVars, loopVars, EventPtr,
              Thread
<1>3. /\ UNCHANGED <<pc, cur, current>>
      /\ \A d \in Ctx : d # c => cpc'[d] = cpc[d] /\ arg'[d] = arg[d]
      /\ cpc'[c] = "register" /\ arg'[c] = e /\ vf'[e] = "init"
      /\ \A f \in Epa : f # e => vf'[f] = vf[f]
  BY <1>1 DEF SchedInv, TypeOK, loopVars
<1>4. LocalsOK'
  <2>1. pc \in {"handle", "destroy"} => current # e
    BY <1>1 DEF SchedInv, LocalsOK
  <2> QED
    BY <1>1, <1>3, <2>1 DEF SchedInv, LocalsOK, EventPtr
<1>5. \A d \in Ctx : cpc[d] = "register" => arg[d] # e
  BY <1>1 DEF SchedInv, LocalsOK
<1>6. RegisteredOnce'
  BY <1>3, <1>5 DEF SchedInv, RegisteredOnce
<1>7. InServiceIsReady' /\ ReadyIffReferenced'
  BY <1>1 DEF SchedInv, InServiceIsReady, ReadyIffReferenced, threadVars, loopVars, PrioOf
<1>8. DispatchesOwed'
  <2> SUFFICES ASSUME NEW f \in Epa
               PROVE  Owed(f)' = Owed(f)
    BY <1>1 DEF SchedInv, DispatchesOwed, threadVars
  <2>1. CASE f = e
    <3>1. ~Registering(e) /\ ~Serving(e)
      BY <1>1, <1>5 DEF SchedInv, LocalsOK, Registering, Serving
    <3>2. Registering(e)' /\ ~Serving(e)'
      BY <1>3, <3>1 DEF Registering, Serving
    <3> QED
      BY <1>1, <1>3, <2>1, <3>1, <3>2 DEF Owed, B2N
  <2>2. CASE f # e
    <3>1. Registering(f)' <=> Registering(f)
      BY <1>1, <1>3, <2>2 DEF Registering
    <3>2. Serving(f)' <=> Serving(f)
      BY <1>3 DEF Serving
    <3> QED
      BY <1>3, <2>2, <3>1, <3>2 DEF Owed, B2N
  <2> QED
    BY <2>1, <2>2
<1> QED
  BY <1>2, <1>4, <1>6, <1>7, <1>8 DEF SchedInv

(* nthread_insert_i of nepa_register: the reference owed for NSM_INIT. *)
LEMMA RegisterInsertStep ==
    ASSUME SchedInv, NEW c \in Ctx, RegisterInsert(c)
    PROVE  SchedInv'
<1> DEFINE e == arg[c]
<1>1. /\ cpc' = [cpc EXCEPT ![c] = "ready"] /\ arg' = [arg EXCEPT ![c] = NoEvent]
      /\ cpc[c] = "register" /\ ThreadInsert(e)
      /\ UNCHANGED <<eventVars, loopVars, own, vf, queue, deferq>>
      /\ c = Loop => pc \in {"boot", "init", "handle"}
  BY DEF RegisterInsert, Running
<1>2. e \in Epa /\ e \in Thread /\ e # Idle
  BY <1>1, TypedCounts DEF SchedInv, LocalsOK
<1>3. RunqTypeOK' /\ ReadyIffReferenced' /\ thref' = [thref EXCEPT ![e] = @ + 1]
  BY <1>1, <1>2, InsertKeepsRunq, TypedCounts DEF SchedInv
<1>4. TypeOK'
  BY <1>1, <1>3 DEF SchedInv, TypeOK, EventTypeOK, RunqTypeOK, eventVars, loopVars,
                    EventPtr, Thread
<1>5. /\ UNCHANGED <<pc, cur, current>>
      /\ \A d \in Ctx : d # c => cpc'[d] = cpc[d] /\ arg'[d] = arg[d]
      /\ cpc'[c] = "ready" /\ vf' = vf /\ queue' = queue
  BY <1>1 DEF SchedInv, TypeOK, loopVars
<1>6. LocalsOK'
  BY <1>1, <1>5 DEF SchedInv, LocalsOK, EventPtr
<1>7. RegisteredOnce'
  BY <1>5 DEF SchedInv, RegisteredOnce
<1>8. \A t \in Thread : thref'[t] = IF t = e THEN thref[t] + 1 ELSE thref[t]
  BY <1>3 DEF SchedInv, TypeOK
<1>9. InServiceIsReady'
  <2>1. pc \in {"init", "handle", "destroy"} => current \in Thread
    BY DEF SchedInv, TypeOK
  <2>2. thref \in [Thread -> Nat] /\ Idle \in Thread
    BY TypedCounts DEF SchedInv, TypeOK
  <2> QED
    BY <1>2, <1>5, <1>8, <2>1, <2>2 DEF SchedInv, InServiceIsReady
<1>10. DispatchesOwed'
  <2> SUFFICES ASSUME NEW f \in Epa
               PROVE  thref'[f] = Len(queue[f]) + Owed(f)'
    BY <1>5 DEF DispatchesOwed
  <2>1. /\ thref[f] = Len(queue[f]) + Owed(f) /\ f \in Thread
        /\ thref[f] \in Nat /\ Len(queue[f]) \in Nat /\ Owed(f) \in Int
    BY TypedCounts, OwedIsInt DEF SchedInv, DispatchesOwed
  <2>2. Serving(f)' <=> Serving(f)
    BY <1>5 DEF Serving
  <2>3. CASE f = e
    <3>1. Registering(f) /\ ~Registering(f)'
      BY <1>1, <1>5, <2>3 DEF SchedInv, RegisteredOnce, Registering
    <3>2. Owed(f)' = Owed(f) + 1
      BY <1>5, <2>2, <3>1 DEF Owed, B2N
    <3> QED
      BY <1>8, <2>1, <2>3, <3>2
  <2>4. CASE f # e
    <3>1. Registering(f)' <=> Registering(f)
      BY <1>1, <1>5, <2>4 DEF Registering
    <3>2. Owed(f)' = Owed(f)
      BY <1>5, <2>2, <3>1 DEF Owed, B2N
    <3> QED
      BY <1>8, <2>1, <2>4, <3>2
  <2> QED
    BY <2>3, <2>4
<1> QED
  BY <1>3, <1>4, <1>6, <1>7, <1>9, <1>10 DEF SchedInv

--------------------------------------------------------------------------------
(* The scheduler loop.                                                     *)

(* While the loop is not in application code no call inside it is open. *)
LEMMA LoopIsReady ==
    ASSUME SchedInv, pc \in {"sched", "idle", "destroy"}
    PROVE  cpc[Loop] = "ready"
  BY DEF SchedInv, LocalsOK

(* A loop step that leaves counts, queues and dispatchers alone and        *)
(* neither starts nor ends a dispatch.                                     *)
LEMMA PassiveLoopStep ==
    ASSUME SchedInv, TypeOK', LocalsOK', ReadyIffReferenced',
           UNCHANGED <<thref, queue, vf, ctxVars>>,
           pc' \in {"sched", "idle"}, pc \in {"boot", "idle", "sched"}
    PROVE  SchedInv'
<1>1. RegisteredOnce'
  BY DEF SchedInv, RegisteredOnce, ctxVars
<1>2. InServiceIsReady'
  BY DEF SchedInv, InServiceIsReady
<1>3. ASSUME NEW e \in Epa
      PROVE  Owed(e)' = Owed(e)
  BY DEF Owed, B2N, Serving, Registering, ctxVars
<1>4. DispatchesOwed'
  BY <1>3 DEF SchedInv, DispatchesOwed
<1> QED
  BY <1>1, <1>2, <1>4 DEF SchedInv

(* Picking and leaving the idle thread changes no count. *)
LEMMA IdleStep ==
    ASSUME SchedInv, Start \/ IdleReturn \/ ScheduleIdle
    PROVE  SchedInv'
<1>1. /\ UNCHANGED <<eventVars, thref, ctxVars, cur, vf, queue, deferq>>
      /\ pc \in {"boot", "idle", "sched"} /\ pc' \in {"sched", "idle"}
      /\ cpc[Loop] = "ready"
  BY LoopIsReady DEF Start, IdleReturn, ScheduleIdle, PickThread, threadVars
<1>2. current' \in Thread /\ RunqTypeOK' /\ ReadyIffReferenced'
  <2>1. CASE ScheduleIdle
    <3>1. Idle \in Thread /\ thref[Idle] = 1
      BY TypedCounts DEF SchedInv, InServiceIsReady
    <3> QED
      BY <1>1, <2>1, <3>1, PickKeepsRunq, TypedCounts DEF SchedInv, ScheduleIdle
  <2>2. CASE Start \/ IdleReturn
    <3>1. UNCHANGED <<runq, thref, current>>
      BY <2>2 DEF Start, IdleReturn, threadVars
    <3> QED
      BY <3>1, TypedCounts DEF SchedInv, TypeOK, RunqTypeOK, ReadyIffReferenced, PrioOf
  <2> QED
    BY <2>1, <2>2
<1>3. TypeOK'
  BY <1>1, <1>2 DEF SchedInv, TypeOK, EventTypeOK, RunqTypeOK, eventVars, ctxVars, EventPtr,
                    Thread
<1>4. LocalsOK'
  BY <1>1 DEF SchedInv, LocalsOK, ctxVars, EventPtr
<1> QED
  BY <1>1, <1>2, <1>3, <1>4, PassiveLoopStep

(* Taking a thread of an agent out of sched_schedule_i. *)
LEMMA ScheduleInitStep ==
    ASSUME SchedInv, NEW e \in Epa, ScheduleInit(e)
    PROVE  SchedInv'
<1>1. /\ UNCHANGED <<eventVars, thref, ctxVars, cur, vf, queue, deferq>>
      /\ pc = "sched" /\ pc' = "init" /\ vf[e] = "init" /\ PickThread(e)
      /\ cpc[Loop] = "ready"
  BY LoopIsReady DEF ScheduleInit, PickThread
<1>2. RunqTypeOK' /\ ReadyIffReferenced' /\ thref[e] > 0 /\ current' = e /\ e \in Thread
  BY <1>1, PickKeepsRunq, TypedCounts DEF SchedInv, InServiceIsReady
<1>3. TypeOK'
  BY <1>1, <1>2 DEF SchedInv, TypeOK, EventTypeOK, RunqTypeOK, eventVars, ctxVars, EventPtr,
                    Thread
<1>4. LocalsOK'
  BY <1>1, <1>2 DEF SchedInv, LocalsOK, ctxVars, EventPtr
<1>5. RegisteredOnce' /\ InServiceIsReady'
  BY <1>1, <1>2 DEF SchedInv, RegisteredOnce, InServiceIsReady, ctxVars
<1>6. DispatchesOwed'
  <2>1. ASSUME NEW f \in Epa
        PROVE  Owed(f)' = Owed(f)
    BY <1>1 DEF Owed, B2N, Serving, Registering, ctxVars
  <2> QED
    BY <1>1, <2>1 DEF SchedInv, DispatchesOwed
<1> QED
  BY <1>2, <1>3, <1>4, <1>5, <1>6 DEF SchedInv

(* What is picked for a dispatch has an event in its queue. *)
LEMMA DispatchHasEvent ==
    ASSUME SchedInv, NEW e \in Epa, ScheduleDispatch(e)
    PROVE  queue[e] # << >>
<1>1. pc = "sched" /\ vf[e] = "dispatch" /\ thref' = thref /\ PickThread(e)
  BY DEF ScheduleDispatch, PickThread
<1>2. thref[e] > 0 /\ e \in Thread
  BY <1>1, PickKeepsRunq, TypedCounts DEF SchedInv, InServiceIsReady
<1>3. queue[e] \in Seq(EventPtr) /\ Len(queue[e]) \in Nat /\ thref[e] \in Nat
  BY TypedCounts DEF SchedInv, TypeOK
<1>4. Owed(e) <= 0
  BY <1>1 DEF Owed, B2N, Serving
<1>5. thref[e] = Len(queue[e]) + Owed(e) /\ Owed(e) \in Int
  BY OwedIsInt DEF SchedInv, DispatchesOwed
<1>6. Len(queue[e]) > 0
  BY <1>2, <1>3, <1>4, <1>5
<1> QED
  BY <1>3, <1>6, EmptySeq

(* Taking an event from the queue: what was queued is now in service. *)
LEMMA ScheduleDispatchStep ==
    ASSUME SchedInv, NEW e \in Epa, ScheduleDispatch(e)
    PROVE  SchedInv'
<1>1. /\ UNCHANGED <<eventVars, thref, ctxVars, vf, deferq>>
      /\ pc = "sched" /\ pc' = "handle" /\ vf[e] = "dispatch" /\ PickThread(e)
      /\ cur' = Head(queue[e]) /\ queue' = [queue EXCEPT ![e] = Tail(queue[e])]
      /\ cpc[Loop] = "ready"
  BY LoopIsReady DEF ScheduleDispatch, PickThread
<1>2. RunqTypeOK' /\ ReadyIffReferenced' /\ thref[e] > 0 /\ current' = e /\ e \in Thread
  BY <1>1, PickKeepsRunq, TypedCounts DEF SchedInv, InServiceIsReady
<1>3. /\ queue[e] \in Seq(EventPtr) /\ Len(queue[e]) \in Nat /\ Len(queue[e]) <= QueueSize
      /\ thref[e] \in Nat /\ QueueSize \in Nat
  BY TypedCounts, RuntimeAssumption DEF SchedInv, TypeOK
<1>4. queue[e] # << >>
  BY DispatchHasEvent
<1>5. /\ Head(queue[e]) \in EventPtr /\ Tail(queue[e]) \in Seq(EventPtr)
      /\ Len(Tail(queue[e])) = Len(queue[e]) - 1
  BY <1>3, <1>4, HeadTailProperties
<1>6. /\ queue' \in [Epa -> Seq(EventPtr)]
      /\ \A f \in Epa : Len(queue'[f]) = IF f = e THEN Len(queue[e]) - 1 ELSE Len(queue[f])
  BY <1>1, <1>5 DEF SchedInv, TypeOK
<1>7. \A f \in Epa : Len(queue'[f]) <= QueueSize
  BY <1>3, <1>6 DEF SchedInv, TypeOK
<1>8. TypeOK'
  BY <1>1, <1>2, <1>5, <1>6, <1>7
  DEF SchedInv, TypeOK, EventTypeOK, RunqTypeOK, eventVars, ctxVars, EventPtr, Thread
<1>9. LocalsOK'
  BY <1>1, <1>2, <1>5 DEF SchedInv, LocalsOK, ctxVars, EventPtr
<1>10. RegisteredOnce' /\ InServiceIsReady'
  BY <1>1, <1>2 DEF SchedInv, RegisteredOnce, InServiceIsReady, ctxVars
<1>11. DispatchesOwed'
  <2> SUFFICES ASSUME NEW f \in Epa
               PROVE  thref[f] = Len(queue'[f]) + Owed(f)'
    BY <1>1 DEF DispatchesOwed
  <2>1. /\ thref[f] = Len(queue[f]) + Owed(f)
        /\ Len(queue[f]) \in Nat /\ Owed(f) \in Int
    BY TypedCounts, OwedIsInt DEF SchedInv, DispatchesOwed
  <2>2. CASE f = e
    <3>1. Owed(f)' = Owed(f) + 1
      BY <1>1, <1>2, <2>2 DEF Owed, B2N, Serving, Registering, ctxVars
    <3>2. Len(queue'[f]) = Len(queue[f]) - 1
      BY <1>6, <2>2
    <3> QED
      BY <2>1, <3>1, <3>2
  <2>3. CASE f # e
    <3>1. Owed(f)' = Owed(f)
      BY <1>1, <1>2, <2>3 DEF Owed, B2N, Serving, Registering, ctxVars
    <3>2. Len(queue'[f]) = Len(queue[f])
      BY <1>6, <2>3
    <3> QED
      BY <2>1, <3>1, <3>2
  <2> QED
    BY <2>2, <2>3
<1> QED
  BY <1>2, <1>8, <1>9, <1>10, <1>11 DEF SchedInv

(* The state machine returned; the loop has not taken the lock yet. *)
LEMMA HandlerReturnStep ==
    ASSUME SchedInv, HandlerReturn
    PROVE  SchedInv'
<1>1. /\ UNCHANGED <<mem, attrib, threadVars, cur, current, ctxVars, vf, queue, deferq>>
      /\ pc = "handle" /\ pc' = "destroy" /\ cpc[Loop] = "ready"
      /\ ref' = RefDown(ref, cur) /\ cur \in EventPtr
  BY DEF HandlerReturn, SchedInv, LocalsOK
<1>2. EventTypeOK'
  BY <1>1, RefTyped DEF SchedInv, TypeOK, EventTypeOK
<1>3. TypeOK'
  BY <1>1, <1>2 DEF SchedInv, TypeOK, threadVars, ctxVars, EventPtr, Thread
<1>4. LocalsOK'
  BY <1>1 DEF SchedInv, LocalsOK, ctxVars, EventPtr
<1>5. RegisteredOnce' /\ InServiceIsReady' /\ ReadyIffReferenced'
  BY <1>1 DEF SchedInv, RegisteredOnce, InServiceIsReady, ReadyIffReferenced, threadVars,
              ctxVars, PrioOf
<1>6. DispatchesOwed'
  <2>1. ASSUME NEW e \in Epa
        PROVE  Owed(e)' = Owed(e)
    BY <1>1 DEF Owed, B2N, Serving, Registering, ctxVars
  <2> QED
    BY <1>1, <2>1 DEF SchedInv, DispatchesOwed, threadVars
<1> QED
  BY <1>3, <1>4, <1>5, <1>6 DEF SchedInv

(* The end of a dispatch, of an NSM_INIT or of an event: the thread gives  *)
(* the reference back that this dispatch was owed.                         *)
LEMMA DispatchDoneStep ==
    ASSUME SchedInv, InitReturn \/ DispatchEnd
    PROVE  SchedInv'
<1>1. /\ UNCHANGED <<ref, attrib, current, ctxVars, queue, deferq>>
      /\ pc \in {"init", "destroy"} /\ pc' = "sched" /\ cpc[Loop] = "ready"
      /\ ThreadRemove(current)
      /\ cur' \in {cur, NoEvent}
  BY LoopIsReady DEF InitReturn, DispatchEnd, eventVars
<1>2. current \in Epa /\ current \in Thread /\ current # Idle /\ thref[current] > 0
  BY <1>1, TypedCounts DEF SchedInv, LocalsOK, InServiceIsReady
<1>3. RunqTypeOK' /\ ReadyIffReferenced' /\ thref' = [thref EXCEPT ![current] = @ - 1]
  BY <1>1, <1>2, RemoveKeepsRunq, TypedCounts DEF SchedInv
<1>4. EventTypeOK'
  <2>1. CASE InitReturn
    BY <2>1 DEF InitReturn, SchedInv, TypeOK, EventTypeOK, eventVars
  <2>2. CASE DispatchEnd
    BY <1>1, <2>2 DEF DispatchEnd, SchedInv, TypeOK, EventTypeOK, Destroy
  <2> QED
    BY <1>1, <2>1, <2>2
<1>5. /\ vf' = [vf EXCEPT ![current] = "dispatch"]
      /\ vf' \in [Epa -> {"null", "init", "dispatch"}]
  <2>1. vf = [vf EXCEPT ![current] = vf[current]]
    BY DEF SchedInv, TypeOK
  <2>2. DispatchEnd => vf[current] = "dispatch"
    BY DEF SchedInv, LocalsOK, DispatchEnd
  <2> QED
    BY <1>2, <2>1, <2>2 DEF SchedInv, TypeOK, InitReturn, DispatchEnd
<1>6. TypeOK'
  BY <1>1, <1>3, <1>4, <1>5 DEF SchedInv, TypeOK, RunqTypeOK, ctxVars, EventPtr, Thread
<1>7. LocalsOK'
  <2>1. \A e \in Epa : vf[e] # "null" => vf'[e] # "null"
    BY <1>2, <1>5 DEF SchedInv, TypeOK
  <2> QED
    BY <1>1, <2>1 DEF SchedInv, LocalsOK, ctxVars, EventPtr
<1>8. RegisteredOnce'
  BY <1>1 DEF SchedInv, RegisteredOnce, ctxVars
<1>9. InServiceIsReady'
  BY <1>1, <1>2, <1>3, TypedCounts DEF SchedInv, TypeOK, InServiceIsReady
<1>10. DispatchesOwed'
  <2> SUFFICES ASSUME NEW f \in Epa
               PROVE  thref'[f] = Len(queue[f]) + Owed(f)'
    BY <1>1 DEF DispatchesOwed
  <2>1. /\ thref[f] = Len(queue[f]) + Owed(f) /\ thref[f] \in Nat
        /\ Len(queue[f]) \in Nat /\ Owed(f) \in Int
    BY TypedCounts, OwedIsInt DEF SchedInv, DispatchesOwed
  <2>2. thref'[f] = IF f = current THEN thref[f] - 1 ELSE thref[f]
    BY <1>2, <1>3, TypedCounts DEF SchedInv, TypeOK
  <2>3. Registering(f)' <=> Registering(f)
    BY <1>1 DEF Registering, ctxVars
  <2>4. CASE f = current
    <3>1. CASE pc = "init"
      <4>1. vf[f] = "init" /\ vf'[f] = "dispatch" /\ ~Serving(f) /\ ~Serving(f)'
        BY <1>1, <1>5, <2>4, <3>1 DEF SchedInv, TypeOK, LocalsOK, Serving
      <4>2. Owed(f)' = Owed(f) - 1
        BY <2>3, <4>1 DEF Owed, B2N
      <4> QED
        BY <2>1, <2>2, <2>4, <4>2
    <3>2. CASE pc = "destroy"
      <4>1. vf[f] = "dispatch" /\ vf'[f] = "dispatch" /\ Serving(f) /\ ~Serving(f)'
        BY <1>1, <1>5, <2>4, <3>2 DEF SchedInv, TypeOK, LocalsOK, Serving
      <4>2. Owed(f)' = Owed(f) - 1
        BY <2>3, <4>1 DEF Owed, B2N
      <4> QED
        BY <2>1, <2>2, <2>4, <4>2
    <3> QED
      BY <1>1, <3>1, <3>2
  <2>5. CASE f # current
    <3>1. vf'[f] = vf[f] /\ ~Serving(f) /\ ~Serving(f)'
      BY <1>1, <1>5, <2>5 DEF SchedInv, TypeOK, Serving
    <3>2. Owed(f)' = Owed(f)
      BY <2>3, <3>1 DEF Owed, B2N
    <3> QED
      BY <2>1, <2>2, <2>5, <3>2
  <2> QED
    BY <2>4, <2>5
<1> QED
  BY <1>3, <1>6, <1>7, <1>8, <1>9, <1>10 DEF SchedInv

--------------------------------------------------------------------------------
(* The invariants of the specification.                                    *)

(* Only the idle thread is ready at the start. *)
LEMMA InitSched == Init => SchedInv
<1> SUFFICES ASSUME Init PROVE SchedInv
  OBVIOUS
<1>1. Idle \in Thread /\ Idle \notin Epa /\ MaxPrio \in Nat /\ PrioOf(Idle) = 0
  BY RuntimeAssumption DEF Thread, PrioOf
<1>2. runq \in [0 .. MaxPrio -> Seq(Thread)]
  <2>1. <<Idle>> \in Seq(Thread) /\ << >> \in Seq(Thread)
    BY <1>1
  <2> QED
    BY <2>1 DEF Init
<1>3. TypeOK
  <2>1. EventTypeOK
    BY DEF Init, EventInit, EventTypeOK
  <2>2. /\ queue \in [Epa -> Seq(EventPtr)] /\ deferq \in [Epa -> Seq(EventPtr)]
        /\ \A e \in Epa : Len(queue[e]) <= QueueSize /\ Len(deferq[e]) <= DeferSize
    BY RuntimeAssumption, EmptySeq DEF Init
  <2> QED
    BY <1>1, <1>2, <2>1, <2>2 DEF Init, TypeOK, EventPtr, Thread
<1>4. LocalsOK
  BY DEF Init, LocalsOK
<1>5. RegisteredOnce
  BY DEF Init, RegisteredOnce
<1>6. InServiceIsReady
  BY <1>1 DEF Init, InServiceIsReady
<1>7. DispatchesOwed
  <2> SUFFICES ASSUME NEW e \in Epa
               PROVE  thref[e] = Len(queue[e]) + Owed(e)
    BY DEF DispatchesOwed
  <2>1. Owed(e) = 0
    BY DEF Init, Owed, B2N, Serving, Registering
  <2>2. thref[e] = 0 /\ Len(queue[e]) = 0
    BY <1>1, EmptySeq DEF Init, Thread
  <2> QED
    BY <2>1, <2>2
<1>8. ReadyIffReferenced
  <2> SUFFICES ASSUME NEW p \in 0 .. MaxPrio
               PROVE  /\ \A t \in Thread : Linked(runq[p], t) <=> thref[t] > 0 /\ PrioOf(t) = p
                      /\ Distinct(runq[p])
    BY DEF ReadyIffReferenced
  <2>1. \A t \in Thread : thref[t] > 0 <=> t = Idle
    BY DEF Init
  <2>2. CASE p = 0
    <3>1. runq[p] = <<Idle>>
      BY <2>2 DEF Init
    <3>2. Distinct(runq[p]) /\ \A t : Linked(runq[p], t) <=> t = Idle
      BY <3>1 DEF Linked, Distinct
    <3> QED
      BY <1>1, <2>1, <2>2, <3>2
  <2>3. CASE p # 0
    <3>1. runq[p] = << >>
      BY <2>3 DEF Init
    <3>2. Distinct(runq[p]) /\ \A t : ~Linked(runq[p], t)
      BY <3>1 DEF Linked, Distinct
    <3> QED
      BY <1>1, <2>1, <2>3, <3>2
  <2> QED
    BY <2>2, <2>3
<1> QED
  BY <1>3, <1>4, <1>5, <1>6, <1>7, <1>8 DEF SchedInv

(* A step that changes nothing preserves the invariant. *)
LEMMA StutterKeepsSched ==
    ASSUME SchedInv, UNCHANGED vars
    PROVE  SchedInv'
<1> USE DEF SchedInv, vars, eventVars, threadVars, loopVars, ctxVars
<1>1. TypeOK'
  BY DEF TypeOK, EventTypeOK, EventPtr, Thread
<1>2. LocalsOK' /\ RegisteredOnce' /\ InServiceIsReady'
  BY DEF LocalsOK, RegisteredOnce, InServiceIsReady, EventPtr
<1>3. DispatchesOwed'
  <2>1. \A e \in Epa : Owed(e)' = Owed(e)
    BY DEF Owed, B2N, Serving, Registering
  <2> QED
    BY <2>1 DEF DispatchesOwed
<1>4. ReadyIffReferenced'
  BY DEF ReadyIffReferenced, PrioOf, Thread
<1> QED
  BY <1>1, <1>2, <1>3, <1>4

(* Every step preserves the invariant. *)
LEMMA NextKeepsSched == SchedInv /\ [Next]_vars => SchedInv'
<1> SUFFICES ASSUME SchedInv, [Next]_vars PROVE SchedInv'
  OBVIOUS
<1>1. CASE LoopStep
  BY <1>1, IdleStep, ScheduleInitStep, ScheduleDispatchStep, HandlerReturnStep,
     DispatchDoneStep DEF LoopStep
<1>2. CASE DeferStep
  BY <1>2, DeferStepKeeps
<1>3. ASSUME NEW c \in Ctx, ClientStep(c)
      PROVE  SchedInv'
  BY <1>3, SendStep, SignalStep, EventManagementStep, RegisterSetStep, RegisterInsertStep
  DEF ClientStep
<1>4. CASE UNCHANGED vars
  BY <1>4, StutterKeepsSched
<1> QED
  BY <1>1, <1>2, <1>3, <1>4 DEF Next

(* Counts, run queue and dispatchers agree in every reachable state. *)
THEOREM SchedInvariant == Spec => []SchedInv
<1> QED
  BY InitSched, NextKeepsSched, PTL DEF Spec

(* Every variable keeps its type: in particular a thread's count, that     *)
(* nthread_remove_i decrements unconditionally, never drops below zero and *)
(* no queue holds more than its slots.                                     *)
THEOREM TypeCorrect == Spec => []TypeOK
<1>1. SchedInv => TypeOK
  BY DEF SchedInv
<1> QED
  BY <1>1, SchedInvariant, PTL

(* A thread's count is the number of dispatches it is owed. *)
THEOREM CountIsOwed == Spec => []DispatchesOwed
<1>1. SchedInv => DispatchesOwed
  BY DEF SchedInv
<1> QED
  BY <1>1, SchedInvariant, PTL

(* Exactly the threads with a reference are linked, once, in their bucket. *)
THEOREM RunQueueIsExact == Spec => []ReadyIffReferenced
<1>1. SchedInv => ReadyIffReferenced
  BY DEF SchedInv
<1> QED
  BY <1>1, SchedInvariant, PTL

--------------------------------------------------------------------------------
(* What the scheduler picks can be dispatched.                             *)

(* A thread that is inserted is that of agent f: others keep their count.  *)
LEMMA InsertOther ==
    ASSUME thref \in [Thread -> Nat], NEW f \in Epa, NEW e \in Epa, e # f, ThreadInsert(f)
    PROVE  thref'[e] = thref[e]
  BY DEF ThreadInsert, Thread

(* Sends reach known agents only. *)
LEMMA SendReachesKnown ==
    ASSUME TypeOK, NEW c \in Ctx, ClientStep(c), NEW e \in Epa,
           vf[e] = "null", e \notin BootEpa, vf'[e] = "null", LocalsOK
    PROVE  thref'[e] = thref[e]
<1> USE DEF TypeOK
<1>1. ASSUME NEW f \in Epa, NEW ev \in EventPtr,
             SendEvent(c, f, ev) \/ SendEventAhead(c, f, ev)
      PROVE  thref'[e] = thref[e]
  <2>1. f # e
    BY <1>1 DEF SendEvent, SendEventAhead, Known
  <2>2. ThreadInsert(f) \/ thref' = thref
    BY <1>1 DEF SendEvent, SendEventAhead, SendEvent_i, SendEventAhead_i, threadVars
  <2> QED
    BY <2>1, <2>2, InsertOther
<1>2. ASSUME NEW f \in Epa, SendSignal(c, f)
      PROVE  thref'[e] = thref[e]
  <2>1. f # e
    BY <1>2 DEF SendSignal, Known
  <2>2. ThreadInsert(f) \/ thref' = thref
    BY <1>2 DEF SendSignal, threadVars
  <2> QED
    BY <2>1, <2>2, InsertOther
<1>3. CASE RegisterInsert(c)
  <2>1. arg[c] \in Epa /\ arg[c] # e /\ ThreadInsert(arg[c])
    BY <1>3 DEF RegisterInsert, LocalsOK
  <2> QED
    BY <2>1, InsertOther
<1>4. ASSUME \/ CreateAlloc(c) \/ CreateInit(c) \/ DestroyOwn(c)
             \/ \E ev \in Block : Reserve(c, ev)
             \/ UnlockClear(c) \/ UnlockTest(c) \/ UnlockRelease(c)
             \/ \E f \in Epa : RegisterSet(c, f)
      PROVE  thref'[e] = thref[e]
  BY <1>4 DEF CreateAlloc, CreateInit, DestroyOwn, Reserve, UnlockClear, UnlockTest,
              UnlockRelease, RegisterSet, threadVars
<1> QED
  BY <1>1, <1>2, <1>3, <1>4 DEF ClientStep

(* Every step keeps agents without a dispatcher out of the run queue. *)
LEMMA NextKeepsUnregistered == DispatchInv /\ [Next]_vars => UnregisteredIsIdle'
<1> SUFFICES ASSUME DispatchInv, [Next]_vars, NEW e \in Epa, vf'[e] = "null"
             PROVE  IF e \in BootEpa THEN pc' = "boot" ELSE thref'[e] = 0
  BY DEF UnregisteredIsIdle
<1> USE DEF DispatchInv, SchedInv
<1>0. TypeOK /\ LocalsOK /\ vf \in [Epa -> {"null", "init", "dispatch"}]
      /\ thref \in [Thread -> Nat] /\ e \in Thread
  BY DEF TypeOK, Thread
<1>1. CASE \/ Start \/ ScheduleIdle \/ IdleReturn \/ HandlerReturn
           \/ \E f \in Epa : ScheduleInit(f) \/ ScheduleDispatch(f)
  <2>1. vf' = vf /\ thref' = thref
    BY <1>1 DEF Start, ScheduleIdle, IdleReturn, HandlerReturn, ScheduleInit,
                ScheduleDispatch, threadVars
  <2>2. e \in BootEpa => pc # "boot"
    BY <1>1, <2>1 DEF Start, ScheduleIdle, IdleReturn, HandlerReturn, ScheduleInit,
                      ScheduleDispatch, PickThread
  <2> QED
    BY <2>1, <2>2 DEF UnregisteredIsIdle
<1>2. CASE InitReturn \/ DispatchEnd
  <2>1. pc \in {"init", "destroy"} /\ current \in Epa /\ vf[current] # "null"
    BY <1>0, <1>2 DEF InitReturn, DispatchEnd, LocalsOK
  <2>2. thref' = [thref EXCEPT ![current] = @ - 1]
        /\ (vf' = vf \/ vf' = [vf EXCEPT ![current] = "dispatch"])
    BY <1>2 DEF InitReturn, DispatchEnd, ThreadRemove
  <2>3. e # current /\ vf[e] = "null" /\ thref'[e] = thref[e]
    BY <1>0, <2>1, <2>2
  <2> QED
    BY <2>1, <2>3 DEF UnregisteredIsIdle
<1>3. CASE DeferStep
  <2>1. pc = "handle" /\ current \in Epa /\ vf[current] # "null"
    <3>1. pc = "handle"
      BY <1>0, <1>3, RuntimeAssumption
      DEF DeferStep, DeferEvent, FetchGet, FetchSend, LocalsOK
    <3> QED
      BY <1>0, <3>1 DEF LocalsOK
  <2>2. vf' = vf /\ (thref' = thref \/ ThreadInsert(current))
    BY <1>3 DEF DeferStep, DeferEvent, FetchGet, FetchSend, SendEvent_i, threadVars
  <2>3. thref'[e] = thref[e]
    BY <1>0, <2>1, <2>2, InsertOther
  <2> QED
    BY <2>1, <2>2, <2>3 DEF UnregisteredIsIdle
<1>4. ASSUME NEW c \in Ctx, ClientStep(c)
      PROVE  IF e \in BootEpa THEN pc' = "boot" ELSE thref'[e] = 0
  <2>1. pc' = pc
    BY <1>4 DEF ClientStep, SendEvent, SendEventAhead, SendSignal, RegisterSet, CreateAlloc,
                CreateInit, DestroyOwn, Reserve, UnlockClear, UnlockTest, UnlockRelease,
                RegisterInsert, loopVars
  <2>2. vf' = vf \/ \E f \in Epa : vf' = [vf EXCEPT ![f] = "init"]
    BY <1>4 DEF ClientStep, SendEvent, SendEventAhead, SendSignal, RegisterSet, CreateAlloc,
                CreateInit, DestroyOwn, Reserve, UnlockClear, UnlockTest, UnlockRelease,
                RegisterInsert
  <2>3. vf[e] = "null"
    BY <1>0, <2>2
  <2>4. e \notin BootEpa => thref'[e] = thref[e]
    BY <1>0, <1>4, <2>3, SendReachesKnown
  <2> QED
    BY <2>1, <2>3, <2>4 DEF UnregisteredIsIdle
<1>5. CASE UNCHANGED vars
  <2>1. vf' = vf /\ thref' = thref /\ pc' = pc
    BY <1>5 DEF vars, threadVars, loopVars
  <2> QED
    BY <2>1 DEF UnregisteredIsIdle
<1> QED
  BY <1>1, <1>2, <1>3, <1>4, <1>5 DEF Next, LoopStep

(* The thread at the head of the highest used bucket has a reference: if   *)
(* it is an agent it has a dispatcher and, once past its NSM_INIT, an      *)
(* event in its queue.                                                     *)
LEMMA PickedIsDispatchable == DispatchInv => DispatchIsSafe
<1> SUFFICES ASSUME DispatchInv, pc = "sched", NEW t, t = RqPeek(runq), t # Idle
             PROVE  vf[t] # "null" /\ (vf[t] = "dispatch" => queue[t] # << >>)
  BY DEF DispatchIsSafe
<1> USE DEF DispatchInv, SchedInv
<1>1. t \in Thread /\ thref[t] > 0
  BY PeekedIsReady, TypedCounts DEF InServiceIsReady
<1>2. t \in Epa /\ vf[t] \in {"null", "init", "dispatch"}
  BY <1>1 DEF Thread, TypeOK
<1>3. vf[t] # "null"
  BY <1>1, <1>2 DEF UnregisteredIsIdle
<1>4. ASSUME vf[t] = "dispatch" PROVE queue[t] # << >>
  <2>1. Owed(t) <= 0
    BY <1>4 DEF Owed, B2N, Serving
  <2>2. thref[t] = Len(queue[t]) + Owed(t) /\ Owed(t) \in Int
    BY <1>2, OwedIsInt DEF DispatchesOwed
  <2>3. queue[t] = << >> => Len(queue[t]) = 0
    BY EmptySeq
  <2> QED
    BY <1>1, <2>1, <2>2, <2>3
<1> QED
  BY <1>3, <1>4

(* The inductive invariant: the counts, the run queue and the dispatchers  *)
(* agree at every point at which an interrupt may come.                    *)
THEOREM DispatchInvariant == Spec => []DispatchInv
<1>1. Init => UnregisteredIsIdle
  BY RuntimeAssumption DEF Init, UnregisteredIsIdle, Thread
<1>2. DispatchInv /\ [Next]_vars => DispatchInv'
  BY NextKeepsSched, NextKeepsUnregistered DEF DispatchInv
<1>3. Init => DispatchInv
  BY <1>1, InitSched DEF DispatchInv
<1> QED
  BY <1>2, <1>3, PTL DEF Spec

(* The scheduler never dispatches an agent without a dispatcher nor takes  *)
(* an event from an empty queue, whatever interrupt handlers and state     *)
(* machines do and whatever the priorities are.                            *)
THEOREM DispatchSafe == Spec => []DispatchIsSafe
  BY DispatchInvariant, PickedIsDispatchable, PTL
--------------------------------------------------------------------------------
(* Counting the slots of a family q of queues that point to event b.       *)

Queues == [Epa -> Seq(EventPtr)]

(* There are finitely many. *)
LEMMA SlotsFinite ==
    ASSUME NEW q, NEW n \in Nat, NEW b
    PROVE  IsFiniteSet(Slots(q, n, b)) /\ Cardinality(Slots(q, n, b)) \in Nat
<1>1. IsFiniteSet(Epa \X (1 .. n))
  <2>1. IsFiniteSet(Epa)
    BY RuntimeAssumption
  <2>2. IsFiniteSet(1 .. n)
    BY FS_Interval
  <2> QED
    BY <2>1, <2>2, FS_Product
<1>2. Slots(q, n, b) \in SUBSET (Epa \X (1 .. n))
  BY DEF Slots
<1> QED
  BY <1>1, <1>2, FS_Subset, FS_CardinalityType

(* An event put at the end of a queue takes one more slot. *)
LEMMA SlotsAppend ==
    ASSUME NEW q \in Queues, NEW n \in Nat, NEW b, NEW e \in Epa,
           NEW ev \in EventPtr, Len(q[e]) < n,
           NEW p \in Queues, p[e] = Append(q[e], ev),
           \A f \in Epa : f # e => p[f] = q[f]
    PROVE  Cardinality(Slots(p, n, b)) = Cardinality(Slots(q, n, b)) + B2N(ev = b)
<1> DEFINE s == q[e]
           r == Append(s, ev)
           l == Len(s) + 1
<1>1. /\ s \in Seq(EventPtr) /\ Len(s) \in Nat /\ l \in 1 .. n
      /\ Len(r) = l /\ r[l] = ev /\ \A i \in 1 .. Len(s) : r[i] = s[i]
  BY LenProperties, AppendProperties DEF Queues
<1>2. p[e] = r /\ \A f \in Epa : f # e => p[f] = q[f]
  OBVIOUS
<1> HIDE DEF s, r, l
<1>3. s = q[e]
  BY DEF s
<1>4. ~(<<e, l>> \in Slots(q, n, b))
  BY <1>1, <1>3 DEF Slots, l
<1>5. ASSUME NEW f \in Epa, NEW i \in 1 .. n
      PROVE  <<f, i>> \in Slots(p, n, b)
                 <=> <<f, i>> \in Slots(q, n, b) \/ (ev = b /\ f = e /\ i = l)
  <2>1. CASE f = e
    <3>1. CASE i = l
      BY <1>1, <1>2, <1>4, <2>1, <3>1 DEF Slots
    <3>2. CASE i # l
      <4>1. i <= Len(r) <=> i <= Len(s)
        BY <1>1, <3>2 DEF l
      <4>2. i <= Len(s) => r[i] = s[i]
        BY <1>1
      <4> QED
        BY <1>2, <1>3, <2>1, <3>2, <4>1, <4>2 DEF Slots
    <3> QED
      BY <3>1, <3>2
  <2>2. CASE f # e
    BY <1>2, <2>2 DEF Slots
  <2> QED
    BY <2>1, <2>2
<1>6. Slots(p, n, b) \subseteq Epa \X (1 .. n) /\ Slots(q, n, b) \subseteq Epa \X (1 .. n)
  BY DEF Slots
<1>7. <<e, l>> \in Epa \X (1 .. n)
  BY <1>1
<1>8. Slots(p, n, b) = IF ev = b THEN Slots(q, n, b) \cup {<<e, l>>} ELSE Slots(q, n, b)
  <2>1. \A x \in Epa \X (1 .. n) :
          x \in Slots(p, n, b) <=> x \in Slots(q, n, b) \/ (ev = b /\ x = <<e, l>>)
    <3> TAKE x \in Epa \X (1 .. n)
    <3>1. PICK f \in Epa, i \in 1 .. n : x = <<f, i>>
      OBVIOUS
    <3> QED
      BY <1>5, <3>1
  <2> QED
    BY <1>6, <1>7, <2>1
<1>9. IsFiniteSet(Slots(q, n, b)) /\ Cardinality(Slots(q, n, b)) \in Nat
  BY SlotsFinite
<1>10. Cardinality(Slots(q, n, b) \cup {<<e, l>>}) = Cardinality(Slots(q, n, b)) + 1
  BY <1>4, <1>9, FS_AddElement
<1>11. Cardinality(Slots(p, n, b)) = Cardinality(Slots(q, n, b)) + B2N(ev = b)
  BY <1>8, <1>9, <1>10 DEF B2N
<1> QED
  BY <1>11

(* An event less at the front of a queue gives one slot back, the others   *)
(* move up by one.                                                         *)
LEMMA SlotsShift ==
    ASSUME NEW q \in Queues, NEW n \in Nat, NEW b, NEW e \in Epa, NEW p \in Queues,
           Len(q[e]) >= 1, Len(q[e]) <= n, Len(p[e]) = Len(q[e]) - 1,
           \A i \in 1 .. Len(p[e]) : p[e][i] = q[e][i + 1],
           \A f \in Epa : f # e => p[f] = q[f]
    PROVE  Cardinality(Slots(p, n, b)) = Cardinality(Slots(q, n, b)) - B2N(q[e][1] = b)
<1> DEFINE s == q[e]
           r == p[e]
           S == Slots(q, n, b)
           T == Slots(p, n, b)
           first == <<e, 1>>
<1>1. /\ s \in Seq(EventPtr) /\ Len(s) \in Nat /\ Len(s) >= 1 /\ Len(r) = Len(s) - 1
      /\ \A i \in 1 .. Len(r) : r[i] = s[i + 1]
  BY LenProperties DEF Queues
<1>2. p[e] = r /\ \A f \in Epa : f # e => p[f] = q[f]
  OBVIOUS
<1>3. s = q[e] /\ Len(s) <= n
  OBVIOUS
<1>4. first \in S <=> s[1] = b
  BY <1>1, <1>3 DEF Slots
<1> HIDE DEF s, r
<1> DEFINE shift == [x \in T |-> IF x[1] = e THEN <<e, x[2] + 1>> ELSE x]
<1>5. ASSUME NEW x \in T
      PROVE  x[1] \in Epa /\ x[2] \in 1 .. n /\ x = <<x[1], x[2]>>
             /\ x[2] <= Len(p[x[1]]) /\ p[x[1]][x[2]] = b
  BY DEF Slots
<1>6. ASSUME NEW x \in S
      PROVE  x[1] \in Epa /\ x[2] \in 1 .. n /\ x = <<x[1], x[2]>>
             /\ x[2] <= Len(q[x[1]]) /\ q[x[1]][x[2]] = b
  BY DEF Slots
<1>7. ASSUME NEW f \in Epa, NEW i \in 1 .. n, i <= Len(q[f]), q[f][i] = b
      PROVE  <<f, i>> \in S
  BY <1>7 DEF Slots
<1>8. ASSUME NEW f \in Epa, NEW i \in 1 .. n, i <= Len(p[f]), p[f][i] = b
      PROVE  <<f, i>> \in T
  BY <1>8 DEF Slots
<1> HIDE DEF S, T
<1>9. shift \in [T -> S \ {first}]
  <2> SUFFICES ASSUME NEW x \in T
               PROVE  (IF x[1] = e THEN <<e, x[2] + 1>> ELSE x) \in S \ {first}
    OBVIOUS
  <2>1. CASE x[1] = e
    <3>1. x[2] \in 1 .. Len(r) /\ r[x[2]] = b
      BY <1>1, <1>2, <1>5, <2>1
    <3>2. x[2] + 1 \in 1 .. n /\ x[2] + 1 <= Len(q[e]) /\ q[e][x[2] + 1] = b
      BY <1>1, <1>3, <3>1
    <3>3. <<e, x[2] + 1>> \in S
      BY <1>7, <3>2
    <3>4. <<e, x[2] + 1>> # first
      BY <3>1
    <3> QED
      BY <2>1, <3>3, <3>4
  <2>2. CASE x[1] # e
    <3>1. <<x[1], x[2]>> \in S
      BY <1>2, <1>5, <1>7, <2>2
    <3> QED
      BY <1>5, <2>2, <3>1
  <2> QED
    BY <2>1, <2>2
<1>10. ASSUME NEW x \in T, NEW y \in T, shift[x] = shift[y]
       PROVE  x = y
  <2>1. x = <<x[1], x[2]>> /\ y = <<y[1], y[2]>> /\ x[2] \in Int /\ y[2] \in Int
    BY <1>5
  <2>2. /\ shift[x] = IF x[1] = e THEN <<e, x[2] + 1>> ELSE <<x[1], x[2]>>
        /\ shift[y] = IF y[1] = e THEN <<e, y[2] + 1>> ELSE <<y[1], y[2]>>
    BY <2>1
  <2>3. x[1] = y[1] /\ x[2] = y[2]
    BY <1>10, <2>1, <2>2
  <2> QED
    BY <2>1, <2>3
<1>11. ASSUME NEW y \in S \ {first}
       PROVE  \E x \in T : shift[x] = y
  <2>1. CASE y[1] = e
    <3>1. y[2] # 1
      BY <1>6, <2>1
    <3>2. y[2] - 1 \in 1 .. n /\ y[2] - 1 <= Len(p[e]) /\ p[e][y[2] - 1] = b
      BY <1>1, <1>2, <1>3, <1>6, <2>1, <3>1
    <3>3. <<e, y[2] - 1>> \in T
      BY <1>8, <3>2
    <3>4. shift[<<e, y[2] - 1>>] = <<e, y[2]>>
      <4>1. shift[<<e, y[2] - 1>>] = <<e, y[2] - 1 + 1>>
        BY <3>3
      <4>2. y[2] \in Int /\ y[2] - 1 + 1 = y[2]
        BY <1>6
      <4> QED
        BY <4>1, <4>2
    <3> QED
      BY <1>6, <2>1, <3>3, <3>4
  <2>2. CASE y[1] # e
    <3>1. <<y[1], y[2]>> \in T
      BY <1>2, <1>6, <1>8, <2>2
    <3> QED
      BY <1>6, <2>2, <3>1
  <2> QED
    BY <2>1, <2>2
<1>12. shift \in Bijection(T, S \ {first})
  BY <1>9, <1>10, <1>11, Fun_IsBij
<1>13. IsFiniteSet(S) /\ IsFiniteSet(T) /\ Cardinality(S) \in Nat
  BY SlotsFinite DEF S, T
<1>14. Cardinality(T) = Cardinality(S \ {first})
  BY <1>12, <1>13, FS_Bijection DEF ExistsBijection
<1>15. Cardinality(S \ {first}) = IF first \in S THEN Cardinality(S) - 1 ELSE Cardinality(S)
  BY <1>13, FS_RemoveElement
<1>16. Cardinality(S \ {first}) = Cardinality(S) - B2N(s[1] = b)
  BY <1>4, <1>13, <1>15 DEF B2N
<1> QED
  BY <1>14, <1>16 DEF S, T, s

(* An event put at the front of a queue takes one more slot. *)
LEMMA SlotsPrepend ==
    ASSUME NEW q \in Queues, NEW n \in Nat, NEW b, NEW e \in Epa,
           NEW ev \in EventPtr, Len(q[e]) < n,
           NEW p \in Queues, p[e] = <<ev>> \o q[e],
           \A f \in Epa : f # e => p[f] = q[f]
    PROVE  Cardinality(Slots(p, n, b)) = Cardinality(Slots(q, n, b)) + B2N(ev = b)
<1> DEFINE r == <<ev>> \o q[e]
<1>1. q[e] \in Seq(EventPtr) /\ <<ev>> \in Seq(EventPtr) /\ Len(q[e]) \in Nat
  BY LenProperties DEF Queues
<1>2. /\ r \in Seq(EventPtr) /\ Len(r) = Len(q[e]) + 1
      /\ \A i \in 1 .. Len(r) : r[i] = IF i <= 1 THEN ev ELSE q[e][i - 1]
  BY <1>1, ConcatProperties
<1>3. r # << >> /\ Len(r) <= n
  BY <1>1, <1>2, EmptySeq
<1>4. p[e] = r /\ r[1] = ev /\ \A i \in 1 .. Len(q[e]) : q[e][i] = r[i + 1]
  BY <1>1, <1>2
<1> HIDE DEF r
<1>5. /\ Len(p[e]) >= 1 /\ Len(p[e]) <= n /\ Len(q[e]) = Len(p[e]) - 1
      /\ \A i \in 1 .. Len(q[e]) : q[e][i] = p[e][i + 1]
      /\ \A f \in Epa : f # e => q[f] = p[f]
  BY <1>1, <1>2, <1>3, <1>4
<1>6. Cardinality(Slots(q, n, b)) = Cardinality(Slots(p, n, b)) - B2N(p[e][1] = b)
  BY <1>5, SlotsShift
<1>9. Cardinality(Slots(p, n, b)) \in Nat /\ Cardinality(Slots(q, n, b)) \in Nat
  BY SlotsFinite
<1>10. Cardinality(Slots(q, n, b)) = Cardinality(Slots(p, n, b)) - B2N(ev = b)
  BY <1>4, <1>6
<1>11. Cardinality(Slots(p, n, b)) = Cardinality(Slots(q, n, b)) + B2N(ev = b)
  BY <1>9, <1>10 DEF B2N
<1> QED
  BY <1>11

(* Taking the first event of queue e from the family q. *)
LEMMA SlotsOfGet ==
    ASSUME NEW q \in Queues, NEW e \in Epa, q[e] # << >>, NEW p, p[e] = Tail(q[e])
    PROVE  /\ q[e][1] = Head(q[e]) /\ Len(q[e]) >= 1 /\ Len(p[e]) = Len(q[e]) - 1
           /\ \A i \in 1 .. Len(p[e]) : p[e][i] = q[e][i + 1]
  BY EmptySeq, HeadTailProperties DEF Queues

--------------------------------------------------------------------------------
(* Facts about a single state.                                             *)

(* Pointers to blocks are neither NULL nor agents nor static events. *)
LEMMA BlocksApart ==
    \A b \in Block : b # NoEvent /\ b \notin Epa /\ b \notin Static /\ b \in EventPtr
  BY EventAssumption, RuntimeAssumption DEF EventPtr

LEMMA SizesAreNat == QueueSize \in Nat /\ DeferSize \in Nat
  BY RuntimeAssumption

(* Holders are counted by natural numbers. *)
LEMMA HoldersAreNat ==
    \A b : Queued(b) \in Nat /\ Deferred(b) \in Nat /\ Holders(b) \in Nat
  BY SlotsFinite, SizesAreNat DEF Queued, Deferred, Holders, B2N

LEMMA HoldersAreNatNext ==
    \A b : Queued(b)' \in Nat /\ Deferred(b)' \in Nat /\ Holders(b)' \in Nat
  BY SlotsFinite, SizesAreNat DEF Queued, Deferred, Holders, B2N

(* The block of an event that an owner may still use by itself. *)
LEMMA UnsharedIsCounted ==
    ASSUME NEW b, Unshared(b)
    PROVE  Queued(b) = 0 /\ Deferred(b) = 0
  BY HoldersAreNat DEF Unshared, Holders, B2N

--------------------------------------------------------------------------------
(* What steps do to counters, pointers and owners.                         *)

Settled(b) == mem[b] = "used" /\ ~BeingCreated(b)

(* The counter of every event in use follows its holders, or is right to   *)
(* begin with.                                                             *)
CountsKept ==
    \A b \in Block : Settled(b)' =>
        \/ ref'[b] = Holders(b)'
        \/ Settled(b) /\ ref'[b] - ref[b] = Holders(b)' - Holders(b)

(* Counters that follow the holders still cover them and stay exact. *)
LEMMA CountsKeptIsEnough ==
    ASSUME TypeOK, TypeOK', CountsKept
    PROVE  /\ RefCoversHolders => RefCoversHolders'
           /\ RefIsExact => RefIsExact'
<1> SUFFICES ASSUME NEW b \in Block, Settled(b)'
             PROVE  /\ RefCoversHolders => ref'[b] >= Holders(b)'
                    /\ RefIsExact => ref'[b] = Holders(b)'
  BY DEF RefCoversHolders, RefIsExact, Settled
<1>1. ref[b] \in Int /\ ref'[b] \in Int /\ Holders(b) \in Nat /\ Holders(b)' \in Nat
  BY HoldersAreNat, HoldersAreNatNext DEF TypeOK, EventTypeOK
<1>2. CASE ref'[b] = Holders(b)'
  BY <1>1, <1>2
<1>3. CASE Settled(b) /\ ref'[b] - ref[b] = Holders(b)' - Holders(b)
  BY <1>1, <1>3 DEF RefCoversHolders, RefIsExact, Settled
<1> QED
  BY <1>2, <1>3 DEF CountsKept

(* The events being created stay the same. *)
CreationsKept ==
    \A c \in Ctx : /\ cpc'[c] = "create" <=> cpc[c] = "create"
                   /\ cpc[c] = "create" => own'[c] = own[c]

LEMMA CreationsFrame ==
    ASSUME CreationsKept
    PROVE  \A b : BeingCreated(b)' <=> BeingCreated(b)
  BY DEF CreationsKept, BeingCreated

(* Contexts keep or drop what they own; a reservation is kept, and what    *)
(* nothing else pointed to is still pointed to by nothing else.            *)
OwnersKept ==
    /\ \A c \in Ctx :
         /\ own'[c] = own[c] \/ own'[c] = NoEvent
         /\ own[c] \in Block /\ attrib[own[c]] = "reserved" => own'[c] = own[c]
         /\ own'[c] \in Block =>
               /\ attrib'[own[c]] = attrib[own[c]]
               /\ cpc[c] = "unlock" => cpc'[c] = "unlock"
               /\ \A b \in Block :
                    own[c] = b /\ attrib[b] = "dynamic" /\ Unshared(b) => Unshared(b)'
         /\ cpc'[c] \in {"create", "unlock", "release"} =>
               cpc'[c] = cpc[c] /\ own'[c] = own[c] /\ own[c] \in Block
    /\ \A b \in Block : attrib'[b] = "reserved" => attrib[b] = "reserved"

LEMMA OwnersFrame ==
    ASSUME OwnershipOK, OwnersKept
    PROVE  OwnershipOK'
<1>1. \A c, d \in Ctx : own'[c] \in Block /\ own'[c] = own'[d] => c = d
  BY BlocksApart DEF OwnershipOK, OwnersKept
<1>2. \A b \in Block : attrib'[b] = "reserved" => \E c \in Ctx : own'[c] = b
  BY DEF OwnershipOK, OwnersKept
<1>3. ASSUME NEW c \in Ctx, cpc'[c] \in {"create", "unlock", "release"}
      PROVE  /\ attrib'[own'[c]] = "dynamic"
             /\ cpc'[c] \in {"unlock", "release"} => c = Loop
  BY <1>3 DEF OwnershipOK, OwnersKept
<1>4. ASSUME NEW c \in Ctx, NEW b \in Block, own'[c] = b, attrib'[b] = "dynamic",
             cpc'[c] # "unlock"
      PROVE  Unshared(b)'
  BY <1>4, BlocksApart DEF OwnersKept, OwnershipOK
<1> QED
  BY <1>1, <1>2, <1>3, <1>4 DEF OwnershipOK

(* An event that something points to is not lost: if the last pointer goes *)
(* its block is freed, unless it is still reserved or counted.             *)
NothingLost ==
    \A b \in Block : mem'[b] = "used" /\ (mem[b] = "used" => PointedTo(b)) =>
        PointedTo(b)' \/ attrib'[b] = "reserved" \/ ref'[b] # 0

(* What each step but a send ahead is shown to do. *)
RefStep == RefInv' /\ CountsKept /\ NothingLost

LEMMA StepGivesRefInv ==
    ASSUME TypeOK, TypeOK', RefInv, CountsKept, NoDanglingEvent', OwnersKept, NoStalePointer'
    PROVE  RefInv'
  BY CountsKeptIsEnough, OwnersFrame DEF RefInv

--------------------------------------------------------------------------------
(* Steps that neither move an event nor touch a counter.                   *)

LEMMA QuietKeepsRefs ==
    ASSUME TypeOK, TypeOK', RefInv, LocalsOK,
           UNCHANGED <<eventVars, queue, deferq, own, cur>>,
           pc' = "handle" <=> pc = "handle", pc' = "destroy" <=> pc = "destroy",
           \A c \in Ctx :
              \/ cpc'[c] = cpc[c] /\ arg'[c] = arg[c]
              \/ cpc[c] = "ready" /\ cpc'[c] = "register" /\ arg'[c] \in Epa
              \/ cpc[c] = "register" /\ cpc'[c] = "ready" /\ arg'[c] = NoEvent
    PROVE  RefStep
<1>1. \A b : /\ Queued(b)' = Queued(b) /\ Deferred(b)' = Deferred(b)
             /\ Holders(b)' = Holders(b)
  BY DEF Queued, Deferred, Holders, B2N
<1>2. CreationsKept
  BY DEF CreationsKept
<1>3. CountsKept
  BY <1>1, <1>2, CreationsFrame, HoldersAreNat DEF CountsKept, Settled, eventVars, TypeOK, EventTypeOK
<1>4. \A c \in Ctx, b \in Block : arg'[c] = b => arg[c] = b
  BY BlocksApart
<1>5. NoDanglingEvent'
  <2> SUFFICES ASSUME NEW b \in Block, PointedTo(b)'
               PROVE  mem[b] = "used"
    BY DEF NoDanglingEvent, eventVars
  <2>1. PointedTo(b)
    BY <1>1, <1>4 DEF PointedTo
  <2> QED
    BY <2>1 DEF RefInv, NoDanglingEvent
<1>6. OwnersKept
  <2>1. \A b \in Block : Unshared(b) => Unshared(b)'
    BY <1>1, <1>4 DEF Unshared
  <2> QED
    BY <2>1 DEF OwnersKept, eventVars, LocalsOK
<1>7. NoStalePointer'
  BY DEF RefInv, NoStalePointer
<1>8. NothingLost
  <2> SUFFICES ASSUME NEW b \in Block, PointedTo(b), mem'[b] = "used"
               PROVE  PointedTo(b)' \/ ref'[b] # 0
    BY DEF NothingLost, eventVars
  <2>1. ASSUME NEW c \in Ctx, arg[c] = b
        PROVE  arg'[c] = b
    BY <2>1, BlocksApart DEF RefInv, NoStalePointer, LocalsOK
  <2> QED
    BY <1>1, <2>1 DEF PointedTo
<1> QED
  BY <1>3, <1>5, <1>6, <1>7, <1>8, StepGivesRefInv DEF RefStep

(* Steps of the loop and of registrations of this kind. *)
LEMMA QuietSteps ==
    ASSUME SchedInv, SchedInv', RefInv,
           \/ Start \/ ScheduleIdle \/ IdleReturn \/ InitReturn
           \/ \E e \in Epa : ScheduleInit(e)
           \/ \E c \in Ctx : RegisterInsert(c) \/ \E e \in Epa : RegisterSet(c, e)
           \/ UNCHANGED vars
    PROVE  RefStep
<1>1. TypeOK /\ TypeOK' /\ LocalsOK
  BY DEF SchedInv
<1>2. UNCHANGED <<eventVars, queue, deferq, own, cur>>
  BY DEF Start, ScheduleIdle, IdleReturn, InitReturn, ScheduleInit, RegisterInsert,
         RegisterSet, loopVars, ctxVars, vars
<1>3. (pc' = "handle" <=> pc = "handle") /\ (pc' = "destroy" <=> pc = "destroy")
  BY DEF Start, ScheduleIdle, IdleReturn, InitReturn, ScheduleInit, RegisterInsert,
         RegisterSet, loopVars, vars, PickThread
<1>4. \A c \in Ctx :
        \/ cpc'[c] = cpc[c] /\ arg'[c] = arg[c]
        \/ cpc[c] = "ready" /\ cpc'[c] = "register" /\ arg'[c] \in Epa
        \/ cpc[c] = "register" /\ cpc'[c] = "ready" /\ arg'[c] = NoEvent
  <2>1. CASE UNCHANGED ctxVars
    BY <2>1 DEF ctxVars
  <2>2. ASSUME NEW d \in Ctx, RegisterInsert(d) \/ \E e \in Epa : RegisterSet(d, e)
        PROVE  \A c \in Ctx :
                 \/ cpc'[c] = cpc[c] /\ arg'[c] = arg[c]
                 \/ cpc[c] = "ready" /\ cpc'[c] = "register" /\ arg'[c] \in Epa
                 \/ cpc[c] = "register" /\ cpc'[c] = "ready" /\ arg'[c] = NoEvent
    BY <1>1, <2>2 DEF RegisterInsert, RegisterSet, Calling, TypeOK
  <2> QED
    BY <2>1, <2>2 DEF Start, ScheduleIdle, IdleReturn, InitReturn, ScheduleInit, vars
<1> QED
  BY <1>1, <1>2, <1>3, <1>4, QuietKeepsRefs

--------------------------------------------------------------------------------
(* Event transport.                                                        *)

(* The outcomes of a send: the event is queued and counted, it is refused  *)
(* for want of room, it is refused because it has too many references, or, *)
(* sent ahead without room, it is counted all the same.                    *)
SameQueued == \A b \in Block : Queued(b)' = Queued(b)
CountedUp(ev) == \A b \in Block : ref'[b] = ref[b] + B2N(ev = b)

Enqueued(ev) ==
    /\ mem' = mem /\ CountedUp(ev)
    /\ \A b \in Block : Queued(b)' = Queued(b) + B2N(ev = b)
Refused(ev) == mem' = Destroy(mem, ref, ev) /\ ref' = ref /\ SameQueued
Limited(ev) == mem' = mem /\ ref' = ref /\ SameQueued /\ (ev \in Block => ref[ev] >= 1)
Overcounted(ev) == mem' = mem /\ CountedUp(ev) /\ SameQueued

LEMMA SendOutcome ==
    ASSUME TypeOK, TypeOK', NEW e \in Epa, NEW ev \in EventPtr, SendEvent_i(e, ev)
    PROVE  Enqueued(ev) \/ Refused(ev) \/ Limited(ev)
<1>1. /\ queue \in Queues /\ ref \in [Block -> Int]
      /\ QueueSize \in Nat
  BY SizesAreNat DEF TypeOK, EventTypeOK, Queues
<1>2. CASE BelowRefLimit(ev) /\ HasRoom(e)
  <2>1. /\ ref' = RefUp(ref, ev) /\ mem' = mem
        /\ queue' = [queue EXCEPT ![e] = Append(@, ev)]
    BY <1>2 DEF SendEvent_i
  <2>2. Len(queue[e]) < QueueSize
    BY <1>2 DEF HasRoom
  <2>3. \A b \in Block : Queued(b)' = Queued(b) + B2N(ev = b)
    <3> TAKE b \in Block
    <3>1. Cardinality(Slots(queue', QueueSize, b))
              = Cardinality(Slots(queue, QueueSize, b)) + B2N(ev = b)
      <4>1. /\ queue' \in Queues /\ queue'[e] = Append(queue[e], ev)
            /\ \A f \in Epa : f # e => queue'[f] = queue[f]
        BY <1>1, <2>1 DEF TypeOK, Queues
      <4> QED
        BY <1>1, <2>2, <4>1, SlotsAppend
    <3> QED
      BY <3>1 DEF Queued
  <2>4. CountedUp(ev)
    BY <1>1, <2>1 DEF RefUp, CountedUp, B2N
  <2> QED
    BY <2>1, <2>3, <2>4 DEF Enqueued
<1>3. CASE BelowRefLimit(ev) /\ ~HasRoom(e)
  <2>1. /\ ref' = RefDown(RefUp(ref, ev), ev) /\ mem' = Destroy(mem, ref', ev)
        /\ queue' = queue
    BY <1>3 DEF SendEvent_i
  <2>2. ref' = ref
    BY <1>1, <2>1 DEF RefUp, RefDown
  <2> QED
    BY <2>1, <2>2 DEF Refused, SameQueued, Queued
<1>4. CASE ~BelowRefLimit(ev)
  <2>1. ref' = ref /\ mem' = mem /\ queue' = queue
    BY <1>4 DEF SendEvent_i
  <2>2. ev \in Block => ref[ev] >= 1
    BY <1>1, <1>4, EventAssumption DEF BelowRefLimit
  <2> QED
    BY <2>1, <2>2 DEF Limited, SameQueued, Queued
<1> QED
  BY <1>2, <1>3, <1>4

LEMMA AheadOutcome ==
    ASSUME TypeOK, TypeOK', NEW e \in Epa, NEW ev \in EventPtr, SendEventAhead_i(e, ev),
           ev \in Block => ref[ev] >= 0
    PROVE  Enqueued(ev) \/ Overcounted(ev) \/ Limited(ev)
<1>1. /\ queue \in Queues /\ ref \in [Block -> Int]
      /\ QueueSize \in Nat
  BY SizesAreNat DEF TypeOK, EventTypeOK, Queues
<1>2. CASE BelowRefLimit(ev) /\ HasRoom(e)
  <2>1. /\ ref' = RefUp(ref, ev) /\ mem' = mem
        /\ queue' = [queue EXCEPT ![e] = <<ev>> \o @]
    BY <1>2 DEF SendEventAhead_i
  <2>2. Len(queue[e]) < QueueSize
    BY <1>2 DEF HasRoom
  <2>3. \A b \in Block : Queued(b)' = Queued(b) + B2N(ev = b)
    <3> TAKE b \in Block
    <3>1. Cardinality(Slots(queue', QueueSize, b))
              = Cardinality(Slots(queue, QueueSize, b)) + B2N(ev = b)
      <4>1. /\ queue' \in Queues /\ queue'[e] = <<ev>> \o queue[e]
            /\ \A f \in Epa : f # e => queue'[f] = queue[f]
        BY <1>1, <2>1 DEF TypeOK, Queues
      <4> QED
        BY <1>1, <2>2, <4>1, SlotsPrepend
    <3> QED
      BY <3>1 DEF Queued
  <2>4. CountedUp(ev)
    BY <1>1, <2>1 DEF RefUp, CountedUp, B2N
  <2> QED
    BY <2>1, <2>3, <2>4 DEF Enqueued
<1>3. CASE BelowRefLimit(ev) /\ ~HasRoom(e)
  <2>1. /\ ref' = RefUp(ref, ev) /\ mem' = Destroy(mem, ref', ev)
        /\ queue' = queue
    BY <1>3 DEF SendEventAhead_i
  <2>2. CountedUp(ev)
    BY <1>1, <2>1 DEF RefUp, CountedUp, B2N
  <2>3. mem' = mem
    BY <1>1, <2>1 DEF RefUp, Destroy, Unreferenced
  <2> QED
    BY <2>1, <2>2, <2>3 DEF Overcounted, SameQueued, Queued
<1>4. CASE ~BelowRefLimit(ev)
  <2>1. ref' = ref /\ mem' = mem /\ queue' = queue
    BY <1>4 DEF SendEventAhead_i
  <2>2. ev \in Block => ref[ev] >= 1
    BY <1>1, <1>4, EventAssumption DEF BelowRefLimit
  <2> QED
    BY <2>1, <2>2 DEF Limited, SameQueued, Queued
<1> QED
  BY <1>2, <1>3, <1>4

(* What a sender may do to the pointers: it has a pointer to the event,    *)
(* gives up its own pointer unless the event is reserved, and no other     *)
(* pointer changes.                                                        *)
HandedOver(ev) ==
    /\ UNCHANGED <<attrib, deferq, pc, cur>>
    /\ CreationsKept
    /\ \A c \in Ctx :
         /\ own'[c] = own[c] \/ (own'[c] = NoEvent /\ own[c] = ev)
         /\ arg'[c] = arg[c] \/ (arg'[c] = NoEvent /\ arg[c] = ev)
         /\ arg'[c] # NoEvent => cpc'[c] = cpc[c]
         /\ cpc'[c] = cpc[c] \/ {cpc[c], cpc'[c]} \cap {"create", "unlock", "release"} = {}
         /\ cpc[c] \in {"create", "unlock", "release"} => own'[c] = own[c]
    /\ ev \in Block =>
         /\ Settled(ev)
         /\ attrib[ev] = "reserved" => own' = own
         /\ attrib[ev] = "dynamic" =>
              /\ cur = ev => pc = "handle"
              /\ \A c \in Ctx : own'[c] # ev /\ arg'[c] # ev

LEMMA TransportKeepsRefs ==
    ASSUME TypeOK, TypeOK', LocalsOK, RefInv, NEW ev \in EventPtr, HandedOver(ev),
           Enqueued(ev) \/ Refused(ev) \/ Limited(ev) \/ Overcounted(ev)
    PROVE  RefInv' /\ (Enqueued(ev) \/ Refused(ev) \/ Limited(ev) => RefStep)
<1> USE DEF HandedOver
<1>1. /\ ref \in [Block -> Int] /\ ref' \in [Block -> Int]
      /\ mem \in [Block -> {"free", "used"}] /\ attrib \in [Block -> {"dynamic", "reserved"}]
  BY DEF TypeOK, EventTypeOK
<1>2. \A b \in Block : /\ Queued(b) \in Nat /\ Deferred(b) \in Nat /\ Holders(b) \in Nat
                       /\ Deferred(b)' = Deferred(b)
                       /\ Holders(b)' - Holders(b) = Queued(b)' - Queued(b)
  <2> TAKE b \in Block
  <2>1. /\ Queued(b) \in Nat /\ Deferred(b) \in Nat /\ Holders(b) \in Nat
        /\ Queued(b)' \in Nat
    BY HoldersAreNat, HoldersAreNatNext
  <2>2. Deferred(b)' = Deferred(b)
    BY DEF Deferred
  <2> QED
    BY <2>1, <2>2 DEF Holders, B2N
<1>3. \A b \in Block : Settled(b) => ref[b] >= Holders(b)
  BY DEF RefInv, RefCoversHolders, Settled
<1>4. ASSUME ev \in Block, attrib[ev] = "dynamic", ref[ev] = 0
      PROVE  Queued(ev) = 0 /\ Deferred(ev) = 0 /\ cur # ev
  <2>1. Holders(ev) = 0
    BY <1>1, <1>2, <1>3, <1>4
  <2> QED
    BY <1>1, <1>2, <1>4, <2>1 DEF Holders, B2N
<1>5. \A b \in Block : BeingCreated(b)' <=> BeingCreated(b)
  BY CreationsFrame
<1>6. ASSUME NEW b \in Block, mem'[b] # mem[b]
      PROVE  /\ Refused(ev) /\ ev = b /\ mem'[b] = "free"
             /\ attrib[b] = "dynamic" /\ ref[b] = 0
  BY <1>1, <1>6 DEF Enqueued, Refused, Limited, Overcounted, Destroy, Unreferenced
<1>7. \A b \in Block : Queued(b)' \in {Queued(b), Queued(b) + B2N(ev = b)}
  BY DEF Enqueued, Refused, Limited, Overcounted, SameQueued
<1>8. ASSUME NEW b \in Block, PointedTo(b)'
      PROVE  PointedTo(b) \/ b = ev
  BY <1>2, <1>7, <1>8, BlocksApart DEF PointedTo, B2N
<1>9. NoDanglingEvent'
  <2> SUFFICES ASSUME NEW b \in Block, PointedTo(b)'
               PROVE  mem'[b] = "used"
    BY DEF NoDanglingEvent
  <2>1. mem[b] = "used"
    BY <1>8 DEF RefInv, NoDanglingEvent, Settled
  <2>2. ASSUME mem'[b] # mem[b] PROVE FALSE
    <3>1. /\ SameQueued /\ b = ev /\ attrib[ev] = "dynamic" /\ ref[ev] = 0
      BY <1>6, <2>2 DEF Refused
    <3>2. Queued(b)' = 0 /\ Deferred(b)' = 0 /\ cur' # b
      BY <1>2, <1>4, <3>1 DEF SameQueued
    <3>3. \A c \in Ctx : own'[c] # b /\ arg'[c] # b
      BY <3>1
    <3> QED
      BY <3>2, <3>3 DEF PointedTo
  <2> QED
    BY <2>1, <2>2
<1>10. OwnersKept
  <2>1. ASSUME NEW c \in Ctx, NEW b \in Block, own'[c] = b, own[c] = b,
               attrib[b] = "dynamic", Unshared(b)
        PROVE  Unshared(b)'
    <3>1. b # ev
      BY <2>1
    <3>2. Holders(b)' = Holders(b)
      BY <1>2, <1>7, <3>1, HoldersAreNatNext DEF B2N
    <3>3. \A d \in Ctx : arg'[d] # b
      BY <2>1, BlocksApart DEF Unshared
    <3> QED
      BY <2>1, <3>2, <3>3 DEF Unshared
  <2>2. ASSUME NEW c \in Ctx
        PROVE  /\ own'[c] = own[c] \/ own'[c] = NoEvent
               /\ own[c] \in Block /\ attrib[own[c]] = "reserved" => own'[c] = own[c]
               /\ own'[c] \in Block => attrib'[own[c]] = attrib[own[c]]
               /\ cpc[c] = "unlock" => cpc'[c] = "unlock"
               /\ cpc'[c] \in {"create", "unlock", "release"} =>
                     cpc'[c] = cpc[c] /\ own[c] \in Block
    BY DEF LocalsOK
  <2>3. ASSUME NEW c \in Ctx, cpc'[c] \in {"create", "unlock", "release"}
        PROVE  own'[c] = own[c]
    BY <2>3
  <2> QED
    BY <1>1, <2>1, <2>2, <2>3, BlocksApart DEF OwnersKept
<1>11. NoStalePointer'
  BY DEF RefInv, NoStalePointer
<1>12. ASSUME Overcounted(ev)
       PROVE  RefInv'
  <2>1. RefCoversHolders'
    <3> SUFFICES ASSUME NEW b \in Block, Settled(b)'
                 PROVE  ref'[b] >= Holders(b)'
      BY DEF RefCoversHolders, Settled
    <3>1. Settled(b) /\ ref'[b] >= ref[b]
      BY <1>1, <1>5, <1>12 DEF Overcounted, CountedUp, B2N, Settled
    <3>2. Holders(b)' = Holders(b)
      BY <1>2, <1>12, HoldersAreNatNext DEF Overcounted, SameQueued
    <3> QED
      BY <1>1, <1>2, <1>3, <3>1, <3>2
  <2> QED
    BY <1>9, <1>10, <1>11, <1>12, <2>1, OwnersFrame DEF RefInv
<1>13. ASSUME Enqueued(ev) \/ Refused(ev) \/ Limited(ev)
       PROVE  RefStep
  <2>1. CountsKept
    <3> SUFFICES ASSUME NEW b \in Block, Settled(b)'
                 PROVE  Settled(b) /\ ref'[b] - ref[b] = Holders(b)' - Holders(b)
      BY DEF CountsKept
    <3>1. Settled(b)
      BY <1>5, <1>6 DEF Settled
    <3>2. ref'[b] - ref[b] = Queued(b)' - Queued(b)
      BY <1>1, <1>2, <1>13, HoldersAreNatNext
      DEF Enqueued, Refused, Limited, SameQueued, CountedUp, B2N
    <3> QED
      BY <1>2, <3>1, <3>2
  <2>2. NothingLost
    <3> SUFFICES ASSUME NEW b \in Block, mem'[b] = "used", mem[b] = "used" => PointedTo(b),
                        attrib[b] # "reserved", ref'[b] = 0
                 PROVE  PointedTo(b)'
      BY DEF NothingLost
    <3>1. mem[b] = "used" /\ PointedTo(b)
      BY <1>1, <1>6
    <3>2. CASE b = ev
      <4>1. ~Refused(ev)
        BY <1>1, <3>1, <3>2 DEF Refused, Destroy, Unreferenced
      <4>2. Enqueued(ev)
        BY <1>13, <3>2, <4>1 DEF Limited
      <4>3. Queued(b)' > 0
        BY <1>2, <3>2, <4>2 DEF Enqueued, B2N
      <4> QED
        BY <4>3 DEF PointedTo
    <3>3. CASE b # ev
      <4>1. Queued(b)' = Queued(b) /\ Deferred(b)' = Deferred(b)
        BY <1>2, <1>7, <3>3 DEF B2N
      <4>2. \A c \in Ctx : (own[c] = b => own'[c] = b) /\ (arg[c] = b => arg'[c] = b)
        BY <3>3
      <4> QED
        BY <3>1, <4>1, <4>2 DEF PointedTo
    <3> QED
      BY <3>2, <3>3
  <2> QED
    BY <1>9, <1>10, <1>11, <2>1, <2>2, StepGivesRefInv DEF RefStep
<1>14. CASE Overcounted(ev) /\ ~(Enqueued(ev) \/ Refused(ev) \/ Limited(ev))
  BY <1>12, <1>14
<1>15. CASE Enqueued(ev) \/ Refused(ev) \/ Limited(ev)
  BY <1>13, <1>15 DEF RefStep
<1> QED
  BY <1>14, <1>15

(* An event that nothing owns alone has been created; if it is not reserved *)
(* either, no context has a pointer to it.                                 *)
LEMMA SharedHasNoOwner ==
    ASSUME RefInv, NEW b \in Block, ~Unshared(b), cpc[Loop] # "unlock"
    PROVE  ~BeingCreated(b) /\ (attrib[b] = "dynamic" => \A c \in Ctx : own[c] # b)
<1>1. ASSUME NEW c \in Ctx, own[c] = b, attrib[b] = "dynamic"
      PROVE  FALSE
  BY <1>1 DEF RefInv, OwnershipOK
<1>2. ASSUME NEW c \in Ctx, own[c] = b, cpc[c] = "create"
      PROVE  FALSE
  BY <1>2, <1>1 DEF RefInv, OwnershipOK
<1> QED
  BY <1>1, <1>2 DEF BeingCreated

(* Only code of the loop that fetches deferred events has one in arg.      *)
LEMMA ArgIsFetched ==
    ASSUME RefInv, LocalsOK, NEW c \in Ctx, NEW b \in Block, arg[c] = b
    PROVE  c = Loop /\ cpc[Loop] \in {"fetched", "fetchedAll"} /\ pc = "handle"
  BY BlocksApart DEF RefInv, NoStalePointer, LocalsOK

LEMMA SenderHandsOver ==
    ASSUME SchedInv, RefInv, NEW c \in Ctx, NEW e \in Epa, NEW ev \in EventPtr,
           SendEvent(c, e, ev) \/ SendEventAhead(c, e, ev)
    PROVE  HandedOver(ev) /\ (ev \in Block => ref[ev] >= 0)
<1>1. /\ cpc[c] = "ready" /\ ev \in Sendable(c) /\ HandOver(c, ev)
      /\ UNCHANGED <<attrib, pc, cur, cpc, arg, deferq>>
  BY DEF SendEvent, SendEventAhead, Calling, loopVars
<1>2. LocalsOK /\ TypeOK /\ own \in [Ctx -> Block \cup {NoEvent}] /\ Loop \in Ctx
      /\ attrib \in [Block -> {"dynamic", "reserved"}]
  BY RuntimeAssumption DEF SchedInv, TypeOK, EventTypeOK
<1>3. \A d \in Ctx : own'[d] = own[d] \/ (own'[d] = NoEvent /\ own[d] = ev /\ d = c)
  BY <1>1, <1>2 DEF HandOver
<1>4. CreationsKept
  BY <1>1, <1>3 DEF CreationsKept
<1>5. ASSUME ev \in Block
      PROVE  /\ Settled(ev)
             /\ attrib[ev] = "reserved" => own' = own
             /\ attrib[ev] = "dynamic" =>
                  /\ cur = ev => pc = "handle"
                  /\ \A d \in Ctx : own'[d] # ev /\ arg'[d] # ev
  <2>1. own[c] = ev \/ (c = Loop /\ pc = "handle" /\ cur = ev)
    BY <1>1, <1>5, BlocksApart DEF Sendable
  <2>2. mem[ev] = "used"
    BY <1>5, <2>1 DEF RefInv, NoDanglingEvent, PointedTo
  <2>3. attrib[ev] = "reserved" => own' = own
    BY <1>1 DEF HandOver
  <2>4. CASE own[c] = ev
    <3>1. \A d \in Ctx : own[d] = ev => d = c
      BY <1>5, <2>4 DEF RefInv, OwnershipOK
    <3>2. Settled(ev)
      BY <1>1, <2>2, <3>1 DEF Settled, BeingCreated
    <3>3. ASSUME attrib[ev] = "dynamic"
          PROVE  cur # ev /\ \A d \in Ctx : own'[d] # ev /\ arg'[d] # ev
      <4>1. Unshared(ev)
        BY <1>1, <1>5, <2>4, <3>3 DEF RefInv, OwnershipOK
      <4>2. own'[c] = NoEvent /\ NoEvent # ev
        BY <1>1, <1>2, <1>5, <2>4, <3>3, BlocksApart DEF HandOver
      <4> QED
        BY <1>1, <1>3, <3>1, <4>1, <4>2 DEF Unshared
    <3> QED
      BY <2>3, <3>2, <3>3
  <2>5. CASE c = Loop /\ pc = "handle" /\ cur = ev
    <3>1. ~Unshared(ev) /\ cpc[Loop] # "unlock"
      BY <1>1, <2>5 DEF Unshared
    <3>2. Settled(ev)
      BY <1>5, <2>2, <3>1, SharedHasNoOwner DEF Settled
    <3>3. ASSUME attrib[ev] = "dynamic", NEW d \in Ctx
          PROVE  own'[d] # ev /\ arg'[d] # ev
      <4>1. own[d] # ev
        BY <1>5, <3>1, <3>3, SharedHasNoOwner
      <4>2. arg[d] # ev
        BY <1>1, <1>2, <1>5, <2>5, ArgIsFetched
      <4> QED
        BY <1>1, <1>3, <1>5, <4>1, <4>2, BlocksApart
    <3> QED
      BY <2>3, <2>5, <3>2, <3>3
  <2> QED
    BY <2>1, <2>4, <2>5
<1>6. ev \in Block => ref[ev] >= 0
  BY <1>2, <1>5, HoldersAreNat DEF RefInv, RefCoversHolders, Settled, TypeOK, EventTypeOK
<1> QED
  BY <1>1, <1>2, <1>3, <1>4, <1>5, <1>6 DEF HandedOver

(* nepa_send_event *)
LEMMA SendKeepsRefs ==
    ASSUME SchedInv, SchedInv', RefInv, NEW c \in Ctx, NEW e \in Epa, NEW ev \in EventPtr,
           SendEvent(c, e, ev)
    PROVE  RefStep
<1>1. TypeOK /\ TypeOK' /\ LocalsOK
  BY DEF SchedInv
<1>2. Enqueued(ev) \/ Refused(ev) \/ Limited(ev)
  BY <1>1, SendOutcome DEF SendEvent
<1> QED
  BY <1>1, <1>2, SenderHandsOver, TransportKeepsRefs

(* nepa_send_event_ahead: the counter covers the holders, but it may count *)
(* more than there are.                                                    *)
LEMMA AheadKeepsRefs ==
    ASSUME SchedInv, SchedInv', RefInv, NEW c \in Ctx, NEW e \in Epa, NEW ev \in EventPtr,
           SendEventAhead(c, e, ev)
    PROVE  RefInv'
<1>1. TypeOK /\ TypeOK' /\ LocalsOK
  BY DEF SchedInv
<1>2. HandedOver(ev) /\ (ev \in Block => ref[ev] >= 0)
  BY SenderHandsOver
<1>3. Enqueued(ev) \/ Overcounted(ev) \/ Limited(ev)
  BY <1>1, <1>2, AheadOutcome DEF SendEventAhead
<1> QED
  BY <1>1, <1>2, <1>3, TransportKeepsRefs

(* The second half of a fetch sends the event to the agent itself. *)
LEMMA FetchSendKeepsRefs ==
    ASSUME SchedInv, SchedInv', RefInv, FetchSend
    PROVE  RefStep
<1> DEFINE ev == arg[Loop]
<1>1. TypeOK /\ TypeOK' /\ LocalsOK /\ Loop \in Ctx
  BY RuntimeAssumption DEF SchedInv
<1>2. /\ cpc[Loop] \in {"fetched", "fetchedAll"} /\ SendEvent_i(current, ev)
      /\ arg' = [arg EXCEPT ![Loop] = NoEvent]
      /\ UNCHANGED <<attrib, pc, cur, own, deferq>>
  BY DEF FetchSend, loopVars
<1>3. \E m \in {"ready", "fetchNext"} : cpc' = [cpc EXCEPT ![Loop] = m]
  BY DEF FetchSend
<1>4. pc = "handle" /\ ev \in EventPtr /\ current \in Epa
  BY <1>1, <1>2 DEF LocalsOK
<1>5. Enqueued(ev) \/ Refused(ev) \/ Limited(ev)
  BY <1>1, <1>2, <1>4, SendOutcome
<1>6. CreationsKept
  BY <1>1, <1>2, <1>3 DEF CreationsKept, TypeOK
<1>7. ASSUME ev \in Block
      PROVE  /\ Settled(ev)
             /\ attrib[ev] = "dynamic" => \A d \in Ctx : own'[d] # ev /\ arg'[d] # ev
  <2>1. ~Unshared(ev) /\ cpc[Loop] # "unlock"
    BY <1>1, <1>2 DEF Unshared
  <2>2. mem[ev] = "used"
    BY <1>1, <1>7 DEF RefInv, NoDanglingEvent, PointedTo
  <2>3. ASSUME NEW d \in Ctx PROVE arg'[d] # ev
    BY <1>1, <1>2, <1>7, ArgIsFetched, BlocksApart DEF TypeOK
  <2> QED
    BY <1>2, <1>7, <2>1, <2>2, <2>3, SharedHasNoOwner DEF Settled
<1>8. HandedOver(ev)
  <2>1. ASSUME NEW c \in Ctx
        PROVE  /\ own'[c] = own[c]
               /\ arg'[c] = arg[c] \/ (arg'[c] = NoEvent /\ arg[c] = ev)
               /\ arg'[c] # NoEvent => cpc'[c] = cpc[c]
               /\ cpc'[c] = cpc[c] \/ {cpc[c], cpc'[c]} \cap {"create", "unlock", "release"} = {}
    BY <1>1, <1>2, <1>3 DEF TypeOK
  <2> QED
    BY <1>2, <1>4, <1>6, <1>7, <2>1 DEF HandedOver
<1> HIDE DEF ev
<1> QED
  BY <1>1, <1>4, <1>5, <1>8, TransportKeepsRefs

(* nepa_send_signal: the event is new and its only pointer the queue's. *)
LEMMA SignalKeepsRefs ==
    ASSUME SchedInv, SchedInv', RefInv, NEW c \in Ctx, NEW e \in Epa, SendSignal(c, e)
    PROVE  RefStep
<1>1. /\ TypeOK /\ TypeOK' /\ LocalsOK /\ queue \in Queues /\ QueueSize \in Nat
      /\ mem \in [Block -> {"free", "used"}] /\ ref \in [Block -> Int]
      /\ attrib \in [Block -> {"dynamic", "reserved"}]
  BY SizesAreNat DEF SchedInv, TypeOK, EventTypeOK, Queues
<1>2. UNCHANGED <<pc, cur, own, arg, cpc, deferq>>
  BY DEF SendSignal, loopVars, ctxVars
<1>3. PICK b \in Block :
        /\ mem[b] = "free" /\ attrib' = [attrib EXCEPT ![b] = "dynamic"]
        /\ \/ /\ HasRoom(e)
              /\ mem' = [mem EXCEPT ![b] = "used"]
              /\ ref' = [ref EXCEPT ![b] = 1]
              /\ queue' = [queue EXCEPT ![e] = Append(@, b)]
           \/ /\ ~HasRoom(e)
              /\ ref' = [ref EXCEPT ![b] = 0]
              /\ UNCHANGED <<mem, queue>>
  BY DEF SendSignal, FreeBlocks, threadVars
<1>4. ~PointedTo(b) /\ Queued(b) = 0 /\ Deferred(b) = 0
  BY <1>3, HoldersAreNat DEF RefInv, NoDanglingEvent, PointedTo
<1>5. /\ \A x \in Block : /\ Deferred(x)' = Deferred(x) /\ Queued(x) \in Nat
                          /\ Deferred(x) \in Nat /\ Holders(x) \in Nat
                          /\ Holders(x)' - Holders(x) = Queued(x)' - Queued(x)
      /\ \A x \in Block : x # b => /\ mem'[x] = mem[x] /\ ref'[x] = ref[x]
                                   /\ attrib'[x] = attrib[x]
  <2>1. \A x \in Block : Deferred(x)' = Deferred(x)
    BY <1>2 DEF Deferred
  <2>2. \A x \in Block : Holders(x)' - Holders(x) = Queued(x)' - Queued(x)
    BY <1>2, <2>1, HoldersAreNat, HoldersAreNatNext DEF Holders, B2N
  <2> QED
    BY <1>1, <1>3, <2>1, <2>2, HoldersAreNat
<1>6. \/ mem' = mem /\ \A x \in Block : Queued(x)' = Queued(x)
      \/ /\ mem'[b] = "used" /\ ref'[b] = 1
         /\ \A x \in Block : Queued(x)' = Queued(x) + B2N(b = x)
  <2>1. CASE HasRoom(e)
    <3>1. /\ queue' \in Queues /\ queue'[e] = Append(queue[e], b)
          /\ \A f \in Epa : f # e => queue'[f] = queue[f]
      BY <1>1, <1>3, <2>1 DEF TypeOK, Queues
    <3>2. Len(queue[e]) < QueueSize /\ b \in EventPtr
      BY <2>1, BlocksApart DEF HasRoom
    <3>3. \A x \in Block : Queued(x)' = Queued(x) + B2N(b = x)
      <4> TAKE x \in Block
      <4>1. Cardinality(Slots(queue', QueueSize, x))
                = Cardinality(Slots(queue, QueueSize, x)) + B2N(b = x)
        BY <1>1, <3>1, <3>2, SlotsAppend
      <4> QED
        BY <4>1 DEF Queued
    <3> QED
      BY <1>1, <1>3, <2>1, <3>3
  <2>2. CASE ~HasRoom(e)
    BY <1>3, <2>2 DEF Queued
  <2> QED
    BY <2>1, <2>2
<1>7. \A x \in Block : BeingCreated(x)' <=> BeingCreated(x)
  BY <1>2 DEF BeingCreated
<1>8. CountsKept
  <2> SUFFICES ASSUME NEW x \in Block, Settled(x)'
               PROVE  \/ ref'[x] = Holders(x)'
                      \/ Settled(x) /\ ref'[x] - ref[x] = Holders(x)' - Holders(x)
    BY DEF CountsKept
  <2>1. CASE x = b
    <3>1. Holders(b) = 0
      BY <1>4 DEF Holders, B2N, PointedTo
    <3>2. mem'[b] = "used" /\ ref'[b] = 1 /\ Queued(b)' = Queued(b) + 1
      BY <1>3, <1>6, <2>1 DEF Settled, B2N
    <3> QED
      BY <1>5, <2>1, <3>1, <3>2, HoldersAreNatNext
  <2>2. CASE x # b
    <3>1. Settled(x) /\ ref'[x] = ref[x] /\ Queued(x)' = Queued(x)
      BY <1>5, <1>6, <1>7, <2>2 DEF Settled, B2N
    <3> QED
      BY <1>1, <1>5, <3>1, HoldersAreNatNext
  <2> QED
    BY <2>1, <2>2
<1>9. ASSUME NEW x \in Block, x # b
      PROVE  PointedTo(x)' <=> PointedTo(x)
  BY <1>2, <1>5, <1>6, <1>9 DEF PointedTo, B2N
<1>10. mem'[b] = "used" \/ ~PointedTo(b)'
  BY <1>2, <1>4, <1>5, <1>6 DEF PointedTo, B2N
<1>11. NoDanglingEvent'
  BY <1>5, <1>9, <1>10 DEF RefInv, NoDanglingEvent
<1>12. OwnersKept
  <2>1. \A d \in Ctx : own[d] # b
    BY <1>4 DEF PointedTo
  <2>2. ASSUME NEW x \in Block, Unshared(x), x # b
        PROVE  Unshared(x)'
    <3>1. Queued(x)' = Queued(x)
      BY <1>5, <1>6, <2>2 DEF B2N
    <3>2. Holders(x)' = Holders(x)
      BY <1>5, <3>1, HoldersAreNatNext
    <3> QED
      BY <1>2, <2>2, <3>2 DEF Unshared
  <2> QED
    BY <1>1, <1>2, <1>3, <1>5, <2>1, <2>2 DEF OwnersKept, LocalsOK
<1>13. NoStalePointer'
  BY <1>2 DEF RefInv, NoStalePointer
<1>14. NothingLost
  <2>1. mem'[b] = "used" => PointedTo(b)'
    BY <1>3, <1>4, <1>6 DEF PointedTo, B2N
  <2>2. ASSUME NEW x \in Block, x # b, mem'[x] = "used", mem[x] = "used" => PointedTo(x)
        PROVE  PointedTo(x)'
    BY <1>5, <1>9, <2>2
  <2> QED
    BY <2>1, <2>2 DEF NothingLost
<1> QED
  BY <1>1, <1>8, <1>11, <1>12, <1>13, <1>14, StepGivesRefInv DEF RefStep

--------------------------------------------------------------------------------
(* Calls of an owner that move no event.                                   *)

LEMMA ManagementFrame ==
    ASSUME UNCHANGED <<queue, deferq, loopVars, arg>>
    PROVE  /\ \A b : /\ Queued(b)' = Queued(b) /\ Deferred(b)' = Deferred(b)
                     /\ Holders(b)' = Holders(b)
                     /\ Unshared(b)' <=> Unshared(b)
           /\ \A b : PointedTo(b)' => PointedTo(b) \/ \E c \in Ctx : own'[c] = b
           /\ \A b : PointedTo(b) => PointedTo(b)' \/ \E c \in Ctx : own[c] = b
<1>1. \A b : /\ Queued(b)' = Queued(b) /\ Deferred(b)' = Deferred(b)
             /\ Holders(b)' = Holders(b)
  BY DEF Queued, Deferred, Holders, B2N, loopVars
<1>2. cur' = cur /\ arg' = arg
  BY DEF loopVars
<1> QED
  BY <1>1, <1>2 DEF PointedTo, Unshared

(* Counters and local pointers are not touched by such a call. *)
LEMMA ManagementKeeps ==
    ASSUME TypeOK, RefInv, UNCHANGED <<queue, deferq, loopVars, arg>>,
           \A b \in Block : Settled(b)' => \/ Settled(b) /\ ref'[b] = ref[b]
                                           \/ ref'[b] = 0 /\ Unshared(b),
           \A c \in Ctx : cpc'[c] = cpc[c] \/ cpc[c] \notin {"register", "fetched", "fetchedAll"}
    PROVE  CountsKept /\ NoStalePointer'
<1>1. CountsKept
  <2> SUFFICES ASSUME NEW b \in Block, Settled(b)'
               PROVE  \/ ref'[b] = Holders(b)'
                      \/ Settled(b) /\ ref'[b] - ref[b] = Holders(b)' - Holders(b)
    BY DEF CountsKept
  <2>1. Holders(b)' = Holders(b) /\ Holders(b) \in Nat /\ ref[b] \in Int
    BY ManagementFrame, HoldersAreNat DEF TypeOK, EventTypeOK
  <2>2. Unshared(b) => Holders(b) = 0
    BY DEF Unshared
  <2> QED
    BY <2>1, <2>2
<1>2. NoStalePointer'
  BY DEF RefInv, NoStalePointer, loopVars
<1> QED
  BY <1>1, <1>2

(* An owner's event is in use and has no other owner. *)
LEMMA OwnerIsAlone ==
    ASSUME RefInv, NEW c \in Ctx, NEW b \in Block, own[c] = b
    PROVE  /\ mem[b] = "used"
           /\ \A d \in Ctx : own[d] = b => d = c
           /\ cpc[c] # "create" => Settled(b)
           /\ attrib[b] = "dynamic" /\ cpc[c] # "unlock" => Unshared(b)
<1>1. mem[b] = "used"
  BY DEF RefInv, NoDanglingEvent, PointedTo
<1>2. \A d \in Ctx : own[d] = b => d = c
  BY DEF RefInv, OwnershipOK
<1>3. attrib[b] = "dynamic" /\ cpc[c] # "unlock" => Unshared(b)
  BY DEF RefInv, OwnershipOK
<1> QED
  BY <1>1, <1>2, <1>3 DEF Settled, BeingCreated

(* nevent_create, the allocation. *)
LEMMA CreateAllocKeepsRefs ==
    ASSUME SchedInv, SchedInv', RefInv, NEW c \in Ctx, CreateAlloc(c)
    PROVE  RefStep
<1>1. /\ TypeOK /\ TypeOK' /\ own \in [Ctx -> Block \cup {NoEvent}] /\ mem \in [Block -> {"free", "used"}]
      /\ attrib \in [Block -> {"dynamic", "reserved"}]
      /\ cpc \in [Ctx -> {"ready", "create", "unlock", "release", "register",
                          "fetched", "fetchedAll", "fetchNext"}]
  BY DEF SchedInv, TypeOK, EventTypeOK
<1>2. PICK b \in Block :
        mem[b] = "free" /\ mem' = [mem EXCEPT ![b] = "used"] /\ own' = [own EXCEPT ![c] = b]
  BY DEF CreateAlloc, FreeBlocks
<1>3. /\ cpc[c] = "ready" /\ own[c] = NoEvent /\ cpc' = [cpc EXCEPT ![c] = "create"]
      /\ UNCHANGED <<ref, attrib, queue, deferq, loopVars, arg>>
  BY DEF CreateAlloc, Calling
<1>4. ~PointedTo(b)
  BY <1>2 DEF RefInv, NoDanglingEvent
<1>5. Unshared(b) /\ \A d \in Ctx : own[d] # b
  BY <1>4, HoldersAreNat DEF PointedTo, Unshared, Holders, B2N
<1>6. /\ own'[c] = b /\ cpc'[c] = "create" /\ mem'[b] = "used"
      /\ \A d \in Ctx : d # c => own'[d] = own[d] /\ cpc'[d] = cpc[d]
      /\ \A x \in Block : x # b => mem'[x] = mem[x]
  BY <1>1, <1>2, <1>3
<1>7. \A x \in Block : BeingCreated(x)' <=> BeingCreated(x) \/ x = b
  BY <1>3, <1>6 DEF BeingCreated
<1>8. CountsKept /\ NoStalePointer'
  BY <1>1, <1>3, <1>6, <1>7, ManagementKeeps DEF Settled
<1>9. NoDanglingEvent'
  <2> SUFFICES ASSUME NEW x \in Block, PointedTo(x)', x # b
               PROVE  mem[x] = "used"
    BY <1>6 DEF NoDanglingEvent
  <2>1. PointedTo(x)
    BY <1>3, <1>6, ManagementFrame DEF PointedTo
  <2> QED
    BY <2>1 DEF RefInv, NoDanglingEvent
<1>10. OwnershipOK'
  <2>1. attrib[b] = "dynamic"
    BY <1>1, <1>5 DEF RefInv, OwnershipOK
  <2>2. \A d, f \in Ctx : own'[d] \in Block /\ own'[d] = own'[f] => d = f
    BY <1>5, <1>6 DEF RefInv, OwnershipOK
  <2>3. \A x \in Block : attrib'[x] = "reserved" => \E d \in Ctx : own'[d] = x
    BY <1>3, <1>6, BlocksApart DEF RefInv, OwnershipOK
  <2>4. ASSUME NEW d \in Ctx
        PROVE  /\ cpc'[d] \in {"create", "unlock", "release"} => attrib'[own'[d]] = "dynamic"
               /\ cpc'[d] \in {"unlock", "release"} => d = Loop
    BY <1>3, <1>6, <2>1 DEF RefInv, OwnershipOK
  <2>5. ASSUME NEW d \in Ctx, NEW x \in Block,
               own'[d] = x, attrib'[x] = "dynamic", cpc'[d] # "unlock"
        PROVE  Unshared(x)'
    <3>1. Unshared(x)
      BY <1>3, <1>5, <1>6, <2>5 DEF RefInv, OwnershipOK
    <3> QED
      BY <1>3, <3>1, ManagementFrame
  <2> QED
    BY <2>2, <2>3, <2>4, <2>5 DEF OwnershipOK
<1>11. NothingLost
  <2> SUFFICES ASSUME NEW x \in Block, mem[x] = "used" => PointedTo(x), mem'[x] = "used"
               PROVE  PointedTo(x)'
    BY DEF NothingLost
  <2>1. CASE x = b
    BY <1>6, <2>1 DEF PointedTo
  <2>2. CASE x # b
    <3>1. PointedTo(x)
      BY <1>6, <2>2
    <3>2. \A d \in Ctx : own[d] = x => own'[d] = x
      BY <1>3, <1>6, BlocksApart
    <3> QED
      BY <1>3, <3>1, <3>2, ManagementFrame DEF PointedTo
  <2> QED
    BY <2>1, <2>2
<1>12. RefCoversHolders'
  BY <1>1, <1>8, CountsKeptIsEnough DEF RefInv
<1> QED
  BY <1>8, <1>9, <1>10, <1>11, <1>12 DEF RefInv, RefStep

(* nevent_create, the initialization of the header. *)
LEMMA CreateInitKeepsRefs ==
    ASSUME SchedInv, SchedInv', RefInv, NEW c \in Ctx, CreateInit(c)
    PROVE  RefStep
<1>1. /\ TypeOK /\ TypeOK' /\ LocalsOK /\ attrib \in [Block -> {"dynamic", "reserved"}]
      /\ ref \in [Block -> Int]
      /\ cpc \in [Ctx -> {"ready", "create", "unlock", "release", "register",
                          "fetched", "fetchedAll", "fetchNext"}]
  BY DEF SchedInv, TypeOK, EventTypeOK
<1>2. /\ cpc[c] = "create" /\ cpc' = [cpc EXCEPT ![c] = "ready"]
      /\ ref' = [ref EXCEPT ![own[c]] = 0]
      /\ attrib' = [attrib EXCEPT ![own[c]] = "dynamic"]
      /\ UNCHANGED <<mem, own, queue, deferq, loopVars, arg>>
  BY DEF CreateInit
<1>3. PICK b \in Block : own[c] = b
  BY <1>1, <1>2 DEF LocalsOK
<1>4. attrib[b] = "dynamic"
  BY <1>2, <1>3 DEF RefInv, OwnershipOK
<1>5. mem[b] = "used" /\ (\A d \in Ctx : own[d] = b => d = c) /\ Unshared(b)
  BY <1>2, <1>3, <1>4, OwnerIsAlone
<1>6. /\ attrib' = attrib /\ ref'[b] = 0 /\ cpc'[c] = "ready"
      /\ \A d \in Ctx : d # c => cpc'[d] = cpc[d]
      /\ \A x \in Block : x # b => ref'[x] = ref[x]
  BY <1>1, <1>2, <1>3, <1>4
<1>7. \A x \in Block : x # b => (BeingCreated(x)' <=> BeingCreated(x))
  BY <1>2, <1>3, <1>5, <1>6 DEF BeingCreated
<1>8. CountsKept /\ NoStalePointer'
  <2>1. \A x \in Block : Settled(x)' => \/ Settled(x) /\ ref'[x] = ref[x]
                                        \/ ref'[x] = 0 /\ Unshared(x)
    BY <1>2, <1>5, <1>6, <1>7 DEF Settled
  <2>2. \A d \in Ctx : cpc'[d] = cpc[d] \/ cpc[d] \notin {"register", "fetched", "fetchedAll"}
    BY <1>2, <1>6
  <2> QED
    BY <1>1, <1>2, <2>1, <2>2, ManagementKeeps
<1>9. \A x \in Block : PointedTo(x)' <=> PointedTo(x)
  BY <1>2, ManagementFrame DEF PointedTo
<1>10. NoDanglingEvent'
  BY <1>2, <1>9 DEF RefInv, NoDanglingEvent
<1>11. OwnersKept
  BY <1>1, <1>2, <1>6, ManagementFrame DEF OwnersKept, LocalsOK
<1>12. NothingLost
  BY <1>2, <1>9 DEF NothingLost
<1> QED
  BY <1>1, <1>8, <1>10, <1>11, <1>12, StepGivesRefInv DEF RefStep

(* nevent_destroy by the owner: what is not freed keeps a count. *)
LEMMA DestroyOwnKeepsRefs ==
    ASSUME SchedInv, SchedInv', RefInv, NEW c \in Ctx, DestroyOwn(c)
    PROVE  RefStep
<1>1. /\ TypeOK /\ TypeOK' /\ LocalsOK /\ own \in [Ctx -> Block \cup {NoEvent}]
      /\ mem \in [Block -> {"free", "used"}]
  BY DEF SchedInv, TypeOK, EventTypeOK
<1>2. /\ cpc[c] = "ready" /\ own[c] # NoEvent /\ attrib[own[c]] = "dynamic"
      /\ mem' = Destroy(mem, ref, own[c]) /\ own' = [own EXCEPT ![c] = NoEvent]
      /\ UNCHANGED <<ref, attrib, cpc, queue, deferq, loopVars, arg>>
  BY DEF DestroyOwn, Calling
<1>3. PICK b \in Block : own[c] = b
  BY <1>1, <1>2
<1>4. /\ mem[b] = "used" /\ (\A d \in Ctx : own[d] = b => d = c)
      /\ Settled(b) /\ Unshared(b)
  BY <1>2, <1>3, OwnerIsAlone
<1>5. /\ own'[c] = NoEvent /\ \A d \in Ctx : d # c => own'[d] = own[d]
      /\ \A x \in Block : x # b => mem'[x] = mem[x]
      /\ mem'[b] = "used" => ref[b] # 0
      /\ \A x \in Block : mem'[x] = "used" => mem[x] = "used"
  BY <1>1, <1>2, <1>3, <1>4 DEF Destroy, Unreferenced
<1>6. CreationsKept
  BY <1>2, <1>5 DEF CreationsKept
<1>7. CountsKept /\ NoStalePointer'
  <2>1. \A x \in Block : Settled(x)' => Settled(x) /\ ref'[x] = ref[x]
    BY <1>2, <1>5, <1>6, CreationsFrame DEF Settled
  <2> QED
    BY <1>1, <1>2, <2>1, ManagementKeeps
<1>8. ~PointedTo(b)'
  <2>1. \A d \in Ctx : own'[d] # b
    BY <1>3, <1>4, <1>5, BlocksApart
  <2>2. Unshared(b)'
    BY <1>2, <1>4, ManagementFrame
  <2>3. Queued(b)' = 0 /\ Deferred(b)' = 0
    BY <1>2, <1>4, ManagementFrame, UnsharedIsCounted
  <2> QED
    BY <2>1, <2>2, <2>3 DEF PointedTo, Unshared
<1>9. ASSUME NEW x \in Block, x # b
       PROVE  PointedTo(x)' <=> PointedTo(x)
  <2>1. \A d \in Ctx : own'[d] = x <=> own[d] = x
    BY <1>3, <1>5, <1>9, BlocksApart
  <2> QED
    BY <1>2, <2>1, ManagementFrame DEF PointedTo
<1>10. NoDanglingEvent'
  BY <1>5, <1>8, <1>9 DEF RefInv, NoDanglingEvent
<1>11. OwnersKept
  <2>1. \A x : Unshared(x) => Unshared(x)'
    BY <1>2, ManagementFrame
  <2> QED
    BY <1>1, <1>2, <1>3, <1>5, <2>1, BlocksApart DEF OwnersKept, LocalsOK
<1>12. NothingLost
  BY <1>2, <1>5, <1>9 DEF NothingLost
<1> QED
  BY <1>1, <1>7, <1>10, <1>11, <1>12, StepGivesRefInv DEF RefStep

(* nevent_lock, also of the event being handled, which gets an owner. *)
LEMMA ReserveKeepsRefs ==
    ASSUME SchedInv, SchedInv', RefInv, NEW c \in Ctx, NEW b \in Block, Reserve(c, b)
    PROVE  RefStep
<1>1. /\ TypeOK /\ TypeOK' /\ own \in [Ctx -> Block \cup {NoEvent}]
      /\ attrib \in [Block -> {"dynamic", "reserved"}]
  BY DEF SchedInv, TypeOK, EventTypeOK
<1>2. /\ cpc[c] = "ready" /\ attrib[b] = "dynamic"
      /\ b = own[c] \/ (c = Loop /\ pc = "handle" /\ b = cur /\ own[c] = NoEvent)
      /\ attrib' = [attrib EXCEPT ![b] = "reserved"] /\ own' = [own EXCEPT ![c] = b]
      /\ UNCHANGED <<mem, ref, cpc, queue, deferq, loopVars, arg>>
  BY DEF Reserve, Calling
<1>3. /\ own'[c] = b /\ \A d \in Ctx : d # c => own'[d] = own[d]
      /\ attrib'[b] = "reserved" /\ \A x \in Block : x # b => attrib'[x] = attrib[x]
  BY <1>1, <1>2
<1>4. \A d \in Ctx : own[d] = b => d = c
  <2>1. CASE b = own[c]
    BY <2>1, OwnerIsAlone
  <2>2. CASE c = Loop /\ pc = "handle" /\ b = cur
    <3>1. ~Unshared(b) /\ cpc[Loop] # "unlock"
      BY <1>2, <2>2 DEF Unshared
    <3> QED
      BY <1>2, <3>1, SharedHasNoOwner
  <2> QED
    BY <1>2, <2>1, <2>2
<1>5. \A x \in Block : PointedTo(x)' <=> PointedTo(x)
  <2>1. PointedTo(b) /\ PointedTo(b)'
    BY <1>2, <1>3 DEF PointedTo
  <2>2. ASSUME NEW x \in Block, x # b
        PROVE  \A d \in Ctx : own'[d] = x <=> own[d] = x
    BY <1>2, <1>3, <2>2, BlocksApart
  <2> QED
    BY <1>2, <2>1, <2>2, ManagementFrame DEF PointedTo
<1>6. CreationsKept
  BY <1>2, <1>3 DEF CreationsKept
<1>7. CountsKept /\ NoStalePointer'
  <2>1. \A x \in Block : Settled(x)' => Settled(x) /\ ref'[x] = ref[x]
    BY <1>2, <1>6, CreationsFrame DEF Settled
  <2> QED
    BY <1>1, <1>2, <2>1, ManagementKeeps
<1>8. NoDanglingEvent'
  BY <1>2, <1>5 DEF RefInv, NoDanglingEvent
<1>9. OwnershipOK'
  <2>1. \A d, f \in Ctx : own'[d] \in Block /\ own'[d] = own'[f] => d = f
    BY <1>3, <1>4 DEF RefInv, OwnershipOK
  <2>2. \A x \in Block : attrib'[x] = "reserved" => \E d \in Ctx : own'[d] = x
    BY <1>2, <1>3, BlocksApart DEF RefInv, OwnershipOK
  <2>3. ASSUME NEW d \in Ctx, cpc'[d] \in {"create", "unlock", "release"}
        PROVE  /\ attrib'[own'[d]] = "dynamic"
               /\ cpc'[d] \in {"unlock", "release"} => d = Loop
    <3>1. d # c /\ own'[d] = own[d] /\ own[d] # b
      BY <1>2, <1>3, <1>4, <2>3
    <3>2. attrib'[own[d]] = attrib[own[d]]
      BY <1>1, <2>3, <1>3, <1>2, <3>1 DEF SchedInv, LocalsOK
    <3> QED
      BY <1>2, <2>3, <3>1, <3>2 DEF RefInv, OwnershipOK
  <2>4. ASSUME NEW d \in Ctx, NEW x \in Block,
               own'[d] = x, attrib'[x] = "dynamic", cpc'[d] # "unlock"
        PROVE  Unshared(x)'
    <3>1. Unshared(x)
      BY <1>2, <1>3, <2>4 DEF RefInv, OwnershipOK
    <3> QED
      BY <1>2, <3>1, ManagementFrame
  <2> QED
    BY <2>1, <2>2, <2>3, <2>4 DEF OwnershipOK
<1>10. NothingLost
  BY <1>2, <1>5 DEF NothingLost
<1>11. RefCoversHolders'
  BY <1>1, <1>7, CountsKeptIsEnough DEF RefInv
<1> QED
  BY <1>7, <1>8, <1>9, <1>10, <1>11 DEF RefInv, RefStep

(* nevent_unlock, the attribute: made by code of the loop. *)
LEMMA UnlockClearKeepsRefs ==
    ASSUME UnlocksInLoop, SchedInv, SchedInv', RefInv, NEW c \in Ctx, UnlockClear(c)
    PROVE  RefStep
<1>1. /\ TypeOK /\ TypeOK' /\ own \in [Ctx -> Block \cup {NoEvent}]
      /\ attrib \in [Block -> {"dynamic", "reserved"}]
      /\ cpc \in [Ctx -> {"ready", "create", "unlock", "release", "register",
                          "fetched", "fetchedAll", "fetchNext"}]
  BY DEF SchedInv, TypeOK, EventTypeOK
<1>2. /\ cpc[c] = "ready" /\ own[c] # NoEvent /\ c = Loop
      /\ attrib' = [attrib EXCEPT ![own[c]] = "dynamic"]
      /\ cpc' = [cpc EXCEPT ![c] = "unlock"]
      /\ UNCHANGED <<mem, ref, own, queue, deferq, loopVars, arg>>
  BY DEF UnlockClear, Calling, UnlocksInLoop
<1>3. PICK b \in Block : own[c] = b
  BY <1>1, <1>2
<1>4. /\ cpc'[c] = "unlock" /\ \A d \in Ctx : d # c => cpc'[d] = cpc[d]
      /\ attrib'[b] = "dynamic" /\ \A x \in Block : x # b => attrib'[x] = attrib[x]
  BY <1>1, <1>2, <1>3
<1>5. \A d \in Ctx : own[d] = b => d = c
  BY <1>3, OwnerIsAlone
<1>6. \A x \in Block : PointedTo(x)' <=> PointedTo(x)
  BY <1>2, ManagementFrame DEF PointedTo
<1>7. CreationsKept
  BY <1>2, <1>4 DEF CreationsKept
<1>8. CountsKept /\ NoStalePointer'
  <2>1. \A x \in Block : Settled(x)' => Settled(x) /\ ref'[x] = ref[x]
    BY <1>2, <1>7, CreationsFrame DEF Settled
  <2>2. \A d \in Ctx : cpc'[d] = cpc[d] \/ cpc[d] \notin {"register", "fetched", "fetchedAll"}
    BY <1>2, <1>4
  <2> QED
    BY <1>1, <1>2, <2>1, <2>2, ManagementKeeps
<1>9. NoDanglingEvent'
  BY <1>2, <1>6 DEF RefInv, NoDanglingEvent
<1>10. OwnershipOK'
  <2>1. \A x \in Block : attrib'[x] = "reserved" => attrib[x] = "reserved"
    BY <1>4
  <2>2. ASSUME NEW d \in Ctx, cpc'[d] \in {"create", "unlock", "release"}
        PROVE  /\ attrib'[own'[d]] = "dynamic"
               /\ cpc'[d] \in {"unlock", "release"} => d = Loop
    <3>1. CASE d = c
      BY <1>2, <1>3, <1>4, <3>1
    <3>2. CASE d # c
      <4>1. own[d] \in Block /\ own[d] # b /\ cpc'[d] = cpc[d]
        BY <1>4, <1>5, <2>2, <3>2 DEF SchedInv, LocalsOK
      <4> QED
        BY <1>2, <1>4, <2>2, <4>1 DEF RefInv, OwnershipOK
    <3> QED
      BY <3>1, <3>2
  <2>3. ASSUME NEW d \in Ctx, NEW x \in Block,
               own'[d] = x, attrib'[x] = "dynamic", cpc'[d] # "unlock"
        PROVE  Unshared(x)'
    <3>1. d # c /\ own[d] = x /\ x # b
      BY <1>2, <1>4, <1>5, <2>3
    <3>2. Unshared(x)
      BY <1>4, <2>3, <3>1 DEF RefInv, OwnershipOK
    <3> QED
      BY <1>2, <3>2, ManagementFrame
  <2> QED
    BY <1>2, <2>1, <2>2, <2>3 DEF RefInv, OwnershipOK
<1>11. NothingLost
  BY <1>2, <1>6 DEF NothingLost
<1>12. RefCoversHolders'
  BY <1>1, <1>8, CountsKeptIsEnough DEF RefInv
<1> QED
  BY <1>8, <1>9, <1>10, <1>11, <1>12 DEF RefInv, RefStep

(* nevent_unlock, the counter: read by code of the loop, so that an event  *)
(* that reads zero is in no queue and not being handled.                   *)
LEMMA UnlockTestKeepsRefs ==
    ASSUME SchedInv, SchedInv', RefInv, NEW c \in Ctx, UnlockTest(c)
    PROVE  RefStep
<1>1. /\ TypeOK /\ TypeOK' /\ LocalsOK /\ own \in [Ctx -> Block \cup {NoEvent}]
      /\ ref \in [Block -> Int]
      /\ cpc \in [Ctx -> {"ready", "create", "unlock", "release", "register",
                          "fetched", "fetchedAll", "fetchNext"}]
  BY DEF SchedInv, TypeOK, EventTypeOK
<1>2. cpc[c] = "unlock" /\ Running(c) /\ UNCHANGED <<mem, ref, attrib, queue, deferq, loopVars, arg>>
  BY DEF UnlockTest, eventVars
<1>3. PICK b \in Block : own[c] = b
  BY <1>1, <1>2 DEF LocalsOK
<1>4. attrib[b] = "dynamic" /\ c = Loop
  BY <1>2, <1>3 DEF RefInv, OwnershipOK
<1>5. Settled(b) /\ \A d \in Ctx : own[d] = b => d = c
  BY <1>2, <1>3, OwnerIsAlone
<1>6. \A d \in Ctx : cpc'[d] = cpc[d] \/ (d = c /\ cpc'[d] \in {"ready", "release"})
  BY <1>1, <1>2 DEF UnlockTest
<1>7. \/ ref[b] = 0 /\ own' = own
      \/ /\ ref[b] # 0 /\ cpc'[c] = "ready" /\ own'[c] = NoEvent
         /\ \A d \in Ctx : d # c => own'[d] = own[d]
  BY <1>1, <1>3 DEF UnlockTest
<1>8. CreationsKept
  BY <1>2, <1>6, <1>7 DEF CreationsKept
<1>9. CountsKept /\ NoStalePointer'
  <2>1. \A x \in Block : Settled(x)' => Settled(x) /\ ref'[x] = ref[x]
    BY <1>2, <1>8, CreationsFrame DEF Settled
  <2>2. \A d \in Ctx : cpc'[d] = cpc[d] \/ cpc[d] \notin {"register", "fetched", "fetchedAll"}
    BY <1>2, <1>6
  <2> QED
    BY <1>1, <1>2, <2>1, <2>2, ManagementKeeps
<1>10. ASSUME NEW x \in Block, PointedTo(x)'
       PROVE  PointedTo(x)
  <2>1. \A d \in Ctx : own'[d] = x => own[d] = x
    BY <1>7, BlocksApart
  <2> QED
    BY <1>2, <1>10, <2>1, ManagementFrame DEF PointedTo
<1>11. NoDanglingEvent'
  BY <1>2, <1>10 DEF RefInv, NoDanglingEvent
<1>12. ASSUME ref[b] = 0
       PROVE  Unshared(b)
  <2>1. Holders(b) = 0
    BY <1>5, <1>12, HoldersAreNat DEF RefInv, RefCoversHolders, Settled
  <2>2. cur # b
    <3>1. pc = "handle" => cur # b
      BY <2>1, HoldersAreNat DEF Holders, B2N
    <3>2. pc # "handle" => cur = NoEvent
      BY <1>2, <1>4 DEF RefInv, NoStalePointer, Running
    <3> QED
      BY <3>1, <3>2, BlocksApart
  <2>3. \A d \in Ctx : arg[d] # b
    BY <1>1, <1>2, <1>4, ArgIsFetched
  <2> QED
    BY <2>1, <2>2, <2>3 DEF Unshared
<1>13. OwnershipOK'
  <2>1. \A d, f \in Ctx : own'[d] \in Block /\ own'[d] = own'[f] => d = f
    BY <1>7, BlocksApart DEF RefInv, OwnershipOK
  <2>2. \A x \in Block : attrib'[x] = "reserved" => \E d \in Ctx : own'[d] = x
    BY <1>2, <1>3, <1>4, <1>7 DEF RefInv, OwnershipOK
  <2>3. ASSUME NEW d \in Ctx, cpc'[d] \in {"create", "unlock", "release"}
        PROVE  /\ attrib'[own'[d]] = "dynamic"
               /\ cpc'[d] \in {"unlock", "release"} => d = Loop
    BY <1>2, <1>3, <1>4, <1>6, <1>7, <2>3 DEF RefInv, OwnershipOK
  <2>4. ASSUME NEW d \in Ctx, NEW x \in Block,
               own'[d] = x, attrib'[x] = "dynamic", cpc'[d] # "unlock"
        PROVE  Unshared(x)'
    <3>1. Unshared(x)
      BY <1>2, <1>3, <1>6, <1>7, <1>12, <2>4, BlocksApart DEF RefInv, OwnershipOK
    <3> QED
      BY <1>2, <3>1, ManagementFrame
  <2> QED
    BY <2>1, <2>2, <2>3, <2>4 DEF OwnershipOK
<1>14. NothingLost
  <2> SUFFICES ASSUME NEW x \in Block, PointedTo(x), ref[x] = 0
               PROVE  PointedTo(x)'
    BY <1>2 DEF NothingLost
  <2>1. \A d \in Ctx : own[d] = x => own'[d] = x
    BY <1>3, <1>7
  <2> QED
    BY <1>2, <2>1, ManagementFrame DEF PointedTo
<1>15. RefCoversHolders'
  BY <1>1, <1>9, CountsKeptIsEnough DEF RefInv
<1> QED
  BY <1>9, <1>11, <1>13, <1>14, <1>15 DEF RefInv, RefStep

(* nevent_unlock, the block of an event that read zero. *)
LEMMA UnlockReleaseKeepsRefs ==
    ASSUME SchedInv, SchedInv', RefInv, NEW c \in Ctx, UnlockRelease(c)
    PROVE  RefStep
<1>1. /\ TypeOK /\ TypeOK' /\ LocalsOK /\ own \in [Ctx -> Block \cup {NoEvent}]
      /\ mem \in [Block -> {"free", "used"}]
      /\ cpc \in [Ctx -> {"ready", "create", "unlock", "release", "register",
                          "fetched", "fetchedAll", "fetchNext"}]
  BY DEF SchedInv, TypeOK, EventTypeOK
<1>2. /\ cpc[c] = "release" /\ cpc' = [cpc EXCEPT ![c] = "ready"]
      /\ mem' = [mem EXCEPT ![own[c]] = "free"] /\ own' = [own EXCEPT ![c] = NoEvent]
      /\ UNCHANGED <<ref, attrib, queue, deferq, loopVars, arg>>
  BY DEF UnlockRelease
<1>3. PICK b \in Block : own[c] = b
  BY <1>1, <1>2 DEF LocalsOK
<1>4. attrib[b] = "dynamic"
  BY <1>2, <1>3 DEF RefInv, OwnershipOK
<1>5. Unshared(b) /\ \A d \in Ctx : own[d] = b => d = c
  BY <1>2, <1>3, <1>4, OwnerIsAlone
<1>6. /\ own'[c] = NoEvent /\ \A d \in Ctx : d # c => own'[d] = own[d] /\ cpc'[d] = cpc[d]
      /\ cpc'[c] = "ready" /\ mem'[b] = "free" /\ \A x \in Block : x # b => mem'[x] = mem[x]
  BY <1>1, <1>2, <1>3
<1>7. CreationsKept
  BY <1>2, <1>6 DEF CreationsKept
<1>8. CountsKept /\ NoStalePointer'
  <2>1. \A x \in Block : Settled(x)' => Settled(x) /\ ref'[x] = ref[x]
    BY <1>2, <1>6, <1>7, CreationsFrame DEF Settled
  <2>2. \A d \in Ctx : cpc'[d] = cpc[d] \/ cpc[d] \notin {"register", "fetched", "fetchedAll"}
    BY <1>2, <1>6
  <2> QED
    BY <1>1, <1>2, <2>1, <2>2, ManagementKeeps
<1>9. ~PointedTo(b)'
  <2>1. \A d \in Ctx : own'[d] # b
    BY <1>3, <1>5, <1>6, BlocksApart
  <2>2. Unshared(b)' /\ Queued(b)' = 0 /\ Deferred(b)' = 0
    BY <1>2, <1>5, ManagementFrame, UnsharedIsCounted
  <2> QED
    BY <2>1, <2>2 DEF PointedTo, Unshared
<1>10. ASSUME NEW x \in Block, x # b
       PROVE  PointedTo(x)' <=> PointedTo(x)
  <2>1. \A d \in Ctx : own'[d] = x <=> own[d] = x
    BY <1>3, <1>6, <1>10, BlocksApart
  <2> QED
    BY <1>2, <2>1, ManagementFrame DEF PointedTo
<1>11. NoDanglingEvent'
  BY <1>6, <1>9, <1>10 DEF RefInv, NoDanglingEvent
<1>12. OwnersKept
  <2>1. \A x : Unshared(x) => Unshared(x)'
    BY <1>2, ManagementFrame
  <2> QED
    BY <1>1, <1>2, <1>3, <1>4, <1>6, <2>1, BlocksApart DEF OwnersKept, LocalsOK
<1>13. NothingLost
  BY <1>6, <1>10 DEF NothingLost
<1> QED
  BY <1>1, <1>8, <1>11, <1>12, <1>13, StepGivesRefInv DEF RefStep

--------------------------------------------------------------------------------
(* Deferred events and dispatches: a pointer moves, and the counter follows. *)

LEMMA MoveKeepsCounts ==
    ASSUME CreationsKept, mem' = mem,
           \A b \in Block : ref'[b] - ref[b] = Holders(b)' - Holders(b)
    PROVE  CountsKept
  BY CreationsFrame DEF CountsKept, Settled

(* nepa_defer_event *)
LEMMA DeferKeepsRefs ==
    ASSUME SchedInv, SchedInv', RefInv, DeferEvent
    PROVE  RefStep
<1>1. /\ TypeOK /\ TypeOK' /\ LocalsOK /\ deferq \in Queues /\ DeferSize \in Nat
      /\ ref \in [Block -> Int]
  BY SizesAreNat DEF SchedInv, TypeOK, EventTypeOK, Queues
<1>2. /\ pc = "handle" /\ Len(deferq[current]) < DeferSize /\ ref' = RefUp(ref, cur)
      /\ deferq' = [deferq EXCEPT ![current] = Append(@, cur)]
      /\ UNCHANGED <<mem, attrib, pc, cur, own, arg, cpc, queue>>
  BY DEF DeferEvent, loopVars, ctxVars
<1>3. current \in Epa /\ cur \in EventPtr /\ Len(deferq[current]) < DeferSize
  BY <1>1, <1>2 DEF LocalsOK
<1>4. ASSUME NEW b \in Block
      PROVE  /\ Deferred(b)' = Deferred(b) + B2N(cur = b) /\ Queued(b)' = Queued(b)
             /\ ref'[b] = ref[b] + B2N(cur = b)
             /\ Holders(b)' = Holders(b) + B2N(cur = b)
             /\ Deferred(b) \in Nat /\ Holders(b) \in Nat
  <2>1. Cardinality(Slots(deferq', DeferSize, b))
            = Cardinality(Slots(deferq, DeferSize, b)) + B2N(cur = b)
    <3>1. /\ deferq' \in Queues /\ deferq'[current] = Append(deferq[current], cur)
          /\ \A f \in Epa : f # current => deferq'[f] = deferq[f]
      BY <1>1, <1>2, <1>3 DEF TypeOK, Queues
    <3> QED
      BY <1>1, <1>3, <3>1, SlotsAppend
  <2>2. Deferred(b)' = Deferred(b) + B2N(cur = b) /\ Queued(b)' = Queued(b)
    BY <1>2, <2>1 DEF Deferred, Queued
  <2>3. ref'[b] = ref[b] + B2N(cur = b)
    BY <1>1, <1>2 DEF RefUp, B2N
  <2>4. Holders(b)' = Holders(b) + B2N(cur = b)
    BY <1>2, <2>2, HoldersAreNat DEF Holders, B2N
  <2> QED
    BY <2>2, <2>3, <2>4, HoldersAreNat
<1>5. CountsKept
  <2>1. \A b \in Block : ref'[b] - ref[b] = Holders(b)' - Holders(b)
    BY <1>1, <1>4 DEF B2N
  <2> QED
    BY <1>2, <2>1, MoveKeepsCounts DEF CreationsKept
<1>6. \A b \in Block : PointedTo(b)' <=> PointedTo(b)
  BY <1>2, <1>4 DEF PointedTo, B2N
<1>7. NoDanglingEvent'
  BY <1>2, <1>6 DEF RefInv, NoDanglingEvent
<1>8. OwnersKept
  <2>1. ASSUME NEW b \in Block, Unshared(b)
        PROVE  Unshared(b)'
    BY <1>2, <1>4, <2>1 DEF Unshared, B2N
  <2> QED
    BY <1>1, <1>2, <2>1 DEF OwnersKept, LocalsOK
<1>9. NoStalePointer'
  BY <1>2 DEF RefInv, NoStalePointer
<1>10. NothingLost
  BY <1>2, <1>6 DEF NothingLost
<1> QED
  BY <1>1, <1>5, <1>7, <1>8, <1>9, <1>10, StepGivesRefInv DEF RefStep

(* The first half of a fetch: the slot's reference becomes a local pointer. *)
LEMMA FetchGetKeepsRefs ==
    ASSUME SchedInv, SchedInv', RefInv, NEW next \in {"fetched", "fetchedAll"}, FetchGet(next)
    PROVE  RefStep
<1>1. /\ TypeOK /\ TypeOK' /\ LocalsOK /\ deferq \in Queues /\ DeferSize \in Nat
      /\ ref \in [Block -> Int] /\ Loop \in Ctx
      /\ arg \in [Ctx -> EventPtr \cup Epa \cup {NoEvent}]
      /\ cpc \in [Ctx -> {"ready", "create", "unlock", "release", "register",
                          "fetched", "fetchedAll", "fetchNext"}]
  BY SizesAreNat, RuntimeAssumption DEF SchedInv, TypeOK, EventTypeOK, Queues
<1>2. /\ pc = "handle" /\ deferq[current] # << >> /\ cpc[Loop] \in {"ready", "fetchNext"}
      /\ deferq' = [deferq EXCEPT ![current] = Tail(@)]
      /\ cpc' = [cpc EXCEPT ![Loop] = next]
      /\ UNCHANGED <<mem, attrib, pc, cur, own, queue>>
  BY DEF FetchGet, Calling, loopVars
<1>3. current \in Epa
  BY <1>1, <1>2 DEF LocalsOK
<1>4. PICK ev \in EventPtr :
        /\ ev = deferq[current][1] /\ arg' = [arg EXCEPT ![Loop] = ev]
        /\ ref' = RefDown(ref, ev)
  <2>1. Head(deferq[current]) \in EventPtr /\ Head(deferq[current]) = deferq[current][1]
    BY <1>1, <1>2, <1>3, HeadTailProperties DEF Queues
  <2> QED
    BY <2>1 DEF FetchGet
<1>5. ASSUME NEW b \in Block
      PROVE  /\ Deferred(b)' = Deferred(b) - B2N(ev = b) /\ Queued(b)' = Queued(b)
             /\ ref'[b] = ref[b] - B2N(ev = b)
             /\ Holders(b)' = Holders(b) - B2N(ev = b)
             /\ Deferred(b) \in Nat /\ Deferred(b)' \in Nat /\ Holders(b) \in Nat
  <2>1. Cardinality(Slots(deferq', DeferSize, b))
            = Cardinality(Slots(deferq, DeferSize, b)) - B2N(ev = b)
    <3>1. deferq'[current] = Tail(deferq[current])
      BY <1>1, <1>2, <1>3 DEF Queues
    <3>2. deferq' \in Queues /\ \A f \in Epa : f # current => deferq'[f] = deferq[f]
      BY <1>1, <1>2, <1>3 DEF TypeOK, Queues
    <3>3. /\ Len(deferq[current]) >= 1
          /\ Len(deferq'[current]) = Len(deferq[current]) - 1
          /\ \A i \in 1 .. Len(deferq'[current]) : deferq'[current][i] = deferq[current][i + 1]
      BY <1>1, <1>2, <1>3, <3>1, SlotsOfGet
    <3>4. Len(deferq[current]) <= DeferSize
      BY <1>1, <1>3 DEF TypeOK
    <3>5. Cardinality(Slots(deferq', DeferSize, b))
              = Cardinality(Slots(deferq, DeferSize, b)) - B2N(deferq[current][1] = b)
      BY <1>1, <1>3, <3>2, <3>3, <3>4, SlotsShift
    <3> QED
      BY <1>4, <3>5
  <2>2. Deferred(b)' = Deferred(b) - B2N(ev = b) /\ Queued(b)' = Queued(b)
    BY <1>2, <2>1 DEF Deferred, Queued
  <2>3. ref'[b] = ref[b] - B2N(ev = b)
    BY <1>1, <1>4 DEF RefDown, B2N
  <2>4. Holders(b)' = Holders(b) - B2N(ev = b)
    BY <1>2, <2>2, HoldersAreNat DEF Holders, B2N
  <2> QED
    BY <2>2, <2>3, <2>4, HoldersAreNat, HoldersAreNatNext
<1>6. /\ arg'[Loop] = ev /\ cpc'[Loop] = next
      /\ \A c \in Ctx : c # Loop => arg'[c] = arg[c] /\ cpc'[c] = cpc[c]
  BY <1>1, <1>2, <1>4
<1>7. arg[Loop] = NoEvent
  BY <1>1, <1>2 DEF RefInv, NoStalePointer
<1>8. CountsKept
  <2>1. \A b \in Block : ref'[b] - ref[b] = Holders(b)' - Holders(b)
    BY <1>1, <1>5 DEF B2N
  <2>2. CreationsKept
    BY <1>2, <1>6 DEF CreationsKept
  <2> QED
    BY <1>2, <2>1, <2>2, MoveKeepsCounts
<1>9. ASSUME NEW b \in Block
      PROVE  PointedTo(b)' <=> PointedTo(b)
  <2>1. CASE b = ev
    <3>1. Deferred(b) > 0
      BY <1>5, <2>1 DEF B2N
    <3> QED
      BY <1>1, <1>6, <2>1, <3>1 DEF PointedTo
  <2>2. CASE b # ev
    <3>1. Deferred(b)' = Deferred(b) /\ Queued(b)' = Queued(b)
      BY <1>5, <2>2 DEF B2N
    <3>2. \A c \in Ctx : arg'[c] = b <=> arg[c] = b
      BY <1>6, <1>7, <2>2, BlocksApart
    <3> QED
      BY <1>2, <3>1, <3>2 DEF PointedTo
  <2> QED
    BY <2>1, <2>2
<1>10. NoDanglingEvent'
  BY <1>2, <1>9 DEF RefInv, NoDanglingEvent
<1>11. OwnersKept
  <2>1. ASSUME NEW b \in Block, Unshared(b)
        PROVE  Unshared(b)'
    <3>1. ev # b
      BY <1>5, <2>1, UnsharedIsCounted DEF B2N
    <3>2. Holders(b)' = Holders(b)
      BY <1>5, <3>1 DEF B2N
    <3> QED
      BY <1>2, <1>6, <2>1, <3>1, <3>2 DEF Unshared
  <2> QED
    BY <1>1, <1>2, <1>6, <2>1 DEF OwnersKept, LocalsOK
<1>12. NoStalePointer'
  BY <1>2, <1>6 DEF RefInv, NoStalePointer
<1>13. NothingLost
  BY <1>2, <1>9 DEF NothingLost
<1> QED
  BY <1>1, <1>8, <1>10, <1>11, <1>12, <1>13, StepGivesRefInv DEF RefStep

(* The start of a dispatch: the slot's reference becomes the dispatcher's. *)
LEMMA DispatchKeepsRefs ==
    ASSUME SchedInv, SchedInv', RefInv, NEW e \in Epa, ScheduleDispatch(e)
    PROVE  RefStep
<1>1. TypeOK /\ TypeOK' /\ LocalsOK /\ queue \in Queues /\ QueueSize \in Nat
      /\ Len(queue[e]) <= QueueSize
  BY SizesAreNat DEF SchedInv, TypeOK, EventTypeOK, Queues
<1>2. /\ pc = "sched" /\ pc' = "handle" /\ queue[e] # << >> /\ cpc[Loop] = "ready"
      /\ cur' = Head(queue[e]) /\ queue' = [queue EXCEPT ![e] = Tail(@)]
      /\ UNCHANGED <<mem, ref, attrib, own, arg, cpc, deferq>>
  BY DispatchHasEvent, LoopIsReady DEF ScheduleDispatch, PickThread, eventVars, ctxVars
<1>3. PICK ev \in EventPtr : ev = queue[e][1] /\ cur' = ev
  BY <1>1, <1>2, HeadTailProperties DEF Queues
<1>4. cur = NoEvent
  BY <1>2 DEF RefInv, NoStalePointer
<1>5. ASSUME NEW b \in Block
      PROVE  /\ Queued(b)' = Queued(b) - B2N(ev = b) /\ Deferred(b)' = Deferred(b)
             /\ Holders(b)' = Holders(b) /\ Queued(b) \in Nat /\ Queued(b)' \in Nat
  <2>1. Cardinality(Slots(queue', QueueSize, b))
            = Cardinality(Slots(queue, QueueSize, b)) - B2N(ev = b)
    <3>1. queue'[e] = Tail(queue[e])
      BY <1>1, <1>2 DEF Queues
    <3>2. queue' \in Queues /\ \A f \in Epa : f # e => queue'[f] = queue[f]
      BY <1>1, <1>2 DEF TypeOK, Queues
    <3>3. /\ Len(queue[e]) >= 1 /\ Len(queue'[e]) = Len(queue[e]) - 1
          /\ \A i \in 1 .. Len(queue'[e]) : queue'[e][i] = queue[e][i + 1]
      BY <1>1, <1>2, <3>1, SlotsOfGet
    <3>4. Cardinality(Slots(queue', QueueSize, b))
              = Cardinality(Slots(queue, QueueSize, b)) - B2N(queue[e][1] = b)
      BY <1>1, <3>2, <3>3, SlotsShift
    <3> QED
      BY <1>3, <3>4
  <2>2. Queued(b)' = Queued(b) - B2N(ev = b) /\ Deferred(b)' = Deferred(b)
    BY <1>2, <2>1 DEF Deferred, Queued
  <2>3. Holders(b)' = Holders(b)
    BY <1>2, <1>3, <2>2, HoldersAreNat DEF Holders, B2N
  <2> QED
    BY <2>2, <2>3, HoldersAreNat, HoldersAreNatNext
<1>6. CountsKept
  <2>1. \A b \in Block : ref'[b] - ref[b] = Holders(b)' - Holders(b)
    BY <1>1, <1>2, <1>5, HoldersAreNat DEF TypeOK, EventTypeOK
  <2> QED
    BY <1>2, <2>1, MoveKeepsCounts DEF CreationsKept
<1>7. ASSUME NEW b \in Block
      PROVE  PointedTo(b)' <=> PointedTo(b)
  <2>1. CASE b = ev
    BY <1>3, <1>5, <2>1 DEF PointedTo, B2N
  <2>2. CASE b # ev
    BY <1>2, <1>3, <1>4, <1>5, <2>2, BlocksApart DEF PointedTo, B2N
  <2> QED
    BY <2>1, <2>2
<1>8. NoDanglingEvent'
  BY <1>2, <1>7 DEF RefInv, NoDanglingEvent
<1>9. OwnersKept
  <2>1. ASSUME NEW b \in Block, Unshared(b)
        PROVE  Unshared(b)'
    <3>1. ev # b
      BY <1>5, <2>1, UnsharedIsCounted DEF B2N
    <3> QED
      BY <1>2, <1>3, <1>5, <2>1, <3>1 DEF Unshared
  <2> QED
    BY <1>1, <1>2, <2>1 DEF OwnersKept, LocalsOK
<1>10. NoStalePointer'
  BY <1>2 DEF RefInv, NoStalePointer
<1>11. NothingLost
  BY <1>2, <1>7 DEF NothingLost
<1> QED
  BY <1>1, <1>6, <1>8, <1>9, <1>10, <1>11, StepGivesRefInv DEF RefStep

(* The state machine returns: the dispatcher's reference is given back. *)
LEMMA HandlerReturnKeepsRefs ==
    ASSUME SchedInv, SchedInv', RefInv, HandlerReturn
    PROVE  RefStep
<1>1. TypeOK /\ TypeOK' /\ LocalsOK /\ ref \in [Block -> Int]
  BY DEF SchedInv, TypeOK, EventTypeOK
<1>2. /\ pc = "handle" /\ pc' = "destroy" /\ ref' = RefDown(ref, cur)
      /\ cpc[Loop] = "ready"
      /\ UNCHANGED <<mem, attrib, cur, own, arg, cpc, queue, deferq>>
  BY DEF HandlerReturn, ctxVars
<1>3. ASSUME NEW b \in Block
      PROVE  /\ Queued(b)' = Queued(b) /\ Deferred(b)' = Deferred(b)
             /\ ref'[b] = ref[b] - B2N(cur = b) /\ Holders(b)' = Holders(b) - B2N(cur = b)
  <2>1. Queued(b)' = Queued(b) /\ Deferred(b)' = Deferred(b)
    BY <1>2 DEF Queued, Deferred
  <2>2. ref'[b] = ref[b] - B2N(cur = b)
    BY <1>1, <1>2 DEF RefDown, B2N
  <2>3. Holders(b)' = Holders(b) - B2N(cur = b)
    BY <1>2, <2>1, HoldersAreNat DEF Holders, B2N
  <2> QED
    BY <2>1, <2>2, <2>3
<1>4. CountsKept
  <2>1. \A b \in Block : ref'[b] - ref[b] = Holders(b)' - Holders(b)
    BY <1>1, <1>3, HoldersAreNat DEF B2N
  <2> QED
    BY <1>2, <2>1, MoveKeepsCounts DEF CreationsKept
<1>5. \A b \in Block : PointedTo(b)' <=> PointedTo(b)
  BY <1>2, <1>3 DEF PointedTo
<1>6. NoDanglingEvent'
  BY <1>2, <1>5 DEF RefInv, NoDanglingEvent
<1>7. OwnersKept
  <2>1. ASSUME NEW b \in Block, Unshared(b)
        PROVE  Unshared(b)'
    BY <1>2, <1>3, <2>1 DEF Unshared, B2N
  <2> QED
    BY <1>1, <1>2, <2>1 DEF OwnersKept, LocalsOK
<1>8. NoStalePointer'
  BY <1>2 DEF RefInv, NoStalePointer
<1>9. NothingLost
  BY <1>2, <1>5 DEF NothingLost
<1> QED
  BY <1>1, <1>4, <1>6, <1>7, <1>8, <1>9, StepGivesRefInv DEF RefStep

(* The end of a dispatch: an event without references is freed, one that   *)
(* is kept is still counted or reserved.                                   *)
LEMMA DispatchEndKeepsRefs ==
    ASSUME SchedInv, SchedInv', RefInv, DispatchEnd
    PROVE  RefStep
<1>1. /\ TypeOK /\ TypeOK' /\ LocalsOK /\ mem \in [Block -> {"free", "used"}]
      /\ attrib \in [Block -> {"dynamic", "reserved"}]
  BY DEF SchedInv, TypeOK, EventTypeOK
<1>2. /\ pc = "destroy" /\ pc' = "sched" /\ mem' = Destroy(mem, ref, cur) /\ cur' = NoEvent
      /\ cpc[Loop] = "ready"
      /\ UNCHANGED <<ref, attrib, own, arg, cpc, queue, deferq>>
  BY LoopIsReady DEF DispatchEnd, ctxVars
<1>3. \A b : /\ Queued(b)' = Queued(b) /\ Deferred(b)' = Deferred(b)
             /\ Holders(b)' = Holders(b) /\ Holders(b) = Queued(b) + Deferred(b)
  <2>1. \A b : Queued(b)' = Queued(b) /\ Deferred(b)' = Deferred(b)
    BY <1>2 DEF Queued, Deferred
  <2> QED
    BY <1>2, <2>1, HoldersAreNat DEF Holders, B2N
<1>4. ASSUME NEW b \in Block, cur = b
      PROVE  /\ mem[b] = "used" /\ ~BeingCreated(b)
             /\ \A c \in Ctx : arg[c] # b
             /\ attrib[b] = "dynamic" => \A c \in Ctx : own[c] # b
  <2>1. ~Unshared(b) /\ cpc[Loop] # "unlock"
    BY <1>2, <1>4 DEF Unshared
  <2>2. mem[b] = "used"
    BY <1>4 DEF RefInv, NoDanglingEvent, PointedTo
  <2>3. \A c \in Ctx : arg[c] # b
    BY <1>1, <1>2, ArgIsFetched
  <2> QED
    BY <2>1, <2>2, <2>3, SharedHasNoOwner
<1>5. ASSUME NEW b \in Block
      PROVE  \/ mem'[b] = mem[b]
             \/ cur = b /\ mem'[b] = "free" /\ attrib[b] = "dynamic" /\ ref[b] = 0
  BY <1>1, <1>2 DEF Destroy, Unreferenced
<1>6. CountsKept
  <2> SUFFICES ASSUME NEW b \in Block, Settled(b)'
               PROVE  Settled(b) /\ ref'[b] - ref[b] = Holders(b)' - Holders(b)
    BY DEF CountsKept
  <2>1. Settled(b)
    BY <1>1, <1>2, <1>5 DEF Settled, BeingCreated
  <2>2. ref'[b] = ref[b] /\ ref[b] \in Int
    BY <1>1, <1>2 DEF TypeOK, EventTypeOK
  <2> QED
    BY <1>3, <2>1, <2>2, HoldersAreNat
<1>7. NoDanglingEvent'
  <2> SUFFICES ASSUME NEW b \in Block, PointedTo(b)'
               PROVE  mem'[b] = "used"
    BY DEF NoDanglingEvent
  <2>1. mem[b] = "used"
    BY <1>2, <1>3, BlocksApart DEF PointedTo, RefInv, NoDanglingEvent
  <2>2. CASE cur = b /\ attrib[b] = "dynamic" /\ ref[b] = 0
    <3>1. Holders(b) = 0
      BY <1>4, <2>2, HoldersAreNat DEF RefInv, RefCoversHolders
    <3>2. Queued(b)' = 0 /\ Deferred(b)' = 0
      BY <1>3, <3>1, HoldersAreNat
    <3> QED
      BY <1>2, <1>4, <2>2, <3>2, BlocksApart DEF PointedTo
  <2> QED
    BY <1>5, <2>1, <2>2
<1>8. OwnersKept
  <2>1. ASSUME NEW b \in Block, Unshared(b)
        PROVE  Unshared(b)'
    BY <1>2, <1>3, <2>1, BlocksApart DEF Unshared
  <2> QED
    BY <1>1, <1>2, <2>1 DEF OwnersKept, LocalsOK
<1>9. NoStalePointer'
  BY <1>2 DEF RefInv, NoStalePointer
<1>10. NothingLost
  <2> SUFFICES ASSUME NEW b \in Block, mem'[b] = "used", mem[b] = "used" => PointedTo(b),
                      attrib[b] # "reserved", ref[b] # 0 => FALSE
               PROVE  PointedTo(b)'
    BY <1>2 DEF NothingLost
  <2>1. PointedTo(b)
    BY <1>1, <1>5
  <2>2. cur # b
    BY <1>1, <1>2, <1>4 DEF Destroy, Unreferenced
  <2> QED
    BY <1>2, <1>3, <2>1, <2>2 DEF PointedTo
<1> QED
  BY <1>1, <1>6, <1>7, <1>8, <1>9, <1>10, StepGivesRefInv DEF RefStep

--------------------------------------------------------------------------------
(* The invariant.                                                          *)

LEMMA NoSlots ==
    ASSUME NEW q, NEW n \in Nat, NEW b, \A e \in Epa : q[e] = << >>
    PROVE  Cardinality(Slots(q, n, b)) = 0
<1>1. Slots(q, n, b) = {}
  BY LenProperties DEF Slots
<1> QED
  BY <1>1, FS_EmptySet

LEMMA InitRefs == Init => RefInv
<1> SUFFICES ASSUME Init PROVE RefInv
  OBVIOUS
<1>1. \A b : Queued(b) = 0 /\ Deferred(b) = 0
  BY NoSlots, SizesAreNat DEF Init, Queued, Deferred
<1>2. \A b \in Block : mem[b] = "free" /\ attrib[b] = "dynamic"
  BY DEF Init, EventInit
<1>3. /\ pc = "boot" /\ cur = NoEvent
      /\ \A c \in Ctx : cpc[c] = "ready" /\ own[c] = NoEvent /\ arg[c] = NoEvent
  BY DEF Init
<1>4. \A b \in Block : ~PointedTo(b)
  BY <1>1, <1>3, BlocksApart DEF PointedTo
<1>5. RefCoversHolders /\ NoDanglingEvent /\ NoStalePointer
  BY <1>2, <1>3, <1>4 DEF RefCoversHolders, NoDanglingEvent, NoStalePointer
<1>6. OwnershipOK
  BY <1>2, <1>3, BlocksApart DEF OwnershipOK
<1> QED
  BY <1>5, <1>6 DEF RefInv

(* Every step keeps the invariant; every step but a send ahead also keeps  *)
(* counters in step with their holders and loses no event.                 *)
LEMMA NextKeepsRefs ==
    ASSUME UnlocksInLoop, SchedInv, SchedInv', RefInv, [Next]_vars
    PROVE  RefInv' /\ (NeverSendsAhead => RefStep)
<1>1. CASE LoopStep
  BY <1>1, QuietSteps, DispatchKeepsRefs, HandlerReturnKeepsRefs, DispatchEndKeepsRefs
  DEF LoopStep, RefStep
<1>2. CASE DeferStep
  BY <1>2, DeferKeepsRefs, FetchGetKeepsRefs, FetchSendKeepsRefs DEF DeferStep, RefStep
<1>3. ASSUME NEW c \in Ctx, ClientStep(c)
      PROVE  RefInv' /\ (NeverSendsAhead => RefStep)
  <2>1. ASSUME NEW e \in Epa, NEW ev \in EventPtr, SendEventAhead(c, e, ev)
        PROVE  RefInv' /\ ~NeverSendsAhead
    BY <2>1, AheadKeepsRefs DEF SendEventAhead, Calling, NeverSendsAhead
  <2>2. ASSUME \/ \E e \in Epa, ev \in EventPtr : SendEvent(c, e, ev)
               \/ \E e \in Epa : SendSignal(c, e)
        PROVE  RefStep
    BY <2>2, SendKeepsRefs, SignalKeepsRefs
  <2>3. ASSUME RegisterInsert(c) \/ \E e \in Epa : RegisterSet(c, e)
        PROVE  RefStep
    BY <2>3, QuietSteps
  <2>4. ASSUME \/ CreateAlloc(c) \/ CreateInit(c) \/ DestroyOwn(c)
               \/ \E ev \in Block : Reserve(c, ev)
               \/ UnlockClear(c) \/ UnlockTest(c) \/ UnlockRelease(c)
        PROVE  RefStep
    BY <2>4, CreateAllocKeepsRefs, CreateInitKeepsRefs, DestroyOwnKeepsRefs,
       ReserveKeepsRefs, UnlockClearKeepsRefs, UnlockTestKeepsRefs, UnlockReleaseKeepsRefs
  <2> QED
    BY <1>3, <2>1, <2>2, <2>3, <2>4 DEF ClientStep, RefStep
<1>4. CASE UNCHANGED vars
  BY <1>4, QuietSteps DEF RefStep
<1> QED
  BY <1>1, <1>2, <1>3, <1>4 DEF Next

(* RefInv holds in every reachable state if reservations are undone by     *)
(* code of the loop only.                                                  *)
LEMMA RefInvariant ==
    ASSUME UnlocksInLoop
    PROVE  Spec => []RefInv
<1>1. SchedInv /\ SchedInv' /\ RefInv /\ [Next]_vars => RefInv'
  BY NextKeepsRefs
<1> QED
  BY <1>1, InitRefs, SchedInvariant, PTL DEF Spec

(* The counter of an event never falls below the number of queue slots and *)
(* dispatches that hold it, whatever contexts send, defer, fetch, reserve  *)
(* and signal, as long as nevent_unlock is called by code of the loop.     *)
THEOREM RefsCover ==
    ASSUME UnlocksInLoop
    PROVE  Spec => []RefCoversHolders
<1>1. RefInv => RefCoversHolders
  BY DEF RefInv
<1> QED
  BY <1>1, RefInvariant, PTL

(* No event that a queue, the dispatcher or a context still points to is   *)
(* ever recycled, under the same condition.                                *)
THEOREM NothingDangles ==
    ASSUME UnlocksInLoop
    PROVE  Spec => []NoDanglingEvent
<1>1. RefInv => NoDanglingEvent
  BY DEF RefInv
<1> QED
  BY <1>1, RefInvariant, PTL

(* nevent_ref_down never takes the unsigned counter of an event below      *)
(* zero, where it would wrap around.                                       *)
THEOREM CountersNeverWrap ==
    ASSUME UnlocksInLoop
    PROVE  Spec => [](\A b \in Block : mem[b] = "used" /\ ~BeingCreated(b) => ref[b] >= 0)
<1>1. SchedInv /\ RefInv => \A b \in Block : mem[b] = "used" /\ ~BeingCreated(b) => ref[b] >= 0
  BY HoldersAreNat DEF SchedInv, TypeOK, EventTypeOK, RefInv, RefCoversHolders
<1> QED
  BY <1>1, SchedInvariant, RefInvariant, PTL

(* Without sends ahead the counter is exactly the number of holders.       *)
THEOREM RefsExact ==
    ASSUME UnlocksInLoop, NeverSendsAhead
    PROVE  Spec => []RefIsExact
<1>1. Init => RefIsExact
  BY DEF Init, EventInit, RefIsExact
<1>2. SchedInv /\ SchedInv' /\ RefInv /\ RefIsExact /\ [Next]_vars => RefIsExact'
  <2> SUFFICES ASSUME SchedInv, SchedInv', RefInv, RefIsExact, [Next]_vars
               PROVE  RefIsExact'
    OBVIOUS
  <2>1. CountsKept
    BY NextKeepsRefs DEF RefStep
  <2>2. TypeOK /\ TypeOK'
    BY DEF SchedInv
  <2> QED
    BY <2>1, <2>2, CountsKeptIsEnough
<1> QED
  BY <1>1, <1>2, SchedInvariant, RefInvariant, PTL DEF Spec

(* Then no event is lost either: event.h:55-56 "EDS will may try to        *)
(* recycle the event if it is not referenced by any EPA object" - a block  *)
(* that nothing points to any more has been given back to its pool.        *)
THEOREM NothingLeaks ==
    ASSUME UnlocksInLoop, NeverSendsAhead
    PROVE  Spec => []NoLeakedEvent
<1>1. Init => NoLeakedEvent
  BY DEF Init, EventInit, NoLeakedEvent
<1>2. SchedInv /\ SchedInv' /\ RefInv /\ RefIsExact' /\ NoLeakedEvent /\ [Next]_vars
          => NoLeakedEvent'
  <2> SUFFICES ASSUME SchedInv, SchedInv', RefInv, RefIsExact', NoLeakedEvent, [Next]_vars,
                      NEW b \in Block, mem'[b] = "used"
               PROVE  PointedTo(b)'
    BY DEF NoLeakedEvent
  <2>1. RefInv' /\ NothingLost
    BY NextKeepsRefs DEF RefStep
  <2>2. PointedTo(b)' \/ attrib'[b] = "reserved" \/ ref'[b] # 0
    BY <2>1 DEF NothingLost, NoLeakedEvent
  <2>3. CASE attrib'[b] = "reserved"
    BY <2>1, <2>3 DEF RefInv, OwnershipOK, PointedTo
  <2>4. CASE ref'[b] # 0 /\ BeingCreated(b)'
    BY <2>4 DEF BeingCreated, PointedTo
  <2>5. CASE ref'[b] # 0 /\ ~BeingCreated(b)'
    <3>1. Holders(b)' # 0
      BY <2>5 DEF RefIsExact
    <3> QED
      BY <3>1, HoldersAreNatNext DEF Holders, B2N, PointedTo
  <2> QED
    BY <2>2, <2>3, <2>4, <2>5
<1> QED
  BY <1>1, <1>2, SchedInvariant, RefInvariant, RefsExact, PTL DEF Spec
================================================================================
