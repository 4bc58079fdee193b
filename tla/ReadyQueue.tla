------------------------------ MODULE ReadyQueue ------------------------------
(***************************************************************************)
(* The run queue of source/sched.c as seen by its callers: one FIFO bucket *)
(* of threads per priority level.  rq is a function from priorities to     *)
(* sequences of threads.  The configuration modelled is the default one,   *)
(* CONFIG_PRIORITY_BUCKETS = CONFIG_PRIORITY_LEVELS, where a thread is put *)
(* at the end of its bucket.  Module Scheduler has the bitmap and the      *)
(* linked lists that implement these operators.                            *)
(***************************************************************************)
EXTENDS Integers, Sequences

(* Thread t is linked into the list s. *)
Linked(s, t) == \E i \in 1 .. Len(s) : s[i] = t

(* No thread is linked twice into the list s. *)
Distinct(s) == \A i, j \in 1 .. Len(s) : s[i] = s[j] => i = j

(* ndlist_remove: unlinks thread t, which must be in the list s. *)
Unlink(s, t) ==
    LET i == CHOOSE k \in 1 .. Len(s) : s[k] = t
    IN  [j \in 1 .. Len(s) - 1 |-> IF j < i THEN s[j] ELSE s[j + 1]]

(* prio_queue_insert: the thread goes to the end of its bucket. *)
RqInsert(rq, p, t) == [rq EXCEPT ![p] = Append(@, t)]

(* prio_queue_remove: the thread leaves its bucket. *)
RqRemove(rq, p, t) == [rq EXCEPT ![p] = Unlink(@, t)]

(* Variants for sensitivity: the bucket is not rotated, or the thread is   *)
(* linked again without being unlinked.                                    *)
RqKeep(rq, p, t) == rq
RqRelink(rq, p, t) == [rq EXCEPT ![p] = Append(@, t)]

(* prio_queue_rotate: the thread becomes the last one of its bucket. *)
RqRotate(rq, p, t) == [rq EXCEPT ![p] = Append(Unlink(@, t), t)]

(* bitmap_get_highest: the highest priority whose bucket is not empty. *)
HighestUsed(rq) ==
    CHOOSE p \in DOMAIN rq :
        /\ rq[p] # << >>
        /\ \A q \in DOMAIN rq : rq[q] # << >> => q <= p

(* prio_queue_peek: the first thread of the highest used bucket. *)
RqPeek(rq) == Head(rq[HighestUsed(rq)])
================================================================================
