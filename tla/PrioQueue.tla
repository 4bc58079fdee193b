------------------------------- MODULE PrioQueue -------------------------------
(***************************************************************************)
(* The priority queue of source/sched.c as it is built: an array of lists, *)
(* one per bucket of priorities, and a bitmap of the buckets in use, split *)
(* into groups when there are more buckets than bits in a machine word.    *)
(*                                                                         *)
(* A priority queue is a record: list[b] is the circular list of bucket b  *)
(* without its sentinel, bit[g] the set of bits of a bitmap word and group *)
(* the set of words that have a bit.  Like the C functions the operators   *)
(* take a queue and return the new one.                                    *)
(***************************************************************************)
EXTENDS ReadyQueue, FiniteSets

CONSTANTS
    Thread,         \* all threads, the idle thread included
    Sentinel,       \* what a bucket's list points to when it is empty
    Priority,       \* Priority[t], the bias of the node of thread t
    Levels,         \* CONFIG_PRIORITY_LEVELS
    Buckets,        \* CONFIG_PRIORITY_BUCKETS
    Width,          \* NCPU_DATA_WIDTH
    UintBits,       \* bits of an unsigned int, the type in which ncore_exp2 shifts
    Log2Bits        \* bits of a word that ncore_log2 of the port can handle

ASSUME PrioQueueAssumption ==
    /\ Levels \in Nat \ {0} /\ Buckets \in 2 .. Levels
    /\ Width \in Nat \ {0} /\ UintBits \in Nat \ {0} /\ Log2Bits \in Nat \ {0}
    /\ Sentinel \notin Thread
    /\ Priority \in [Thread -> 0 .. Levels - 1]

Bucket == 0 .. Buckets - 1
Word == 0 .. (Buckets - 1) \div Width

(* 2 to the power NPRIO_ARRAY_BUCKET_BITS: the priorities of one bucket.   *)
BucketSpan ==
    LET perBucket == (Levels + Buckets - 1) \div Buckets
    IN  CHOOSE s \in {1, 2, 4, 8, 16, 32, 64, 128} :
            s <= perBucket /\ (s = 128 \/ perBucket < 2 * s)

BucketOf(t) == Priority[t] \div BucketSpan

--------------------------------------------------------------------------------
(* The bitmap.                                                             *)

Grouped == Buckets > Width

(* ncore_exp2, as the bit it sets: the processor takes the number of places *)
(* to shift modulo the width of what it shifts.  A bitmap word is as wide.  *)
Exp2(value) == value % UintBits

(* The bits of bucket b in the group indicator and in its bitmap word *)
GroupBit(b) == Exp2(b \div Width)
IndexBit(b) == Exp2(b % Width)

(* bitmap_set *)
BitmapSet(q, b) ==
    IF Grouped
    THEN [q EXCEPT !.group = @ \cup {GroupBit(b)},
                   !.bit[b \div Width] = @ \cup {IndexBit(b)}]
    ELSE [q EXCEPT !.bit[0] = @ \cup {Exp2(b)}]

(* Variant for sensitivity: a group is cleared with its first bit. *)
BitmapClearGroup(q, b) ==
    IF Grouped
    THEN [q EXCEPT !.bit[b \div Width] = @ \ {IndexBit(b)},
                   !.group = @ \ {GroupBit(b)}]
    ELSE [q EXCEPT !.bit[0] = @ \ {Exp2(b)}]

(* bitmap_clear: the group bit goes with the last bit of its word. *)
BitmapClear(q, b) ==
    IF Grouped
    THEN LET left == q.bit[b \div Width] \ {IndexBit(b)} IN
         [q EXCEPT !.bit[b \div Width] = left,
                   !.group = IF left = {} THEN @ \ {GroupBit(b)} ELSE @]
    ELSE [q EXCEPT !.bit[0] = @ \ {Exp2(b)}]

(* ncore_log2 of a word, as the set of results it may have.  The look-up   *)
(* of the Linux port is indexed with the word shifted right by eight: from *)
(* the 17th bit on it reads beyond the end of its table.                   *)
Log2(word) ==
    IF word = {} THEN {0}
    ELSE LET top == CHOOSE i \in word : \A j \in word : j <= i
         IN  IF top < Log2Bits THEN {top} ELSE Bucket

(* bitmap_get_highest, with all its possible results within the array. *)
BitmapGetHighest(q) ==
    IF Grouped
    THEN Bucket \cap UNION {{g * Width + i : i \in Log2(q.bit[g])} :
                               g \in Log2(q.group) \cap Word}
    ELSE Log2(q.bit[0])

--------------------------------------------------------------------------------
(* The lists.                                                              *)

(* nbias_list_sort_insert: before the first node of the same or a higher   *)
(* bias.  A list without such a node is left as it is.                     *)
SortInsert(s, t) ==
    IF \E i \in 1 .. Len(s) : Priority[s[i]] >= Priority[t]
    THEN LET i == CHOOSE k \in 1 .. Len(s) :
                    /\ Priority[s[k]] >= Priority[t]
                    /\ \A j \in 1 .. k - 1 : Priority[s[j]] < Priority[t]
         IN  SubSeq(s, 1, i - 1) \o <<t>> \o SubSeq(s, i, Len(s))
    ELSE s

(* The insertion compiled in: FIFO when every level has its own bucket. *)
ListInsert(s, t) == IF Buckets = Levels THEN Append(s, t) ELSE SortInsert(s, t)

(* prio_queue_init *)
PqInit ==
    [list |-> [b \in Bucket |-> << >>], bit |-> [g \in Word |-> {}], group |-> {}]

(* prio_queue_insert *)
PqInsert(q, t) ==
    LET b == BucketOf(t)
        marked == IF q.list[b] = << >> THEN BitmapSet(q, b) ELSE q
    IN  [marked EXCEPT !.list[b] = ListInsert(@, t)]

(* prio_queue_remove *)
PqRemove(q, t) ==
    LET b == BucketOf(t)
        unlinked == [q EXCEPT !.list[b] = Unlink(@, t)]
    IN  IF unlinked.list[b] = << >> THEN BitmapClear(unlinked, b) ELSE unlinked

(* Variant for sensitivity: the picked thread stays first in its bucket. *)
PqKeep(q, t) == q

(* prio_queue_rotate *)
PqRotate(q, t) == [q EXCEPT !.list[BucketOf(t)] = ListInsert(Unlink(@, t), t)]

(* prio_queue_peek: the successor of the sentinel, which is the sentinel   *)
(* itself when the bucket is empty.                                        *)
PqPeek(q) ==
    {IF q.list[b] = << >> THEN Sentinel ELSE Head(q.list[b]) : b \in BitmapGetHighest(q)}

--------------------------------------------------------------------------------
(* The bitmap and the lists agree.                                         *)
Mirrors(q) ==
    \A b \in Bucket :
        q.list[b] # << >> <=> (IF Grouped THEN b % Width \in q.bit[b \div Width]
                                          ELSE b \in q.bit[0])

GroupsMirror(q) == Grouped => q.group = {g \in Word : q.bit[g] # {}}
================================================================================
