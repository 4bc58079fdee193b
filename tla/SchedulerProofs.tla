---------------------------- MODULE SchedulerProofs ----------------------------
(***************************************************************************)
(* Proofs about Scheduler and the priority queue it is built on, for any   *)
(* number of threads, levels and bits in a word, when every level has its  *)
(* own bucket (the default configuration) and ncore_exp2 can shift as far  *)
(* as the buckets need.                                                    *)
(***************************************************************************)
EXTENDS Scheduler, SequenceTheorems, WellFoundedInduction, TLAPS

--------------------------------------------------------------------------------
(* The run queue                                                           *)

(* prio_queue_insert: an unlinked thread is linked, nothing else changes. *)
LEMMA AppendLinked ==
    ASSUME NEW T, NEW s \in Seq(T), NEW t \in T
    PROVE  /\ Append(s, t) \in Seq(T)
           /\ \A u : Linked(Append(s, t), u) <=> Linked(s, u) \/ u = t
           /\ Distinct(s) /\ ~Linked(s, t) => Distinct(Append(s, t))
<1>1. /\ Append(s, t) \in Seq(T)
      /\ Len(Append(s, t)) = Len(s) + 1
      /\ \A i \in 1 .. Len(s) : Append(s, t)[i] = s[i]
      /\ Append(s, t)[Len(s) + 1] = t
  BY AppendProperties
<1>2. Len(s) \in Nat
  BY LenProperties
<1>3. \A u : Linked(Append(s, t), u) <=> Linked(s, u) \/ u = t
  BY <1>1, <1>2 DEF Linked
<1>4. ASSUME Distinct(s), ~Linked(s, t)
      PROVE  Distinct(Append(s, t))
  BY <1>1, <1>2, <1>4 DEF Linked, Distinct
<1> QED
  BY <1>1, <1>3, <1>4

(* prio_queue_remove: the thread is unlinked, nothing else changes. *)
LEMMA UnlinkLinked ==
    ASSUME NEW T, NEW s \in Seq(T), NEW t, Linked(s, t), Distinct(s)
    PROVE  /\ Unlink(s, t) \in Seq(T)
           /\ \A u : Linked(Unlink(s, t), u) <=> Linked(s, u) /\ u # t
           /\ Distinct(Unlink(s, t))
<1> DEFINE i == CHOOSE k \in 1 .. Len(s) : s[k] = t
<1> DEFINE r == Unlink(s, t)
<1>1. Len(s) \in Nat /\ \A k \in 1 .. Len(s) : s[k] \in T
  BY LenProperties, ElementOfSeq
<1>2. i \in 1 .. Len(s) /\ s[i] = t
  BY DEF Linked
<1>3. r = [j \in 1 .. Len(s) - 1 |-> IF j < i THEN s[j] ELSE s[j + 1]]
  BY DEF Unlink
<1> HIDE DEF i, r
<1>4. r \in Seq(T) /\ Len(r) = Len(s) - 1
  <2>1. Len(s) - 1 \in Nat
    BY <1>1, <1>2
  <2>2. \A j \in 1 .. Len(s) - 1 : (IF j < i THEN s[j] ELSE s[j + 1]) \in T
    BY <1>1, <1>2
  <2>3. r \in [1 .. Len(s) - 1 -> T]
    BY <2>2, <1>3
  <2> QED
    BY <2>1, <2>3, IsASeq, LenProperties, <1>3
<1>5. \A j \in 1 .. Len(r) :
          r[j] = IF j < i THEN s[j] ELSE s[j + 1]
  BY <1>3, <1>4
<1>6. ASSUME NEW u
      PROVE  Linked(r, u) <=> Linked(s, u) /\ u # t
  <2>1. ASSUME Linked(r, u)
        PROVE  Linked(s, u) /\ u # t
    <3>1. PICK j \in 1 .. Len(r) : r[j] = u
      BY <2>1 DEF Linked
    <3>2. CASE j < i
      BY <3>1, <3>2, <1>1, <1>2, <1>4, <1>5 DEF Linked, Distinct
    <3>3. CASE ~(j < i)
      BY <3>1, <3>3, <1>1, <1>2, <1>4, <1>5 DEF Linked, Distinct
    <3> QED
      BY <3>2, <3>3
  <2>2. ASSUME Linked(s, u), u # t
        PROVE  Linked(r, u)
    <3>1. PICK k \in 1 .. Len(s) : s[k] = u
      BY <2>2 DEF Linked
    <3>2. k # i
      BY <3>1, <1>2, <2>2
    <3>3. CASE k < i
      BY <3>1, <3>3, <1>1, <1>2, <1>4, <1>5 DEF Linked
    <3>4. CASE k > i
      <4>1. k - 1 \in 1 .. Len(r) /\ r[k - 1] = s[k]
        BY <3>1, <3>4, <1>1, <1>2, <1>4, <1>5
      <4> QED
        BY <4>1, <3>1 DEF Linked
    <3> QED
      BY <3>2, <3>3, <3>4, <1>1, <1>2
  <2> QED
    BY <2>1, <2>2
<1>7. Distinct(r)
  BY <1>1, <1>2, <1>4, <1>5 DEF Distinct
<1> QED
  BY <1>4, <1>6, <1>7 DEF r

(* bitmap_get_highest: when some bucket is used there is a highest one. *)
LEMMA HighestUsedProperties ==
    ASSUME NEW M \in Nat, NEW rq, DOMAIN rq = 0 .. M,
           \E p \in 0 .. M : rq[p] # << >>
    PROVE  /\ HighestUsed(rq) \in 0 .. M
           /\ rq[HighestUsed(rq)] # << >>
           /\ \A q \in 0 .. M : rq[q] # << >> => q <= HighestUsed(rq)
<1> DEFINE D == {n \in 0 .. M : rq[M - n] # << >>}
<1>1. D \subseteq Nat /\ D # {}
  <2>1. PICK p \in 0 .. M : rq[p] # << >>
    OBVIOUS
  <2>2. M - p \in 0 .. M /\ M - (M - p) = p
    OBVIOUS
  <2> QED
    BY <2>1, <2>2
<1>2. PICK n \in D : \A m \in D : ~(<<m, n>> \in OpToRel(<, Nat))
  BY <1>1, WFMin, NatLessThanWellFounded
<1>3. \A m \in D : ~(m < n)
  BY <1>1, <1>2 DEF OpToRel
<1>4. /\ M - n \in 0 .. M /\ rq[M - n] # << >>
      /\ \A q \in 0 .. M : rq[q] # << >> => q <= M - n
  <2>1. ASSUME NEW q \in 0 .. M, rq[q] # << >>
        PROVE  q <= M - n
    <3>1. M - q \in D
      <4>1. M - (M - q) = q /\ M - q \in 0 .. M
        OBVIOUS
      <4> QED
        BY <4>1, <2>1
    <3>2. ~(M - q < n)
      BY <3>1, <1>3
    <3>3. n \in 0 .. M
      OBVIOUS
    <3> QED
      BY <3>2, <3>3
  <2> QED
    BY <2>1
<1>5. \E p \in DOMAIN rq : rq[p] # << >> /\ \A q \in DOMAIN rq : rq[q] # << >> => q <= p
  BY <1>4
<1> QED
  BY <1>5 DEF HighestUsed

--------------------------------------------------------------------------------
(* Words and bits                                                          *)

(* Words of so many bits hold the bits of all buckets, and of all groups. *)
BitmapFits(bits) ==
    IF Grouped THEN Width <= bits /\ (Buckets - 1) \div Width < bits ELSE Buckets <= bits

(* ncore_exp2 can make the words of the bitmap and the word of groups. *)
Exp2Suffices == BitmapFits(UintBits)

(* Euclid's division of bucket numbers into words and bits *)
LEMMA WordsAndBits ==
    ASSUME NEW b \in Bucket
    PROVE  /\ b \in Nat /\ b \div Width \in Word /\ b % Width \in 0 .. Width - 1
           /\ (b \div Width) * Width + (b % Width) = b
           /\ b \div Width \in Nat /\ b % Width \in Nat
           /\ \A c \in Bucket : b \div Width = c \div Width /\ b % Width = c % Width => b = c
<1>1. Width \in Nat \ {0} /\ Buckets \in Nat \ {0} /\ b \in Nat /\ b <= Buckets - 1
  BY PrioQueueAssumption DEF Bucket
<1>2. b % Width \in 0 .. Width - 1 /\ b \div Width \in Nat
  BY <1>1, SMTT(20)
<1>4. b \div Width <= (Buckets - 1) \div Width
  BY <1>1, SMTT(20)
<1>5. (Buckets - 1) \div Width \in Nat
  BY <1>1, SMTT(20)
<1>6. (b \div Width) * Width + (b % Width) = b
  BY <1>1, SMTT(20)
<1>7. ASSUME NEW c \in Bucket, b \div Width = c \div Width, b % Width = c % Width PROVE b = c
  <2>1. c \in Nat
    BY <1>1, PrioQueueAssumption DEF Bucket
  <2> QED BY <1>1, <2>1, <1>7, SMTT(20)
<1> QED BY <1>1, <1>2, <1>4, <1>5, <1>6, <1>7 DEF Word

(* Then each bucket has the bits of its own number. *)
LEMMA BitsOfBucket ==
    ASSUME Exp2Suffices, NEW b \in Bucket
    PROVE  IF Grouped THEN GroupBit(b) = b \div Width /\ IndexBit(b) = b % Width ELSE Exp2(b) = b
<1>1. \A v \in Nat : v < UintBits => Exp2(v) = v
  <2>1. UintBits \in Nat \ {0}
    BY PrioQueueAssumption
  <2>2. \A v \in Nat, n \in Nat \ {0} : v < n => v % n = v
    BY SMTT(20)
  <2> QED BY <2>1, <2>2 DEF Exp2
<1>2. /\ Width \in Nat \ {0} /\ Buckets \in Nat /\ UintBits \in Nat
      /\ b \in Nat /\ b <= Buckets - 1
  BY PrioQueueAssumption DEF Bucket
<1>3. CASE Grouped
  <2>1. b \div Width \in Nat /\ b % Width \in Nat /\ b % Width < Width
    BY <1>2, WordsAndBits
  <2>2. b \div Width <= (Buckets - 1) \div Width /\ (Buckets - 1) \div Width \in Nat
    BY <1>2, SMTT(20)
  <2>3. b \div Width < UintBits /\ b % Width < UintBits
    <3>1. Width <= UintBits /\ (Buckets - 1) \div Width < UintBits
      BY <1>3 DEF Exp2Suffices, BitmapFits
    <3> DEFINE g == b \div Width
               k == (Buckets - 1) \div Width
               i == b % Width
    <3> HIDE DEF g, k, i
    <3>2. g \in Nat /\ i \in Nat /\ i < Width /\ g <= k /\ k \in Nat /\ k < UintBits
      BY <2>1, <2>2, <3>1 DEF g, k, i
    <3>3. g < UintBits /\ i < UintBits
      BY <1>2, <3>1, <3>2
    <3> QED BY <3>3 DEF g, i
  <2> QED BY <1>1, <1>3, <2>1, <2>3, Zenon DEF GroupBit, IndexBit
<1>4. CASE ~Grouped
  <2>1. b < UintBits
    BY <1>2, <1>4 DEF Exp2Suffices, BitmapFits
  <2> QED BY <1>1, <1>2, <1>4, <2>1
<1> QED BY <1>3, <1>4

LEMMA OneWord ==
    ASSUME ~Grouped
    PROVE  0 \in Word /\ Word = {0}
<1>1. Width \in Nat \ {0} /\ Buckets - 1 \in Nat /\ Buckets - 1 < Width
  BY PrioQueueAssumption DEF Grouped
<1>2. (Buckets - 1) \div Width = 0
  <2>1. \A w \in Nat \ {0}, n \in Nat : n < w => n \div w = 0
    BY SMTT(20)
  <2> QED BY <1>1, <2>1, Zenon
<1> QED BY <1>2 DEF Word

(* With a bucket per level the bucket of a thread is its priority. *)
LEMMA BucketOfThread ==
    ASSUME Buckets = Levels, NEW t \in Thread
    PROVE  BucketOf(t) \in Bucket /\ BucketOf(t) = Priority[t]
<1>1. Levels \in Nat \ {0} /\ Priority[t] \in 0 .. Levels - 1
  BY PrioQueueAssumption
<1>2. (Levels + Buckets - 1) \div Buckets = 1
  <2>1. \A n \in Nat \ {0} : (n + n - 1) \div n = 1
    BY SMTT(20)
  <2> QED BY <1>1, <2>1
<1>3. BucketSpan = 1
  <2> DEFINE P(s) == s <= 1 /\ (s = 128 \/ 1 < 2 * s)
             S == {1, 2, 4, 8, 16, 32, 64, 128}
  <2>1. \A s \in S : P(s) <=> s = 1
    OBVIOUS
  <2>2. 1 \in S
    OBVIOUS
  <2>3. BucketSpan = CHOOSE s \in S : P(s)
    BY <1>2 DEF BucketSpan
  <2>4. (CHOOSE s \in S : P(s)) = 1
    <3> HIDE DEF P, S
    <3> QED BY <2>1, <2>2
  <2> QED BY <2>3, <2>4
<1>4. \A n \in Nat : n \div 1 = n
  OBVIOUS
<1> QED BY <1>1, <1>3, <1>4 DEF BucketOf, Bucket

--------------------------------------------------------------------------------
(* Priority queues, and what the bitmap of one says about bucket b *)
Pq == [list : [Bucket -> Seq(Thread)], bit : [Word -> SUBSET Nat], group : SUBSET Nat]

HasBit(q, b) == IF Grouped THEN b % Width \in q.bit[b \div Width] ELSE b \in q.bit[0]

(* Only bits of buckets are ever set. *)
BitsInRange(q) ==
    \A g \in Word : \A i \in q.bit[g] :
        IF Grouped THEN i \in 0 .. Width - 1 /\ g * Width + i \in Bucket ELSE i \in Bucket

GoodBitmap(q) == BitsInRange(q) /\ GroupsMirror(q)

LEMMA BitmapSetSets ==
    ASSUME Exp2Suffices, NEW q \in Pq, NEW b \in Bucket
    PROVE  LET r == BitmapSet(q, b)
           IN  /\ r \in Pq /\ r.list = q.list
               /\ \A c \in Bucket : HasBit(r, c) <=> HasBit(q, c) \/ c = b
               /\ GoodBitmap(q) => GoodBitmap(r)
<1> DEFINE r == BitmapSet(q, b)
           g == b \div Width
           i == b % Width
<1>a. \A c \in Bucket : c \div Width \in Word
  BY WordsAndBits
<1>b. \A c \in Bucket : g = c \div Width /\ i = c % Width => b = c
  BY WordsAndBits
<1>c. b \in Nat /\ g \in Word /\ i \in 0 .. Width - 1 /\ g * Width + i = b /\ g \in Nat /\ i \in Nat
  BY WordsAndBits
<1>0. /\ b \in Nat /\ g \in Word /\ i \in 0 .. Width - 1 /\ g * Width + i = b
      /\ g \in Nat /\ i \in Nat
      /\ \A c \in Bucket : c \div Width \in Word
      /\ \A c \in Bucket : g = c \div Width /\ i = c % Width => b = c
  BY <1>a, <1>b, <1>c, Zenon
<1>1. CASE Grouped
  <2> HIDE DEF g, i
  <2>1. r = [q EXCEPT !.group = q.group \cup {g}, !.bit = [q.bit EXCEPT ![g] = q.bit[g] \cup {i}]]
    BY <1>1, BitsOfBucket DEF BitmapSet, g, i, Pq
  <2>2. /\ r.list = q.list /\ r.group = q.group \cup {g}
        /\ r.bit = [q.bit EXCEPT ![g] = q.bit[g] \cup {i}]
    BY <2>1 DEF Pq
  <2>3. r \in Pq
    <3> DEFINE bits == q.bit[g] \cup {i}
               bit == [q.bit EXCEPT ![g] = bits]
    <3>1. q.bit \in [Word -> SUBSET Nat] /\ q.group \cup {g} \in SUBSET Nat /\ bits \in SUBSET Nat
      BY <1>0 DEF Pq
    <3>2. bit \in [Word -> SUBSET Nat]
      <4> HIDE DEF bits
      <4> QED BY <3>1
    <3>3. r = [q EXCEPT !.group = q.group \cup {g}, !.bit = bit]
      BY <2>1
    <3> HIDE DEF bit, bits, r
    <3> QED BY <3>1, <3>2, <3>3 DEF Pq
  <2>4. \A h \in Word : r.bit[h] = IF h = g THEN q.bit[g] \cup {i} ELSE q.bit[h]
    BY <2>2 DEF Pq
  <2> HIDE DEF r
  <2>5. \A c \in Bucket : HasBit(r, c) <=> HasBit(q, c) \/ c = b
    BY <1>0, <1>1, <2>4 DEF HasBit, g, i
  <2>6. BitsInRange(q) => BitsInRange(r)
    BY <1>0, <1>1, <2>4 DEF BitsInRange
  <2>7. GroupsMirror(q) => GroupsMirror(r)
    BY <1>0, <1>1, <2>2, <2>4 DEF GroupsMirror
  <2> QED BY <2>2, <2>3, <2>5, <2>6, <2>7 DEF GoodBitmap, r
<1>2. CASE ~Grouped
  <2>1. r = [q EXCEPT !.bit = [q.bit EXCEPT ![0] = q.bit[0] \cup {b}]]
    BY <1>2, BitsOfBucket DEF BitmapSet, Pq
  <2>2. 0 \in Word /\ Word = {0}
    BY <1>2, OneWord
  <2>3. r \in Pq /\ r.list = q.list /\ r.bit[0] = q.bit[0] \cup {b}
    <3>1. q.bit[0] \cup {b} \in SUBSET Nat
      BY <1>0, <2>2 DEF Pq
    <3> QED BY <3>1, <2>1, <2>2 DEF Pq
  <2> HIDE DEF r
  <2> QED BY <1>2, <2>2, <2>3 DEF GoodBitmap, BitsInRange, GroupsMirror, HasBit, r
<1> QED BY <1>1, <1>2

LEMMA BitmapClearClears ==
    ASSUME Exp2Suffices, NEW q \in Pq, NEW b \in Bucket
    PROVE  LET r == BitmapClear(q, b)
           IN  /\ r \in Pq /\ r.list = q.list
               /\ \A c \in Bucket : HasBit(r, c) <=> HasBit(q, c) /\ c # b
               /\ GoodBitmap(q) => GoodBitmap(r)
<1> DEFINE r == BitmapClear(q, b)
           g == b \div Width
           i == b % Width
           left == q.bit[g] \ {i}
           groups == IF left = {} THEN q.group \ {g} ELSE q.group
<1>a. \A c \in Bucket : c \div Width \in Word
  BY WordsAndBits
<1>b. \A c \in Bucket : g = c \div Width /\ i = c % Width => b = c
  BY WordsAndBits
<1>c. b \in Nat /\ g \in Word /\ i \in 0 .. Width - 1 /\ g * Width + i = b /\ g \in Nat /\ i \in Nat
  BY WordsAndBits
<1>0. /\ b \in Nat /\ g \in Word /\ i \in 0 .. Width - 1 /\ g * Width + i = b
      /\ g \in Nat /\ i \in Nat
      /\ \A c \in Bucket : c \div Width \in Word
      /\ \A c \in Bucket : g = c \div Width /\ i = c % Width => b = c
  BY <1>a, <1>b, <1>c, Zenon
<1>1. CASE Grouped
  <2>1. r = [q EXCEPT !.bit = [q.bit EXCEPT ![g] = left], !.group = groups]
    BY <1>1, BitsOfBucket DEF BitmapClear, Pq
  <2> HIDE DEF g, i
  <2>2. left \in SUBSET Nat /\ groups \in SUBSET Nat
    BY <1>0 DEF Pq
  <2>3. r \in Pq /\ r.list = q.list /\ r.group = groups /\ r.bit = [q.bit EXCEPT ![g] = left]
    <3> HIDE DEF left, groups, r
    <3> QED BY <2>1, <2>2, <1>0 DEF Pq
  <2>4. \A h \in Word : r.bit[h] = IF h = g THEN left ELSE q.bit[h]
    <3> HIDE DEF left, groups, r
    <3> QED BY <2>3 DEF Pq
  <2> HIDE DEF r
  <2>5. \A c \in Bucket : HasBit(r, c) <=> HasBit(q, c) /\ c # b
    BY <1>0, <1>1, <2>4 DEF HasBit, g, i
  <2>6. BitsInRange(q) => BitsInRange(r)
    BY <1>0, <1>1, <2>4 DEF BitsInRange
  <2>7. GroupsMirror(q) => GroupsMirror(r)
    BY <1>0, <1>1, <2>3, <2>4 DEF GroupsMirror
  <2> QED BY <2>3, <2>5, <2>6, <2>7 DEF GoodBitmap, r
<1>2. CASE ~Grouped
  <2>1. r = [q EXCEPT !.bit = [q.bit EXCEPT ![0] = q.bit[0] \ {b}]]
    BY <1>2, BitsOfBucket DEF BitmapClear, Pq
  <2>2. 0 \in Word /\ Word = {0}
    BY <1>2, OneWord
  <2>3. r \in Pq /\ r.list = q.list /\ r.bit[0] = q.bit[0] \ {b}
    <3>1. q.bit[0] \ {b} \in SUBSET Nat
      BY <1>0, <2>2 DEF Pq
    <3> QED BY <3>1, <2>1, <2>2 DEF Pq
  <2> HIDE DEF r
  <2> QED BY <1>2, <2>2, <2>3 DEF GoodBitmap, BitsInRange, GroupsMirror, HasBit, r
<1> QED BY <1>1, <1>2

(* Bitmap and lists agree, and every list is one of the threads of its      *)
(* bucket, each linked once.                                               *)
Agree(q) == GoodBitmap(q) /\ \A b \in Bucket : HasBit(q, b) <=> q.list[b] # << >>

LEMMA AgreeMirrors ==
    ASSUME NEW q, Agree(q)
    PROVE  Mirrors(q) /\ GroupsMirror(q)
BY DEF Agree, Mirrors, HasBit, GoodBitmap

LEMMA SetList ==
    ASSUME NEW q \in Pq, NEW b \in Bucket, NEW s \in Seq(Thread)
    PROVE  LET r == [q EXCEPT !.list[b] = s]
           IN  /\ r \in Pq /\ r.list = [q.list EXCEPT ![b] = s]
               /\ r.list[b] = s /\ \A c \in Bucket : c # b => r.list[c] = q.list[c]
               /\ \A c \in Bucket : HasBit(r, c) <=> HasBit(q, c)
               /\ GoodBitmap(q) => GoodBitmap(r)
<1> DEFINE r == [q EXCEPT !.list[b] = s]
<1>1. /\ q.list \in [Bucket -> Seq(Thread)]
      /\ r.list = [q.list EXCEPT ![b] = s] /\ r.bit = q.bit /\ r.group = q.group
  BY DEF Pq
<1>2. r \in Pq
  BY DEF Pq
<1> HIDE DEF r
<1>3. r.list[b] = s /\ \A c \in Bucket : c # b => r.list[c] = q.list[c]
  BY <1>1
<1>4. \A c \in Bucket : HasBit(r, c) <=> HasBit(q, c)
  BY <1>1 DEF HasBit
<1>5. GoodBitmap(q) => GoodBitmap(r)
  BY <1>1 DEF GoodBitmap, BitsInRange, GroupsMirror
<1> QED BY <1>1, <1>2, <1>3, <1>4, <1>5 DEF r

LEMMA EmptyQueue == PqInit \in Pq /\ Agree(PqInit)
<1>1. PqInit \in Pq
  BY DEF PqInit, Pq
<1>2. \A b \in Bucket : b \div Width \in Word
  BY WordsAndBits
<1>3. ~Grouped => 0 \in Word
  BY OneWord
<1> QED BY <1>1, <1>2, <1>3 DEF PqInit, Agree, GoodBitmap, BitsInRange, GroupsMirror, HasBit

(* prio_queue_insert *)
LEMMA InsertAgrees ==
    ASSUME Buckets = Levels, Exp2Suffices, NEW q \in Pq, Agree(q), NEW t \in Thread
    PROVE  LET r == PqInsert(q, t)
               b == BucketOf(t)
           IN  r \in Pq /\ Agree(r) /\ r.list = [q.list EXCEPT ![b] = Append(q.list[b], t)]
<1> DEFINE b == BucketOf(t)
           m == IF q.list[b] = << >> THEN BitmapSet(q, b) ELSE q
           s == Append(q.list[b], t)
           r == [m EXCEPT !.list[b] = s]
<1>0. b \in Bucket
  BY BucketOfThread
<1>1. q.list[b] \in Seq(Thread) /\ s \in Seq(Thread) /\ s # << >>
  BY <1>0, AppendProperties DEF Pq
<1>2. m \in Pq /\ m.list = q.list /\ GoodBitmap(m) /\ \A c \in Bucket : HasBit(m, c) <=> HasBit(q, c) \/ c = b
  <2>1. CASE q.list[b] = << >>
    BY <2>1, <1>0, BitmapSetSets DEF Agree
  <2>2. CASE q.list[b] # << >>
    BY <2>2, <1>0 DEF Agree
  <2> QED BY <2>1, <2>2
<1>3. PqInsert(q, t) = r
  BY <1>2 DEF PqInsert, ListInsert
<1> HIDE DEF b, m, s
<1>4. /\ r \in Pq /\ r.list = [m.list EXCEPT ![b] = s] /\ r.list[b] = s
      /\ \A c \in Bucket : c # b => r.list[c] = m.list[c]
      /\ \A c \in Bucket : HasBit(r, c) <=> HasBit(m, c)
      /\ GoodBitmap(r)
  <2>1. m \in Pq /\ b \in Bucket /\ s \in Seq(Thread) /\ GoodBitmap(m)
    BY <1>0, <1>1, <1>2
  <2>2. r \in Pq /\ r.list[b] = s
    BY <2>1 DEF Pq
  <2>6. r.list = [m.list EXCEPT ![b] = s]
    BY <2>1 DEF Pq
  <2>3. \A c \in Bucket : c # b => r.list[c] = m.list[c]
    BY <2>1, SetList
  <2>4. \A c \in Bucket : HasBit(r, c) <=> HasBit(m, c)
    BY <2>1, SetList
  <2>5. GoodBitmap(r)
    BY <2>1, SetList
  <2> QED BY <2>2, <2>3, <2>4, <2>5, <2>6
<1> HIDE DEF r
<1>5. Agree(r)
  BY <1>1, <1>2, <1>4 DEF Agree
<1>6. r.list = [q.list EXCEPT ![b] = s]
  BY <1>2, <1>4
<1> QED BY <1>3, <1>4, <1>5, <1>6 DEF b, s

(* prio_queue_remove *)
LEMMA RemoveAgrees ==
    ASSUME Buckets = Levels, Exp2Suffices, NEW q \in Pq, Agree(q), NEW t \in Thread,
           Linked(q.list[BucketOf(t)], t), Distinct(q.list[BucketOf(t)])
    PROVE  LET r == PqRemove(q, t)
               b == BucketOf(t)
           IN  r \in Pq /\ Agree(r) /\ r.list = [q.list EXCEPT ![b] = Unlink(q.list[b], t)]
<1> DEFINE b == BucketOf(t)
           s == Unlink(q.list[b], t)
           u == [q EXCEPT !.list[b] = s]
           r == IF u.list[b] = << >> THEN BitmapClear(u, b) ELSE u
<1>0. b \in Bucket
  BY BucketOfThread
<1>1. q.list[b] \in Seq(Thread) /\ q.list[b] # << >>
  BY <1>0 DEF Pq, Linked
<1>2. s \in Seq(Thread)
  BY <1>1, UnlinkLinked
<1>3. PqRemove(q, t) = r
  BY DEF PqRemove
<1> HIDE DEF b, s
<1>4. /\ u \in Pq /\ u.list = [q.list EXCEPT ![b] = s] /\ u.list[b] = s
      /\ \A c \in Bucket : c # b => u.list[c] = q.list[c]
      /\ \A c \in Bucket : HasBit(u, c) <=> HasBit(q, c)
      /\ GoodBitmap(u)
  BY <1>0, <1>2, SetList DEF Agree
<1> HIDE DEF u
<1>5. r \in Pq /\ r.list = u.list /\ Agree(r)
  <2>1. CASE u.list[b] = << >>
    <3>1. /\ r \in Pq /\ r.list = u.list /\ GoodBitmap(r)
          /\ \A c \in Bucket : HasBit(r, c) <=> HasBit(u, c) /\ c # b
      BY <1>0, <1>4, <2>1, BitmapClearClears
    <3> HIDE DEF r
    <3> QED BY <3>1, <1>4, <2>1 DEF Agree
  <2>2. CASE u.list[b] # << >>
    BY <1>1, <1>4, <2>2, <1>0 DEF Agree
  <2> QED BY <2>1, <2>2
<1> QED BY <1>3, <1>4, <1>5 DEF b, s

(* prio_queue_rotate *)
LEMMA RotateAgrees ==
    ASSUME Buckets = Levels, NEW q \in Pq, Agree(q), NEW t \in Thread,
           Linked(q.list[BucketOf(t)], t), Distinct(q.list[BucketOf(t)])
    PROVE  LET r == PqRotate(q, t)
               b == BucketOf(t)
           IN  /\ r \in Pq /\ Agree(r)
               /\ r.list = [q.list EXCEPT ![b] = Append(Unlink(q.list[b], t), t)]
<1> DEFINE b == BucketOf(t)
           s == Append(Unlink(q.list[b], t), t)
           r == [q EXCEPT !.list[b] = s]
<1>0. b \in Bucket
  BY BucketOfThread
<1>1. q.list[b] \in Seq(Thread) /\ q.list[b] # << >>
  BY <1>0 DEF Pq, Linked
<1>2. s \in Seq(Thread) /\ s # << >>
  BY <1>1, UnlinkLinked, AppendProperties
<1>3. PqRotate(q, t) = r
  BY DEF PqRotate, ListInsert
<1> HIDE DEF b, s
<1>4. /\ r \in Pq /\ r.list = [q.list EXCEPT ![b] = s] /\ r.list[b] = s
      /\ \A c \in Bucket : c # b => r.list[c] = q.list[c]
      /\ \A c \in Bucket : HasBit(r, c) <=> HasBit(q, c)
      /\ GoodBitmap(r)
  BY <1>0, <1>2, SetList DEF Agree
<1> HIDE DEF r
<1>5. Agree(r)
  BY <1>1, <1>2, <1>4 DEF Agree
<1> QED BY <1>3, <1>4, <1>5 DEF b, s

--------------------------------------------------------------------------------
(* The lists l hold the threads of R, each once and in its bucket. *)
ListsHold(l, R) ==
    \A b \in Bucket :
        /\ \A t \in Thread : Linked(l[b], t) <=> t \in R /\ BucketOf(t) = b
        /\ Distinct(l[b])

LEMMA AppendHolds ==
    ASSUME Buckets = Levels, NEW l \in [Bucket -> Seq(Thread)], NEW R, ListsHold(l, R),
           NEW t \in Thread, t \notin R
    PROVE  LET b == BucketOf(t) IN ListsHold([l EXCEPT ![b] = Append(l[b], t)], R \cup {t})
<1> DEFINE b == BucketOf(t)
           s == Append(l[b], t)
           m == [l EXCEPT ![b] = s]
<1>0. b \in Bucket
  BY BucketOfThread
<1>1. l[b] \in Seq(Thread) /\ ~Linked(l[b], t) /\ Distinct(l[b])
  BY <1>0 DEF ListsHold
<1>2. (\A u : Linked(s, u) <=> Linked(l[b], u) \/ u = t) /\ Distinct(s)
  BY <1>1, AppendLinked
<1>3. \A c \in Bucket : m[c] = IF c = b THEN s ELSE l[c]
  OBVIOUS
<1> SUFFICES ASSUME NEW c \in Bucket
             PROVE  /\ \A u \in Thread : Linked(m[c], u) <=> u \in R \cup {t} /\ BucketOf(u) = c
                    /\ Distinct(m[c])
  BY DEF ListsHold
<1> HIDE DEF m, s
<1>4. CASE c = b
  BY <1>0, <1>2, <1>3, <1>4 DEF ListsHold
<1>5. CASE c # b
  BY <1>3, <1>5 DEF ListsHold
<1> QED BY <1>4, <1>5

LEMMA UnlinkHolds ==
    ASSUME Buckets = Levels, NEW l \in [Bucket -> Seq(Thread)], NEW R, ListsHold(l, R),
           NEW t \in Thread, t \in R
    PROVE  LET b == BucketOf(t)
           IN  /\ Linked(l[b], t) /\ Distinct(l[b])
               /\ ListsHold([l EXCEPT ![b] = Unlink(l[b], t)], R \ {t})
<1> DEFINE b == BucketOf(t)
           s == Unlink(l[b], t)
           m == [l EXCEPT ![b] = s]
<1>0. b \in Bucket
  BY BucketOfThread
<1>1. l[b] \in Seq(Thread) /\ Linked(l[b], t) /\ Distinct(l[b])
  BY <1>0 DEF ListsHold
<1>2. (\A u : Linked(s, u) <=> Linked(l[b], u) /\ u # t) /\ Distinct(s)
  BY <1>1, UnlinkLinked
<1>3. \A c \in Bucket : m[c] = IF c = b THEN s ELSE l[c]
  OBVIOUS
<1> SUFFICES ASSUME NEW c \in Bucket
             PROVE  /\ \A u \in Thread : Linked(m[c], u) <=> u \in R \ {t} /\ BucketOf(u) = c
                    /\ Distinct(m[c])
  BY <1>1 DEF ListsHold
<1> HIDE DEF m, s
<1>4. CASE c = b
  BY <1>0, <1>2, <1>3, <1>4 DEF ListsHold
<1>5. CASE c # b
  BY <1>3, <1>5 DEF ListsHold
<1> QED BY <1>4, <1>5

LEMMA RotateHolds ==
    ASSUME Buckets = Levels, NEW l \in [Bucket -> Seq(Thread)], NEW R, ListsHold(l, R),
           NEW t \in Thread, t \in R
    PROVE  LET b == BucketOf(t)
           IN  ListsHold([l EXCEPT ![b] = Append(Unlink(l[b], t), t)], R)
<1> DEFINE b == BucketOf(t)
           m == [l EXCEPT ![b] = Unlink(l[b], t)]
           n == [m EXCEPT ![b] = Append(m[b], t)]
<1>0. b \in Bucket /\ l[b] \in Seq(Thread) /\ Linked(l[b], t) /\ Distinct(l[b])
  BY BucketOfThread DEF ListsHold
<1>1. m \in [Bucket -> Seq(Thread)] /\ m[b] = Unlink(l[b], t)
  BY <1>0, UnlinkLinked
<1>2. ListsHold(m, R \ {t})
  BY UnlinkHolds
<1>3. ListsHold(n, (R \ {t}) \cup {t})
  <2> HIDE DEF m
  <2> QED BY <1>1, <1>2, AppendHolds
<1>4. (R \ {t}) \cup {t} = R
  OBVIOUS
<1>5. n = [l EXCEPT ![b] = Append(Unlink(l[b], t), t)]
  BY <1>0, <1>1
<1> QED BY <1>3, <1>4, <1>5

--------------------------------------------------------------------------------
(* ncore_log2 can handle the words of the bitmap and the word of groups. *)
Log2Suffices == BitmapFits(Log2Bits)

LEMMA TopOfWord ==
    ASSUME NEW M \in Nat, NEW w \in SUBSET (0 .. M), w # {}
    PROVE  LET top == CHOOSE i \in w : \A j \in w : j <= i
           IN  top \in w /\ \A j \in w : j <= top
<1> DEFINE rq == [p \in 0 .. M |-> IF p \in w THEN <<0>> ELSE << >>]
           h == HighestUsed(rq)
<1>1. \A p \in 0 .. M : rq[p] # << >> <=> p \in w
  OBVIOUS
<1>2. DOMAIN rq = 0 .. M /\ \E p \in 0 .. M : rq[p] # << >>
  BY <1>1
<1>3. h \in 0 .. M /\ rq[h] # << >> /\ \A q \in 0 .. M : rq[q] # << >> => q <= h
  <2> HIDE DEF rq
  <2> QED BY <1>2, HighestUsedProperties
<1>4. h \in w /\ \A j \in w : j <= h
  <2> HIDE DEF rq, h
  <2> QED BY <1>1, <1>3
<1> HIDE DEF h
<1> QED BY <1>4

(* ncore_log2 finds the highest bit of a word it can handle. *)
LEMMA Log2Finds ==
    ASSUME NEW M \in Nat, NEW w \in SUBSET (0 .. M), w # {}, M < Log2Bits
    PROVE  \E top \in w : Log2(w) = {top} /\ \A j \in w : j <= top
<1> DEFINE top == CHOOSE i \in w : \A j \in w : j <= i
<1>1. top \in w /\ \A j \in w : j <= top
  BY TopOfWord
<1>2. Log2Bits \in Nat
  BY PrioQueueAssumption
<1>3. Log2(w) = IF top < Log2Bits THEN {top} ELSE Bucket
  BY DEF Log2
<1> HIDE DEF top
<1>4. top < Log2Bits
  BY <1>1, <1>2
<1> QED BY <1>1, <1>3, <1>4

(* bitmap_get_highest never leaves the array of buckets. *)
LEMMA HighestInArray ==
    ASSUME NEW q \in Pq, Agree(q), \E b \in Bucket : q.list[b] # << >>
    PROVE  BitmapGetHighest(q) \subseteq Bucket
<1>1. CASE Grouped
  BY <1>1 DEF BitmapGetHighest
<1>2. CASE ~Grouped
  <2>1. q.bit[0] \in SUBSET Bucket /\ q.bit[0] # {}
    BY <1>2, OneWord DEF Agree, GoodBitmap, BitsInRange, HasBit
  <2> DEFINE top == CHOOSE i \in q.bit[0] : \A j \in q.bit[0] : j <= i
  <2>2. Buckets - 1 \in Nat
    BY PrioQueueAssumption
  <2>3. top \in q.bit[0]
    <3>1. q.bit[0] \in SUBSET (0 .. Buckets - 1)
      BY <2>1 DEF Bucket
    <3> QED BY <2>1, <2>2, <3>1, TopOfWord
  <2>4. Log2(q.bit[0]) = IF top < Log2Bits THEN {top} ELSE Bucket
    BY <2>1 DEF Log2
  <2> HIDE DEF top
  <2> QED BY <1>2, <2>1, <2>3, <2>4 DEF BitmapGetHighest
<1> QED BY <1>1, <1>2

(* It finds the highest bucket in use. *)
LEMMA HighestIsFound ==
    ASSUME Log2Suffices, NEW q \in Pq, Agree(q), \E b \in Bucket : q.list[b] # << >>
    PROVE  \E b \in Bucket : /\ BitmapGetHighest(q) = {b} /\ q.list[b] # << >>
                             /\ \A c \in Bucket : q.list[c] # << >> => c <= b
<1>0. /\ Width \in Nat \ {0} /\ Buckets - 1 \in Nat /\ Log2Bits \in Nat
      /\ \A b \in Bucket : HasBit(q, b) <=> q.list[b] # << >>
  BY PrioQueueAssumption DEF Agree
<1>1. CASE Grouped
  <2> DEFINE K == (Buckets - 1) \div Width
  <2>1. K \in Nat /\ K < Log2Bits /\ Word = 0 .. K
    BY <1>0, <1>1, SMTT(20) DEF Log2Suffices, BitmapFits, Word
  <2>2. q.group = {g \in Word : q.bit[g] # {}} /\ q.group \in SUBSET (0 .. K)
    BY <1>1, <2>1 DEF Agree, GoodBitmap, GroupsMirror
  <2>3. q.group # {}
    <3>1. PICK b \in Bucket : q.list[b] # << >>
      OBVIOUS
    <3>2. b \div Width \in Word /\ b % Width \in q.bit[b \div Width]
      BY <1>0, <1>1, <3>1, WordsAndBits DEF HasBit
    <3> QED BY <2>2, <3>2
  <2> HIDE DEF K
  <2>4. PICK g \in q.group : Log2(q.group) = {g} /\ \A h \in q.group : h <= g
    BY <2>1, <2>2, <2>3, Log2Finds
  <2>5. g \in Word /\ g \in Nat /\ q.bit[g] # {}
    BY <2>1, <2>2
  <2>6. /\ q.bit[g] \in SUBSET (0 .. Width - 1)
        /\ \A i \in q.bit[g] : g * Width + i \in Bucket
    BY <1>1, <2>5 DEF Agree, GoodBitmap, BitsInRange
  <2>7. Width - 1 \in Nat /\ Width - 1 < Log2Bits
    BY <1>0, <1>1 DEF Log2Suffices, BitmapFits
  <2>8. PICK i \in q.bit[g] : Log2(q.bit[g]) = {i} /\ \A j \in q.bit[g] : j <= i
    BY <2>5, <2>6, <2>7, Log2Finds
  <2> DEFINE b == g * Width + i
  <2>9. b \in Bucket /\ i \in 0 .. Width - 1
    BY <2>6
  <2>10. BitmapGetHighest(q) = {b}
    BY <1>1, <2>4, <2>5, <2>8, <2>9 DEF BitmapGetHighest
  <2>11. b \div Width = g /\ b % Width = i
    BY <1>0, <2>5, <2>9, SMTT(20)
  <2>12. q.list[b] # << >>
    BY <1>0, <1>1, <2>8, <2>9, <2>11 DEF HasBit
  <2>13. ASSUME NEW c \in Bucket, q.list[c] # << >> PROVE c <= b
    <3> DEFINE h == c \div Width
               j == c % Width
    <3>1. h \in Nat /\ j \in 0 .. Width - 1 /\ h \in Word /\ h * Width + j = c
      BY WordsAndBits
    <3>2. j \in q.bit[h]
      BY <1>0, <1>1, <2>13 DEF HasBit
    <3> HIDE DEF h, j
    <3>3. h <= g
      BY <2>2, <2>4, <3>1, <3>2
    <3>4. CASE h = g
      <4>1. j <= i
        BY <2>8, <3>2, <3>4
      <4>2. \A x, y, z \in Int : y <= z => x + y <= x + z
        OBVIOUS
      <4>3. g * Width \in Int /\ i \in Int /\ j \in Int
        BY <1>0, <2>5, <2>9, <3>1
      <4> QED BY <3>1, <3>4, <4>1, <4>2, <4>3
    <3>5. CASE h < g
      <4>1. \A x, y, u, v \in Nat : x < y /\ u < Width => x * Width + u <= y * Width + v
        BY <1>0, SMTT(30)
      <4>2. g \in Nat /\ i \in Nat /\ j \in Nat /\ j < Width
        BY <1>0, <2>5, <2>9, <3>1
      <4> QED BY <3>1, <3>5, <4>1, <4>2
    <3> QED BY <2>5, <3>1, <3>3, <3>4, <3>5
  <2> QED BY <2>9, <2>10, <2>12, <2>13
<1>2. CASE ~Grouped
  <2>1. q.bit[0] \in SUBSET Bucket /\ q.bit[0] # {}
    BY <1>2, OneWord DEF Agree, GoodBitmap, BitsInRange, HasBit
  <2>2. q.bit[0] \in SUBSET (0 .. Buckets - 1) /\ Buckets - 1 < Log2Bits
    BY <1>0, <1>2, <2>1, PrioQueueAssumption DEF Bucket, Grouped, Log2Suffices, BitmapFits
  <2>3. PICK b \in q.bit[0] : Log2(q.bit[0]) = {b} /\ \A j \in q.bit[0] : j <= b
    BY <1>0, <2>1, <2>2, Log2Finds
  <2> QED BY <1>0, <1>2, <2>1, <2>3 DEF BitmapGetHighest, HasBit
<1> QED BY <1>1, <1>2

--------------------------------------------------------------------------------
Ready == {t \in live : ref[t] > 0}

(* The inductive invariant *)
SchedInv ==
    /\ TypeOK
    /\ Agree(queue)
    /\ ListsHold(queue.list, Ready)
    /\ IF initialized THEN Idle \in live /\ ref[Idle] = 1 ELSE live = {} /\ pc = "off"

LEMMA PqIsTyped == TypeOK => queue \in Pq
BY DEF TypeOK, Pq

LEMMA SchedInvImplies == SchedInv => BitmapMirrorsLists /\ LinkedIffReady
<1>1. SchedInv => Mirrors(queue) /\ GroupsMirror(queue)
  BY AgreeMirrors DEF SchedInv
<1>2. SchedInv => LinkedIffReady
  <2>1. Ready = {t \in live : ref[t] > 0}
    BY DEF Ready
  <2> QED BY <2>1 DEF SchedInv, ListsHold, LinkedIffReady
<1> QED BY <1>1, <1>2 DEF BitmapMirrorsLists

THEOREM InitSchedInv == Init => SchedInv
<1> SUFFICES ASSUME Init PROVE SchedInv
  OBVIOUS
<1>1. queue \in Pq /\ Agree(queue)
  BY EmptyQueue DEF Init
<1>2. TypeOK
  BY <1>1 DEF Init, TypeOK, Pq
<1>3. Ready = {}
  BY DEF Init, Ready
<1>4. ListsHold(queue.list, Ready)
  <2>1. \A b \in Bucket : queue.list[b] = << >>
    BY DEF Init, PqInit
  <2>2. \A t : ~Linked(<< >>, t)
    BY DEF Linked
  <2>3. Distinct(<< >>)
    BY DEF Distinct
  <2> QED BY <1>3, <2>1, <2>2, <2>3 DEF ListsHold
<1> QED BY <1>1, <1>2, <1>4 DEF Init, SchedInv

(* The three ways in which a step touches the run queue *)
LEMMA QueueKept ==
    ASSUME SchedInv, queue' = queue, Ready' = Ready
    PROVE  queue' \in Pq /\ Agree(queue') /\ ListsHold(queue'.list, Ready')
BY PqIsTyped DEF SchedInv

LEMMA QueueInserted ==
    ASSUME Buckets = Levels, Exp2Suffices, SchedInv, NEW t \in Thread, t \notin Ready,
           queue' = PqInsert(queue, t), Ready' = Ready \cup {t}
    PROVE  queue' \in Pq /\ Agree(queue') /\ ListsHold(queue'.list, Ready')
<1>1. queue \in Pq /\ Agree(queue) /\ ListsHold(queue.list, Ready)
  BY PqIsTyped DEF SchedInv
<1>2. queue.list \in [Bucket -> Seq(Thread)]
  BY <1>1 DEF Pq
<1> DEFINE b == BucketOf(t)
           m == [queue.list EXCEPT ![b] = Append(queue.list[b], t)]
<1>3. queue' \in Pq /\ Agree(queue') /\ queue'.list = m
  BY <1>1, InsertAgrees
<1>4. ListsHold(m, Ready \cup {t})
  BY <1>1, <1>2, AppendHolds
<1> QED BY <1>3, <1>4

LEMMA QueueRemoved ==
    ASSUME Buckets = Levels, Exp2Suffices, SchedInv, NEW t \in Thread, t \in Ready,
           queue' = PqRemove(queue, t), Ready' = Ready \ {t}
    PROVE  queue' \in Pq /\ Agree(queue') /\ ListsHold(queue'.list, Ready')
<1>1. queue \in Pq /\ Agree(queue) /\ ListsHold(queue.list, Ready)
  BY PqIsTyped DEF SchedInv
<1>2. queue.list \in [Bucket -> Seq(Thread)]
  BY <1>1 DEF Pq
<1> DEFINE b == BucketOf(t)
           m == [queue.list EXCEPT ![b] = Unlink(queue.list[b], t)]
<1>3. Linked(queue.list[b], t) /\ Distinct(queue.list[b]) /\ ListsHold(m, Ready \ {t})
  BY <1>1, <1>2, UnlinkHolds
<1>4. queue' \in Pq /\ Agree(queue') /\ queue'.list = m
  BY <1>1, <1>3, RemoveAgrees
<1> QED BY <1>3, <1>4

LEMMA QueueRotated ==
    ASSUME Buckets = Levels, Exp2Suffices, SchedInv, NEW t \in Thread, t \in Ready,
           queue' = PqRotate(queue, t), Ready' = Ready
    PROVE  queue' \in Pq /\ Agree(queue') /\ ListsHold(queue'.list, Ready')
<1>1. queue \in Pq /\ Agree(queue) /\ ListsHold(queue.list, Ready)
  BY PqIsTyped DEF SchedInv
<1>2. queue.list \in [Bucket -> Seq(Thread)]
  BY <1>1 DEF Pq
<1> DEFINE b == BucketOf(t)
           m == [queue.list EXCEPT ![b] = Append(Unlink(queue.list[b], t), t)]
<1>3. Linked(queue.list[b], t) /\ Distinct(queue.list[b])
  BY <1>1, <1>2, UnlinkHolds
<1>4. ListsHold(m, Ready)
  BY <1>1, <1>2, RotateHolds
<1>5. queue' \in Pq /\ Agree(queue') /\ queue'.list = m
  BY <1>1, <1>3, RotateAgrees
<1> QED BY <1>4, <1>5

(* The thread sched_schedule_i finds is ready. *)
LEMMA PickedIsReady ==
    ASSUME Buckets = Levels, Exp2Suffices, SchedInv, initialized, NEW x \in PqPeek(queue), x \in Thread
    PROVE  x \in Ready
<1>1. queue \in Pq /\ Agree(queue) /\ ListsHold(queue.list, Ready)
  BY PqIsTyped DEF SchedInv
<1>2. Idle \in Ready /\ Idle \in Thread
  BY SchedulerAssumption DEF SchedInv, Ready
<1>3. \E b \in Bucket : queue.list[b] # << >>
  <2>1. PICK b \in Bucket : b = BucketOf(Idle)
    BY <1>2, BucketOfThread
  <2>2. Linked(queue.list[b], Idle)
    BY <1>1, <1>2, <2>1 DEF ListsHold
  <2> QED BY <2>2 DEF Linked
<1>4. BitmapGetHighest(queue) \subseteq Bucket
  BY <1>1, <1>3, HighestInArray
<1>5. PICK b \in Bucket : x = IF queue.list[b] = << >> THEN Sentinel ELSE Head(queue.list[b])
  BY <1>4 DEF PqPeek
<1>6. queue.list[b] # << >> /\ x = Head(queue.list[b]) /\ queue.list[b] \in Seq(Thread)
  BY <1>1, <1>5, PrioQueueAssumption DEF Pq
<1>7. Linked(queue.list[b], x)
  BY <1>6 DEF Linked
<1> QED BY <1>1, <1>7 DEF ListsHold

(* The first nthread_init prepares the run queue and makes the idle thread  *)
(* ready.                                                                  *)
LEMMA FirstInit ==
    ASSUME Buckets = Levels, Exp2Suffices, queue' = PqInsert(PqInit, Idle), Ready' = {Idle}
    PROVE  queue' \in Pq /\ Agree(queue') /\ ListsHold(queue'.list, Ready')
<1> DEFINE e == PqInit
           b == BucketOf(Idle)
           m == [e.list EXCEPT ![b] = Append(e.list[b], Idle)]
<1>1. e \in Pq /\ Agree(e) /\ Idle \in Thread
  BY EmptyQueue, SchedulerAssumption
<1>2. e.list \in [Bucket -> Seq(Thread)]
  BY <1>1 DEF Pq
<1>3. ListsHold(e.list, {})
  <2>1. \A c \in Bucket : e.list[c] = << >>
    BY DEF PqInit
  <2>2. (\A t : ~Linked(<< >>, t)) /\ Distinct(<< >>)
    BY DEF Linked, Distinct
  <2> HIDE DEF e
  <2> QED BY <2>1, <2>2 DEF ListsHold
<1> HIDE DEF e
<1>4. PqInsert(e, Idle) \in Pq /\ Agree(PqInsert(e, Idle)) /\ PqInsert(e, Idle).list = m
  BY <1>1, InsertAgrees
<1>5. ListsHold(m, {} \cup {Idle})
  BY <1>1, <1>2, <1>3, AppendHolds
<1>6. {} \cup {Idle} = {Idle}
  OBVIOUS
<1> QED BY <1>4, <1>5, <1>6 DEF e

LEMMA Threads ==
    ASSUME Buckets = Levels, Exp2Suffices, SchedInv, NEW t \in Thread,
           ThreadInit(t) \/ ThreadTerm(t) \/ InsertThread(t) \/ RemoveThread(t)
    PROVE  SchedInv'
<1>0. /\ live \subseteq Thread /\ ref \in [Thread -> Nat] /\ Idle \in Thread
      /\ initialized \in BOOLEAN
  BY SchedulerAssumption DEF SchedInv, TypeOK
<1>1. CASE ThreadInit(t)
  <2>1. ref' \in [Thread -> Nat] /\ live' \subseteq Thread /\ live' = live \cup {t, Idle} /\ t # Idle
    BY <1>0, <1>1 DEF ThreadInit
  <2>2. CASE initialized
    <3>1. \A u \in Thread : u # t => ref'[u] = ref[u]
      BY <1>0, <1>1, <2>2 DEF ThreadInit
    <3>2. ref'[t] = 0 /\ t \notin live /\ Idle \in live
      BY <1>0, <1>1, <2>2 DEF ThreadInit, SchedInv
    <3>3. Ready' = Ready
      BY <1>0, <2>1, <3>1, <3>2 DEF Ready
    <3>4. queue' \in Pq /\ Agree(queue') /\ ListsHold(queue'.list, Ready')
      BY <1>1, <2>2, <3>3, QueueKept DEF ThreadInit
    <3>5. ref'[Idle] = 1
      BY <1>0, <2>1, <2>2, <3>1 DEF SchedInv
    <3> QED BY <1>1, <2>1, <2>2, <3>2, <3>4, <3>5 DEF ThreadInit, SchedInv, TypeOK, Pq
  <2>3. CASE ~initialized
    <3>1. live = {} /\ ref'[Idle] = 1 /\ ref'[t] = 0
      BY <1>0, <1>1, <2>1, <2>3 DEF ThreadInit, SchedInv
    <3>2. Ready' = {Idle}
      BY <2>1, <3>1 DEF Ready
    <3>3. queue' \in Pq /\ Agree(queue') /\ ListsHold(queue'.list, Ready')
      BY <1>1, <2>3, <3>2, FirstInit DEF ThreadInit
    <3>4. token' = TRUE
      BY <1>1, <2>3 DEF ThreadInit
    <3> QED BY <1>1, <2>1, <2>3, <3>1, <3>3, <3>4 DEF ThreadInit, SchedInv, TypeOK, Pq
  <2> QED BY <1>0, <2>2, <2>3
<1>2. CASE ThreadTerm(t)
  <2>1. live' = live \ {t} /\ ref' = ref /\ t # Idle /\ t \in live /\ initialized
    BY <1>2 DEF ThreadTerm, SchedInv
  <2>2. queue' \in Pq /\ Agree(queue') /\ ListsHold(queue'.list, Ready')
    <3>1. CASE ref[t] # 0
      <4>1. t \in Ready /\ Ready' = Ready \ {t}
        BY <1>0, <2>1, <3>1 DEF Ready
      <4> QED BY <1>2, <3>1, <4>1, QueueRemoved DEF ThreadTerm
    <3>2. CASE ref[t] = 0
      <4>1. Ready' = Ready
        BY <1>0, <2>1, <3>2 DEF Ready
      <4> QED BY <1>2, <3>2, <4>1, QueueKept DEF ThreadTerm
    <3> QED BY <3>1, <3>2
  <2> QED BY <1>0, <1>2, <2>1, <2>2 DEF ThreadTerm, SchedInv, TypeOK, Pq
<1>3. CASE InsertThread(t)
  <2>1. /\ live' = live /\ t # Idle /\ t \in live /\ initialized /\ ref' \in [Thread -> Nat]
        /\ \A u \in Thread : ref'[u] = IF u = t THEN ref[t] + 1 ELSE ref[u]
    BY <1>0, <1>3 DEF InsertThread, SchedInv
  <2>2. queue' \in Pq /\ Agree(queue') /\ ListsHold(queue'.list, Ready')
    <3>1. CASE ref[t] = 0
      <4>1. t \notin Ready /\ Ready' = Ready \cup {t}
        BY <1>0, <2>1, <3>1 DEF Ready
      <4> QED BY <1>3, <3>1, <4>1, QueueInserted DEF InsertThread
    <3>2. CASE ref[t] # 0
      <4>1. Ready' = Ready
        BY <1>0, <2>1, <3>2 DEF Ready
      <4> QED BY <1>3, <3>2, <4>1, QueueKept DEF InsertThread
    <3> QED BY <3>1, <3>2
  <2> QED BY <1>0, <1>3, <2>1, <2>2 DEF InsertThread, SchedInv, TypeOK, Pq
<1>4. CASE RemoveThread(t)
  <2>1. /\ live' = live /\ t # Idle /\ t \in live /\ initialized /\ ref' \in [Thread -> Nat]
        /\ \A u \in Thread : ref'[u] = IF u = t THEN ref[t] - 1 ELSE ref[u]
        /\ ref[t] > 0
    BY <1>0, <1>4 DEF RemoveThread, SchedInv
  <2>2. queue' \in Pq /\ Agree(queue') /\ ListsHold(queue'.list, Ready')
    <3>1. CASE ref[t] = 1
      <4>1. t \in Ready /\ Ready' = Ready \ {t}
        BY <1>0, <2>1, <3>1 DEF Ready
      <4> QED BY <1>4, <3>1, <4>1, QueueRemoved DEF RemoveThread
    <3>2. CASE ref[t] # 1
      <4>1. Ready' = Ready
        BY <1>0, <2>1, <3>2 DEF Ready
      <4> QED BY <1>4, <3>2, <4>1, QueueKept DEF RemoveThread
    <3> QED BY <3>1, <3>2
  <2> QED BY <1>0, <1>4, <2>1, <2>2 DEF RemoveThread, SchedInv, TypeOK, Pq
<1> QED BY <1>1, <1>2, <1>3, <1>4

(* The steps of the loop, and ncore_os_exit *)
LEMMA Loop ==
    ASSUME Buckets = Levels, Exp2Suffices, SchedInv, OsExit \/ EnterLoop \/ LoopStep
    PROVE  SchedInv'
<1>0. initialized \in BOOLEAN /\ exit \in BOOLEAN /\ token \in BOOLEAN /\ IdleWaits \in BOOLEAN
  BY SchedulerAssumption DEF SchedInv, TypeOK
<1>1. live' = live /\ ref' = ref /\ initialized' = initialized /\ Ready' = Ready
  BY DEF OsExit, EnterLoop, LoopStep, Schedule, IdleReturn, TaskReturn, LeaveLoop, Ready
<1>2. CASE Schedule
  <2>1. initialized
    BY <1>2 DEF Schedule, SchedInv
  <2>2. current' \in Thread \cup {Sentinel} /\ queue' \in Pq /\ Agree(queue') /\ ListsHold(queue'.list, Ready')
    <3>1. CASE current' \in Thread
      <4>1. current' \in Ready
        BY <1>2, <2>1, <3>1, PickedIsReady DEF Schedule
      <4> QED BY <1>1, <1>2, <3>1, <4>1, QueueRotated DEF Schedule
    <3>2. CASE current' \notin Thread
      <4>1. queue' = queue /\ queue \in Pq /\ Agree(queue) /\ ListsHold(queue.list, Ready)
        BY <1>2, <3>2, PqIsTyped DEF Schedule, SchedInv
      <4>2. queue' \in Pq /\ Agree(queue') /\ ListsHold(queue'.list, Ready')
        BY <1>1, <4>1
      <4>3. current' = Sentinel
        <5>1. \E b \in BitmapGetHighest(queue) :
                 current' = IF queue.list[b] = << >> THEN Sentinel ELSE Head(queue.list[b])
          BY <1>2 DEF Schedule, PqPeek
        <5>2. BitmapGetHighest(queue) \subseteq Bucket
          <6>1. Idle \in Ready /\ Idle \in Thread
            BY <2>1, SchedulerAssumption DEF SchedInv, Ready
          <6>2. Linked(queue.list[BucketOf(Idle)], Idle) /\ BucketOf(Idle) \in Bucket
            BY <4>1, <6>1, BucketOfThread DEF ListsHold
          <6>3. \E b \in Bucket : queue.list[b] # << >>
            BY <6>2 DEF Linked
          <6> QED BY <4>1, <6>3, HighestInArray
        <5>3. \A b \in Bucket : queue.list[b] # << >> => Head(queue.list[b]) \in Thread
          BY <4>1 DEF Pq
        <5> QED BY <3>2, <5>1, <5>2, <5>3
      <4> QED BY <4>2, <4>3
    <3> QED BY <3>1, <3>2
  <2>3. pc' \in {"idle", "task", "wild"}
    BY <1>2 DEF Schedule
  <2> QED BY <1>0, <1>1, <1>2, <2>1, <2>2, <2>3 DEF Schedule, SchedInv, TypeOK, Pq
<1>3. CASE OsExit \/ EnterLoop \/ IdleReturn \/ TaskReturn \/ LeaveLoop
  <2>1. queue' = queue /\ current' = current
    BY <1>3 DEF OsExit, EnterLoop, IdleReturn, TaskReturn, LeaveLoop
  <2>2. queue' \in Pq /\ Agree(queue') /\ ListsHold(queue'.list, Ready')
    BY <1>1, <2>1, QueueKept
  <2>3. exit' \in BOOLEAN /\ token' \in BOOLEAN
    BY <1>0, <1>3 DEF OsExit, EnterLoop, IdleReturn, TaskReturn, LeaveLoop
  <2>4. pc' \in {"off", "sched", "idle", "task", "wild", "done"} /\ (~initialized => pc' = "off")
    BY <1>3 DEF OsExit, EnterLoop, IdleReturn, TaskReturn, LeaveLoop, SchedInv, TypeOK
  <2> QED BY <1>1, <2>1, <2>2, <2>3, <2>4 DEF SchedInv, TypeOK, Pq
<1> QED BY <1>2, <1>3 DEF LoopStep

THEOREM NextKeepsSchedInv ==
    ASSUME Buckets = Levels, Exp2Suffices, SchedInv, [Next]_vars
    PROVE  SchedInv'
<1>1. CASE Next
  BY <1>1, Threads, Loop DEF Next
<1>2. CASE UNCHANGED vars
  <2>1. Ready' = Ready
    BY <1>2 DEF vars, Ready
  <2> QED BY <1>2, <2>1 DEF vars, SchedInv, TypeOK
<1> QED BY <1>1, <1>2

--------------------------------------------------------------------------------
(* The bitmap never hides a ready thread nor shows an empty bucket, for    *)
(* any number of threads, levels and bits in a word (bitmap_set and        *)
(* bitmap_clear of sched.c).                                               *)
THEOREM BitmapIsRight ==
    ASSUME Buckets = Levels, Exp2Suffices
    PROVE  Spec => []BitmapMirrorsLists
BY InitSchedInv, NextKeepsSchedInv, SchedInvImplies, PTL DEF Spec

(* A thread is in the run queue exactly while it is ready, once and in its *)
(* bucket, whatever the order of the calls of nthread_init, nthread_term,  *)
(* nthread_insert_i and nthread_remove_i.                                  *)
THEOREM LinksAreRight ==
    ASSUME Buckets = Levels, Exp2Suffices
    PROVE  Spec => []LinkedIffReady
BY InitSchedInv, NextKeepsSchedInv, SchedInvImplies, PTL DEF Spec

--------------------------------------------------------------------------------
(* sched_schedule_i finds the first thread of the highest bucket in use. *)
LEMMA PickedIsHighest ==
    ASSUME Buckets = Levels, Exp2Suffices, Log2Suffices, SchedInv, initialized
    PROVE  \E b \in Bucket :
               /\ queue.list[b] # << >> /\ \A c \in Bucket : queue.list[c] # << >> => c <= b
               /\ PqPeek(queue) = {Head(queue.list[b])} /\ Head(queue.list[b]) \in Thread
<1>1. queue \in Pq /\ Agree(queue) /\ ListsHold(queue.list, Ready)
  BY PqIsTyped DEF SchedInv
<1>2. Idle \in Ready /\ Idle \in Thread
  BY SchedulerAssumption DEF SchedInv, Ready
<1>3. Linked(queue.list[BucketOf(Idle)], Idle) /\ BucketOf(Idle) \in Bucket
  BY <1>1, <1>2, BucketOfThread DEF ListsHold
<1>4. \E b \in Bucket : queue.list[b] # << >>
  BY <1>3 DEF Linked
<1>5. PICK b \in Bucket : /\ BitmapGetHighest(queue) = {b} /\ queue.list[b] # << >>
                          /\ \A c \in Bucket : queue.list[c] # << >> => c <= b
  BY <1>1, <1>4, HighestIsFound
<1>6. PqPeek(queue) = {Head(queue.list[b])}
  BY <1>5 DEF PqPeek
<1>7. Head(queue.list[b]) \in Thread
  BY <1>1, <1>5 DEF Pq
<1> QED BY <1>5, <1>6, <1>7

(* The priorities of applications start at NTHREAD_PRIORITY_MIN (sched.h). *)
IdleIsLowest == \A t \in Thread \ {Idle} : Priority[t] > 0

(* The idle thread is picked only when no other is ready. *)
LEMMA IdleIsAlone ==
    ASSUME Buckets = Levels, Exp2Suffices, Log2Suffices, IdleIsLowest, SchedInv, initialized,
           Idle \in PqPeek(queue)
    PROVE  \A t \in live \ {Idle} : ref[t] = 0
<1>1. queue \in Pq /\ ListsHold(queue.list, Ready) /\ live \subseteq Thread /\ ref \in [Thread -> Nat]
  BY PqIsTyped DEF SchedInv, TypeOK
<1>2. PICK b \in Bucket :
          /\ queue.list[b] # << >> /\ \A c \in Bucket : queue.list[c] # << >> => c <= b
          /\ PqPeek(queue) = {Head(queue.list[b])}
  BY PickedIsHighest
<1>3. queue.list[b] \in Seq(Thread) /\ Idle = Head(queue.list[b]) /\ Idle \in Thread
  BY <1>1, <1>2, SchedulerAssumption DEF Pq
<1>4. Linked(queue.list[b], Idle)
  BY <1>2, <1>3 DEF Linked
<1>5. b = 0
  BY <1>1, <1>3, <1>4, BucketOfThread, SchedulerAssumption DEF ListsHold
<1> SUFFICES ASSUME NEW t \in live \ {Idle}, ref[t] # 0 PROVE FALSE
  OBVIOUS
<1>6. t \in Ready /\ t \in Thread /\ Priority[t] \in Nat /\ Priority[t] > 0
  BY <1>1, PrioQueueAssumption DEF Ready, IdleIsLowest
<1>7. Linked(queue.list[Priority[t]], t) /\ Priority[t] \in Bucket
  BY <1>1, <1>6, BucketOfThread DEF ListsHold
<1>8. queue.list[Priority[t]] # << >>
  BY <1>7 DEF Linked
<1> QED BY <1>2, <1>5, <1>6, <1>7, <1>8

LEMMA WakeupKept ==
    ASSUME Buckets = Levels, Exp2Suffices, Log2Suffices, IdleIsLowest, SchedInv, NoLostWakeup, [Next]_vars
    PROVE  NoLostWakeup'
<1>0. live \subseteq Thread /\ ref \in [Thread -> Nat]
  BY DEF SchedInv, TypeOK
<1> SUFFICES ASSUME pc' = "idle", NEW t \in live' \ {Idle}, ref'[t] > 0 PROVE token'
  BY DEF NoLostWakeup
<1>1. ASSUME NEW u \in Thread, ThreadInit(u) PROVE token'
  <2>1. pc = "idle" /\ initialized
    BY <1>1 DEF ThreadInit, SchedInv
  <2>2. u \notin live /\ Idle \in live /\ live' = live \cup {u, Idle} /\ ref' = [ref EXCEPT ![u] = 0]
    BY <1>1, <2>1 DEF ThreadInit, SchedInv
  <2>3. t \in live \ {Idle} /\ ref[t] > 0
    BY <1>0, <2>2
  <2> QED BY <1>1, <2>1, <2>3 DEF ThreadInit, NoLostWakeup
<1>2. ASSUME NEW u \in Thread, ThreadTerm(u) PROVE token'
  BY <1>2 DEF ThreadTerm, NoLostWakeup
<1>3. ASSUME NEW u \in Thread, InsertThread(u) PROVE token'
  BY <1>3 DEF InsertThread
<1>4. ASSUME NEW u \in Thread, RemoveThread(u) PROVE token'
  <2>1. t \in live \ {Idle} /\ ref[t] > 0
    BY <1>0, <1>4 DEF RemoveThread
  <2> QED BY <1>4, <2>1 DEF RemoveThread, NoLostWakeup
<1>5. CASE Schedule
  <2>1. initialized /\ current' \in PqPeek(queue) /\ current' = Idle /\ live' = live /\ ref' = ref
    BY <1>5 DEF Schedule, SchedInv
  <2>2. ref[t] = 0
    BY <2>1, IdleIsAlone
  <2> QED BY <2>1, <2>2
<1>6. CASE OsExit \/ EnterLoop \/ IdleReturn \/ TaskReturn \/ LeaveLoop
  BY <1>6 DEF OsExit, EnterLoop, IdleReturn, TaskReturn, LeaveLoop, NoLostWakeup
<1>7. CASE UNCHANGED vars
  BY <1>7 DEF vars, NoLostWakeup
<1> QED BY <1>1, <1>2, <1>3, <1>4, <1>5, <1>6, <1>7 DEF Next, LoopStep

(* The loop never sleeps on the idle lock while a thread is ready: the     *)
(* unlocks of ncore_os_ready are not lost, for any number of threads.      *)
THEOREM WakeupsAreKept ==
    ASSUME Buckets = Levels, Exp2Suffices, Log2Suffices, IdleIsLowest
    PROVE  Spec => []NoLostWakeup
<1>1. Init => NoLostWakeup
  BY DEF Init, NoLostWakeup
<1> QED BY <1>1, InitSchedInv, NextKeepsSchedInv, WakeupKept, PTL DEF Spec

--------------------------------------------------------------------------------
(* Every step of the scheduler is one of PriorityScheduler, or none.       *)
LEMMA ThreadsRefine ==
    ASSUME Buckets = Levels, Exp2Suffices, SchedInv, NEW t \in Thread,
           ThreadInit(t) \/ ThreadTerm(t) \/ InsertThread(t) \/ RemoveThread(t)
    PROVE  Abstract!Next
<1>0. /\ queue \in Pq /\ Agree(queue) /\ ListsHold(queue.list, Ready)
      /\ live \subseteq Thread /\ ref \in [Thread -> Nat] /\ Idle \in Thread
      /\ BucketOf(t) = Priority[t] /\ BucketOf(Idle) = Priority[Idle]
  BY PqIsTyped, BucketOfThread, SchedulerAssumption DEF SchedInv, TypeOK
<1>1. CASE ThreadInit(t)
  <2>1. t # Idle /\ t \notin live /\ live' = live \cup {t, Idle} /\ current' = current /\ pc' = pc
    BY <1>1 DEF ThreadInit
  <2>2. CASE initialized
    <3>1. live # {} /\ queue' = queue /\ ref' = [ref EXCEPT ![t] = 0]
      BY <1>1, <2>2 DEF ThreadInit, SchedInv
    <3>2. Abstract!Create(t)
      BY <2>1, <3>1 DEF Abstract!Create
    <3> QED BY <3>2 DEF Abstract!Next
  <2>3. CASE ~initialized
    <3>1. live = {} /\ queue' = PqInsert(PqInit, Idle) /\ ref' = [ref EXCEPT ![t] = 0, ![Idle] = 1]
      BY <1>1, <2>3 DEF ThreadInit, SchedInv
    <3>2. queue.list = PqInit.list
      <4>1. Ready = {}
        BY <3>1 DEF Ready
      <4>2. \A b \in Bucket : queue.list[b] \in Seq(Thread) /\ \A u \in Thread : ~Linked(queue.list[b], u)
        BY <1>0, <4>1 DEF ListsHold, Pq
      <4>3. \A b \in Bucket : queue.list[b] = << >>
        <5>1. ASSUME NEW b \in Bucket, queue.list[b] # << >> PROVE FALSE
          <6>1. Len(queue.list[b]) \in Nat /\ 1 \in 1 .. Len(queue.list[b]) /\ queue.list[b][1] \in Thread
            BY <4>2, <5>1
          <6> QED BY <4>2, <6>1 DEF Linked
        <5> QED BY <5>1
      <4>4. queue.list = [b \in Bucket |-> << >>]
        BY <1>0, <4>3 DEF Pq
      <4> QED BY <4>4 DEF PqInit
    <3>3. queue'.list = [PqInit.list EXCEPT ![BucketOf(Idle)] = Append(PqInit.list[BucketOf(Idle)], Idle)]
      BY <1>0, <3>1, EmptyQueue, InsertAgrees
    <3>4. ref' = [ref EXCEPT ![Idle] = 1, ![t] = 0]
      BY <1>0, <2>1, <3>1
    <3>5. queue'.list = Abstract!RqInsert(queue.list, Priority[Idle], Idle)
      BY <1>0, <3>2, <3>3 DEF Abstract!RqInsert
    <3>6. Abstract!Create(t)
      BY <2>1, <3>1, <3>4, <3>5 DEF Abstract!Create
    <3> QED BY <3>6 DEF Abstract!Next
  <2> QED BY <2>2, <2>3
<1>2. CASE ThreadTerm(t)
  <2>1. t \in live \ {Idle} /\ live' = live \ {t} /\ ref' = ref /\ current' = current /\ pc' = pc
    BY <1>2 DEF ThreadTerm
  <2>2. queue'.list = IF ref[t] > 0 THEN Abstract!RqRemove(queue.list, Priority[t], t) ELSE queue.list
    <3>1. CASE ref[t] > 0
      <4>1. t \in Ready /\ queue' = PqRemove(queue, t)
        BY <1>2, <2>1, <3>1 DEF Ready, ThreadTerm
      <4>2. queue'.list = [queue.list EXCEPT ![BucketOf(t)] = Unlink(queue.list[BucketOf(t)], t)]
        <5>1. Linked(queue.list[BucketOf(t)], t) /\ Distinct(queue.list[BucketOf(t)])
          BY <1>0, <4>1, BucketOfThread DEF ListsHold
        <5> QED BY <1>0, <4>1, <5>1, RemoveAgrees
      <4> QED BY <1>0, <3>1, <4>2 DEF Abstract!RqRemove, Abstract!Unlink, Unlink
    <3>2. CASE ~(ref[t] > 0)
      BY <1>0, <1>2, <3>2 DEF ThreadTerm
    <3> QED BY <3>1, <3>2
  <2>3. Abstract!Terminate(t)
    BY <2>1, <2>2 DEF Abstract!Terminate
  <2> QED BY <2>3 DEF Abstract!Next
<1>3. CASE InsertThread(t)
  <2>1. /\ t \in live \ {Idle} /\ pc # "sched" /\ live' = live /\ current' = current /\ pc' = pc
        /\ ref' = [ref EXCEPT ![t] = ref[t] + 1]
    BY <1>3 DEF InsertThread, LockFree
  <2>2. queue'.list = IF ref[t] = 0 THEN Abstract!RqInsert(queue.list, Priority[t], t) ELSE queue.list
    <3>1. CASE ref[t] = 0
      <4>1. queue'.list = [queue.list EXCEPT ![BucketOf(t)] = Append(queue.list[BucketOf(t)], t)]
        BY <1>0, <1>3, <3>1, InsertAgrees DEF InsertThread
      <4> QED BY <1>0, <3>1, <4>1 DEF Abstract!RqInsert
    <3>2. CASE ref[t] # 0
      BY <1>3, <3>2 DEF InsertThread
    <3> QED BY <3>1, <3>2
  <2>3. Abstract!Insert(t)
    BY <2>1, <2>2 DEF Abstract!Insert
  <2> QED BY <2>3 DEF Abstract!Next
<1>4. CASE RemoveThread(t)
  <2>1. /\ t \in live \ {Idle} /\ pc # "sched" /\ live' = live /\ current' = current /\ pc' = pc
        /\ ref' = [ref EXCEPT ![t] = ref[t] - 1] /\ ref[t] > 0
    BY <1>4 DEF RemoveThread, LockFree
  <2>2. queue'.list = IF ref[t] = 1 THEN Abstract!RqRemove(queue.list, Priority[t], t) ELSE queue.list
    <3>1. CASE ref[t] = 1
      <4>1. t \in Ready /\ queue' = PqRemove(queue, t)
        BY <1>4, <2>1, <3>1 DEF Ready, RemoveThread
      <4>2. queue'.list = [queue.list EXCEPT ![BucketOf(t)] = Unlink(queue.list[BucketOf(t)], t)]
        <5>1. Linked(queue.list[BucketOf(t)], t) /\ Distinct(queue.list[BucketOf(t)])
          BY <1>0, <4>1, BucketOfThread DEF ListsHold
        <5> QED BY <1>0, <4>1, <5>1, RemoveAgrees
      <4> QED BY <1>0, <3>1, <4>2 DEF Abstract!RqRemove, Abstract!Unlink, Unlink
    <3>2. CASE ref[t] # 1
      BY <1>4, <3>2 DEF RemoveThread
    <3> QED BY <3>1, <3>2
  <2>3. Abstract!Remove(t)
    BY <2>1, <2>2 DEF Abstract!Remove
  <2> QED BY <2>3 DEF Abstract!Next
<1> QED BY <1>1, <1>2, <1>3, <1>4

(* The thread sched_schedule_i picks is the one the abstract scheduler picks. *)
LEMMA PickRefines ==
    ASSUME Buckets = Levels, Exp2Suffices, Log2Suffices, SchedInv, Schedule
    PROVE  Abstract!Pick
<1>0. initialized /\ pc = "sched" /\ ref' = ref /\ live' = live /\ current' \in PqPeek(queue)
  BY DEF Schedule, SchedInv
<1>1. /\ queue \in Pq /\ Agree(queue) /\ ListsHold(queue.list, Ready)
      /\ queue.list \in [Bucket -> Seq(Thread)]
  BY PqIsTyped DEF SchedInv, Pq
<1>2. PICK b \in Bucket :
          /\ queue.list[b] # << >> /\ \A c \in Bucket : queue.list[c] # << >> => c <= b
          /\ PqPeek(queue) = {Head(queue.list[b])} /\ Head(queue.list[b]) \in Thread
  BY <1>0, PickedIsHighest
<1>3. current' = Head(queue.list[b]) /\ current' \in Thread
  BY <1>0, <1>2
<1>4. Abstract!RqPeek(queue.list) = Head(queue.list[b])
  <2> DEFINE Used(p) == /\ queue.list[p] # << >>
                        /\ \A q \in Bucket : queue.list[q] # << >> => q <= p
  <2>1. DOMAIN queue.list = Bucket
    BY <1>1
  <2>2. \A p \in Bucket : Used(p) <=> p = b
    <3>1. ASSUME NEW p \in Bucket, Used(p) PROVE p = b
      <4>1. p <= b /\ b <= p
        BY <1>2, <3>1
      <4>2. p \in Nat /\ b \in Nat
        BY WordsAndBits
      <4> QED BY <4>1, <4>2
    <3>2. Used(b)
      BY <1>2
    <3> QED BY <3>1, <3>2
  <2>3. (CHOOSE p \in Bucket : Used(p)) = b
    <3> HIDE DEF Used
    <3> QED BY <2>2
  <2>4. Abstract!HighestUsed(queue.list) = CHOOSE p \in Bucket : Used(p)
    BY <2>1 DEF Abstract!HighestUsed
  <2> QED BY <2>3, <2>4 DEF Abstract!RqPeek
<1>5. current' \in Ready
  BY <1>0, <1>3, PickedIsReady
<1>6. queue' = PqRotate(queue, current') /\ pc' # "sched"
  BY <1>3 DEF Schedule
<1>7. BucketOf(current') = Priority[current'] /\ BucketOf(current') \in Bucket
  BY <1>3, BucketOfThread
<1>8. Linked(queue.list[BucketOf(current')], current') /\ Distinct(queue.list[BucketOf(current')])
  BY <1>1, <1>3, <1>5, <1>7 DEF ListsHold
<1>9. queue'.list = [queue.list EXCEPT ![BucketOf(current')] =
                        Append(Unlink(queue.list[BucketOf(current')], current'), current')]
  BY <1>1, <1>3, <1>6, <1>8, RotateAgrees
<1>10. queue'.list = Abstract!RqRotate(queue.list, Priority[current'], current')
  BY <1>7, <1>9 DEF Abstract!RqRotate, Abstract!Unlink, Unlink
<1> QED BY <1>0, <1>3, <1>4, <1>6, <1>10 DEF Abstract!Pick

LEMMA LoopRefines ==
    ASSUME Buckets = Levels, Exp2Suffices, Log2Suffices, SchedInv, OsExit \/ EnterLoop \/ LoopStep
    PROVE  Abstract!Next \/ UNCHANGED Abstract!vars
<1>1. CASE Schedule
  BY <1>1, PickRefines DEF Abstract!Next
<1>2. CASE EnterLoop \/ IdleReturn \/ TaskReturn
  <2>1. initialized
    BY <1>2 DEF EnterLoop, IdleReturn, TaskReturn, SchedInv
  <2>2. live # {} /\ pc' = "sched"
    BY <1>2, <2>1 DEF EnterLoop, IdleReturn, TaskReturn, SchedInv
  <2>3. queue' = queue /\ ref' = ref /\ live' = live /\ current' = current
    BY <1>2 DEF EnterLoop, IdleReturn, TaskReturn
  <2>4. Abstract!Ask
    BY <2>2, <2>3 DEF Abstract!Ask
  <2> QED BY <2>4 DEF Abstract!Next
<1>3. CASE LeaveLoop
  <2>1. Abstract!Stop
    BY <1>3 DEF LeaveLoop, Abstract!Stop
  <2> QED BY <2>1 DEF Abstract!Next
<1>4. CASE OsExit
  BY <1>4 DEF OsExit, Abstract!vars
<1> QED BY <1>1, <1>2, <1>3, <1>4 DEF LoopStep

(* The scheduler with its bitmap, its lists and its circular nodes is the  *)
(* counting scheduler that the event runtime relies on: whatever the word  *)
(* size and the order of calls, each pick is the thread of the highest     *)
(* priority that has waited longest.                                       *)
THEOREM SchedulerImplements ==
    ASSUME Buckets = Levels, Exp2Suffices, Log2Suffices
    PROVE  Spec => ImplementsAbstract
<1>1. Init => Abstract!Init
  <2> SUFFICES ASSUME Init PROVE Abstract!Init
    OBVIOUS
  <2>1. queue.list = [p \in 0 .. Levels - 1 |-> << >>]
    BY DEF Init, PqInit, Bucket
  <2> QED BY <2>1 DEF Init, Abstract!Init
<1>2. SchedInv /\ [Next]_vars => [Abstract!Next]_(Abstract!vars)
  <2> SUFFICES ASSUME SchedInv, [Next]_vars
               PROVE  [Abstract!Next]_(Abstract!vars)
    OBVIOUS
  <2>1. ASSUME NEW t \in Thread,
               ThreadInit(t) \/ ThreadTerm(t) \/ InsertThread(t) \/ RemoveThread(t)
        PROVE  Abstract!Next
    BY <2>1, ThreadsRefine
  <2>2. CASE OsExit \/ EnterLoop \/ LoopStep
    BY <2>2, LoopRefines
  <2>3. CASE UNCHANGED vars
    BY <2>3 DEF vars, Abstract!vars
  <2> QED BY <2>1, <2>2, <2>3 DEF Next
<1> QED BY <1>1, <1>2, InitSchedInv, NextKeepsSchedInv, PTL
       DEF Spec, ImplementsAbstract, Abstract!Spec
================================================================================
