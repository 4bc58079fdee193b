------------------------------ MODULE TimerProofs ------------------------------
(***************************************************************************)
(* Proofs about Timer and EventTimer, for any timers, any ticks that fit   *)
(* into a word and callbacks that start no timer and cancel none but their *)
(* own: the list with relative ticks implements TimerService, a callback   *)
(* is called for a running timer only, and a cancelled event timer is      *)
(* silent.                                                                 *)
(*                                                                         *)
(* Operators on the list first: what putting a timer in and taking one out *)
(* do to the ticks that each timer has left (Counts).  Then a lemma for    *)
(* each step of the timers, and one for those of event timers.             *)
(***************************************************************************)
EXTENDS EventTimer, SequenceTheorems, FiniteSetTheorems, WellFoundedInduction, TLAPS

--------------------------------------------------------------------------------
(* Lists                                                                   *)

Linked(l, t) == \E i \in 1 .. Len(l) : l[i] = t
Distinct(l) == \A i, j \in 1 .. Len(l) : l[i] = l[j] => i = j

(* m is l with t put in as number i. *)
Inserted(m, l, i, t) ==
    /\ m \in Seq(Timer) /\ Len(m) = Len(l) + 1
    /\ \A k \in 1 .. Len(l) + 1 : m[k] = IF k < i THEN l[k] ELSE IF k = i THEN t ELSE l[k - 1]

(* m is l without number i. *)
Removed(m, l, i) ==
    /\ m \in Seq(Timer) /\ Len(m) = Len(l) - 1
    /\ \A k \in 1 .. Len(l) - 1 : m[k] = IF k < i THEN l[k] ELSE l[k + 1]

(* insert_timer links t in front of the timer at place i. *)
LEMMA InsertAt ==
    ASSUME NEW l \in Seq(Timer), NEW t \in Timer, NEW i \in 1 .. Len(l) + 1
    PROVE  Inserted(SubSeq(l, 1, i - 1) \o <<t>> \o SubSeq(l, i, Len(l)), l, i, t)
<1> DEFINE a == SubSeq(l, 1, i - 1)
           b == SubSeq(l, i, Len(l))
           c == <<t>>
<1>1. Len(l) \in Nat /\ \A k \in 1 .. Len(l) : l[k] \in Timer
  BY LenProperties, ElementOfSeq
<1>2. /\ a \in Seq(Timer) /\ Len(a) = i - 1 /\ \A k \in 1 .. i - 1 : a[k] = l[k]
  <2>1. /\ a \in Seq(Timer) /\ Len(a) = IF 1 <= i - 1 THEN i - 1 - 1 + 1 ELSE 0
        /\ \A k \in 1 .. i - 1 - 1 + 1 : a[k] = l[1 + k - 1]
    <3>1. 1 \in Int /\ i - 1 \in Int /\ \A k \in 1 .. i - 1 : l[k] \in Timer
      BY <1>1
    <3> QED BY <3>1, SubSeqProperties
  <2> HIDE DEF a
  <2> QED BY <1>1, <2>1
<1>3. /\ b \in Seq(Timer) /\ Len(b) = Len(l) - i + 1
      /\ \A k \in 1 .. Len(l) - i + 1 : b[k] = l[i + k - 1]
  <2>1. /\ b \in Seq(Timer) /\ Len(b) = IF i <= Len(l) THEN Len(l) - i + 1 ELSE 0
        /\ \A k \in 1 .. Len(l) - i + 1 : b[k] = l[i + k - 1]
    <3>1. i \in Int /\ Len(l) \in Int /\ \A k \in i .. Len(l) : l[k] \in Timer
      BY <1>1
    <3> QED BY <3>1, SubSeqProperties
  <2> HIDE DEF b
  <2> QED BY <1>1, <2>1
<1>4. c \in Seq(Timer) /\ Len(c) = 1 /\ c[1] = t
  OBVIOUS
<1> HIDE DEF a, b, c
<1>5. /\ a \o c \in Seq(Timer) /\ Len(a \o c) = i
      /\ \A k \in 1 .. i : (a \o c)[k] = IF k < i THEN l[k] ELSE t
  <2>1. /\ a \o c \in Seq(Timer) /\ Len(a \o c) = Len(a) + Len(c)
        /\ \A k \in 1 .. Len(a) + Len(c) : (a \o c)[k] =
               IF k <= Len(a) THEN a[k] ELSE c[k - Len(a)]
    BY <1>2, <1>4, ConcatProperties
  <2>2. \A k \in 1 .. i : k <= i - 1 <=> k < i
    BY <1>1
  <2>3. \A k \in 1 .. i : ~(k < i) => k - (i - 1) = 1
    BY <1>1
  <2> QED BY <1>1, <1>2, <1>4, <2>1, <2>2, <2>3
<1> DEFINE d == a \o c
           m == d \o b
<1>6. d \in Seq(Timer) /\ Len(d) = i /\ \A k \in 1 .. i : d[k] = IF k < i THEN l[k] ELSE t
  BY <1>5
<1> HIDE DEF d
<1>7. /\ m \in Seq(Timer) /\ Len(m) = Len(d) + Len(b)
      /\ \A k \in 1 .. Len(d) + Len(b) : m[k] = IF k <= Len(d) THEN d[k] ELSE b[k - Len(d)]
  BY <1>3, <1>6, ConcatProperties
<1> HIDE DEF m
<1>8. ASSUME NEW k \in 1 .. Len(l) + 1
      PROVE  m[k] = IF k < i THEN l[k] ELSE IF k = i THEN t ELSE l[k - 1]
  <2>1. CASE k <= i
    BY <1>1, <1>3, <1>6, <1>7, <2>1
  <2>2. CASE ~(k <= i)
    <3>1. k - i \in 1 .. Len(l) - i + 1 /\ i + (k - i) - 1 = k - 1
      BY <1>1, <2>2
    <3> QED BY <1>1, <1>3, <1>6, <1>7, <2>2, <3>1
  <2> QED BY <2>1, <2>2
<1>9. Inserted(m, l, i, t)
  <2>1. Len(m) = Len(l) + 1
    BY <1>1, <1>3, <1>6, <1>7
  <2> QED BY <1>7, <1>8, <2>1 DEF Inserted
<1> QED BY <1>9, Zenon DEF a, b, c, d, m

(* remove_timer unlinks the timer at place i. *)
LEMMA RemoveAt ==
    ASSUME NEW l \in Seq(Timer), NEW i \in 1 .. Len(l)
    PROVE  Removed(SubSeq(l, 1, i - 1) \o SubSeq(l, i + 1, Len(l)), l, i)
<1> DEFINE a == SubSeq(l, 1, i - 1)
           b == SubSeq(l, i + 1, Len(l))
<1>1. Len(l) \in Nat /\ \A k \in 1 .. Len(l) : l[k] \in Timer
  BY LenProperties, ElementOfSeq
<1>2. /\ a \in Seq(Timer) /\ Len(a) = i - 1 /\ \A k \in 1 .. i - 1 : a[k] = l[k]
  <2>1. /\ a \in Seq(Timer) /\ Len(a) = IF 1 <= i - 1 THEN i - 1 - 1 + 1 ELSE 0
        /\ \A k \in 1 .. i - 1 - 1 + 1 : a[k] = l[1 + k - 1]
    <3>1. 1 \in Int /\ i - 1 \in Int /\ \A k \in 1 .. i - 1 : l[k] \in Timer
      BY <1>1
    <3> QED BY <3>1, SubSeqProperties
  <2> HIDE DEF a
  <2> QED BY <1>1, <2>1
<1>3. /\ b \in Seq(Timer) /\ Len(b) = Len(l) - i
      /\ \A k \in 1 .. Len(l) - i : b[k] = l[i + k]
  <2>1. /\ b \in Seq(Timer) /\ Len(b) = IF i + 1 <= Len(l) THEN Len(l) - (i + 1) + 1 ELSE 0
        /\ \A k \in 1 .. Len(l) - (i + 1) + 1 : b[k] = l[i + 1 + k - 1]
    <3>1. i + 1 \in Int /\ Len(l) \in Int /\ \A k \in i + 1 .. Len(l) : l[k] \in Timer
      BY <1>1
    <3> QED BY <3>1, SubSeqProperties
  <2> HIDE DEF b
  <2>2. \A k \in 1 .. Len(l) - i : i + 1 + k - 1 = i + k /\ k \in 1 .. Len(l) - (i + 1) + 1
    BY <1>1
  <2> QED BY <1>1, <2>1, <2>2
<1> HIDE DEF a, b
<1> DEFINE m == a \o b
<1>4. /\ m \in Seq(Timer) /\ Len(m) = Len(a) + Len(b)
      /\ \A k \in 1 .. Len(a) + Len(b) : m[k] = IF k <= Len(a) THEN a[k] ELSE b[k - Len(a)]
  BY <1>2, <1>3, ConcatProperties
<1> HIDE DEF m
<1>5. ASSUME NEW k \in 1 .. Len(l) - 1
      PROVE  m[k] = IF k < i THEN l[k] ELSE l[k + 1]
  <2>0. k \in 1 .. Len(a) + Len(b) /\ (k <= Len(a) <=> k < i)
    BY <1>1, <1>2, <1>3
  <2>1. CASE k < i
    <3>1. k \in 1 .. i - 1
      BY <1>1, <2>1
    <3> QED BY <1>2, <1>4, <2>0, <2>1, <3>1
  <2>2. CASE ~(k < i)
    <3>1. PICK j \in 1 .. Len(l) - i : k - (i - 1) = j /\ i + j = k + 1
      BY <1>1, <2>2
    <3>2. m[k] = b[j]
      BY <1>2, <1>4, <2>0, <2>2, <3>1
    <3> QED BY <1>3, <2>2, <3>1, <3>2
  <2> QED BY <2>1, <2>2
<1>6. Removed(m, l, i)
  <2>1. Len(m) = Len(l) - 1
    BY <1>1, <1>2, <1>3, <1>4
  <2> QED BY <1>4, <1>5, <2>1 DEF Removed
<1> QED BY <1>6, Zenon DEF a, b, m

(* remove_timer takes a linked timer out of the list. *)
LEMMA WithoutIs ==
    ASSUME NEW l \in Seq(Timer), Distinct(l), NEW i \in 1 .. Len(l)
    PROVE  Removed(Without(l, l[i]), l, i)
<1> DEFINE at == {k \in 1 .. Len(l) : l[k] = l[i]}
<1>1. at = {i}
  BY DEF Distinct
<1>2. at # {} /\ (CHOOSE k \in at : TRUE) = i
  BY <1>1
<1>3. Without(l, l[i]) = SubSeq(l, 1, i - 1) \o SubSeq(l, i + 1, Len(l))
  BY <1>2, Zenon DEF Without
<1> QED BY <1>3, RemoveAt

--------------------------------------------------------------------------------
(* The list with relative ticks, and the ticks each timer has left         *)

(* Induction, with a set for the property *)
LEMMA SetInduction ==
    ASSUME NEW T, 0 \in T, \A n \in Nat : n \in T => n + 1 \in T
    PROVE  Nat \subseteq T
<1> DEFINE R == OpToRel(<, Nat)
<1>1. IsWellFoundedOn(R, Nat)
  BY NatLessThanWellFounded
<1>2. \A x, y \in Nat : <<x, y>> \in R <=> x < y
  BY DEF OpToRel
<1> HIDE DEF R
<1> SUFFICES ASSUME Nat \ T # {} PROVE FALSE
  OBVIOUS
<1>3. PICK x \in Nat \ T : \A y \in Nat \ T : ~(<<y, x>> \in R)
  BY <1>1, WFMin
<1>4. x # 0 /\ x - 1 \in Nat /\ x - 1 < x
  BY <1>3
<1>5. x - 1 \in T
  BY <1>2, <1>3, <1>4
<1>6. x \in T
  BY <1>4, <1>5
<1> QED BY <1>3, <1>6

Limit == MaxTick + 1

(* The ticks left of the k-th timer of l, none before the first *)
At(l, d, k) == IF k = 0 THEN 0 ELSE d[l[k]]

(* The relative ticks r of the timers on l count them down from d. *)
Counts(l, r, d) ==
    /\ l \in Seq(Timer) /\ Distinct(l)
    /\ r \in [Timer -> Value] /\ d \in [Timer -> 0 .. Limit]
    /\ \A k \in 1 .. Len(l) : At(l, d, k) = At(l, d, k - 1) + r[l[k]]
    /\ \A t \in Timer : ~Linked(l, t) => d[t] = 0

IsBefore(f, l, r) == f = [k \in 0 .. Len(l) |-> IF k = 0 THEN 0 ELSE f[k - 1] + r[l[k]]]

(* The sum of the relative ticks is what TicksBefore says. *)
LEMMA BeforeIs ==
    ASSUME NEW l, NEW r, NEW d, Counts(l, r, d), NEW k \in 0 .. Len(l)
    PROVE  TicksBefore(l, r)[k] = At(l, d, k)
<1> DEFINE b == TicksBefore(l, r)
           c == [j \in 0 .. Len(l) |-> At(l, d, j)]
<1>1. Len(l) \in Nat
  BY LenProperties DEF Counts
<1>2. IsBefore(c, l, r)
  <2>1. \A j \in 0 .. Len(l) : At(l, d, j) = IF j = 0 THEN 0 ELSE c[j - 1] + r[l[j]]
    <3> SUFFICES ASSUME NEW j \in 0 .. Len(l), j # 0
                 PROVE  At(l, d, j) = c[j - 1] + r[l[j]]
      BY DEF At
    <3>1. j - 1 \in 0 .. Len(l) /\ j \in 1 .. Len(l)
      BY <1>1
    <3> QED BY <3>1 DEF Counts
  <2> QED BY <2>1 DEF IsBefore
<1>3. b = CHOOSE f : IsBefore(f, l, r)
  BY Zenon DEF TicksBefore, IsBefore
<1> HIDE DEF b, c
<1>4. IsBefore(b, l, r)
  BY <1>2, <1>3
<1>5. \A j \in 0 .. Len(l) : b[j] = IF j = 0 THEN 0 ELSE b[j - 1] + r[l[j]]
  BY <1>4 DEF IsBefore
<1> DEFINE T == {j \in Nat : j <= Len(l) => b[j] = At(l, d, j)}
<1>6. 0 \in T
  BY <1>1, <1>5 DEF At
<1>7. ASSUME NEW j \in Nat, j \in T PROVE j + 1 \in T
  <2> SUFFICES ASSUME j + 1 <= Len(l) PROVE b[j + 1] = At(l, d, j + 1)
    OBVIOUS
  <2>1. j + 1 \in 1 .. Len(l) /\ j + 1 # 0 /\ (j + 1) - 1 = j /\ j <= Len(l)
    BY <1>1
  <2>2. b[j + 1] = b[j] + r[l[j + 1]]
    BY <1>1, <1>5, <2>1
  <2>3. b[j] = At(l, d, j)
    BY <1>7, <2>1
  <2>4. At(l, d, j + 1) = At(l, d, j) + r[l[j + 1]]
    BY <2>1 DEF Counts
  <2> QED BY <2>2, <2>3, <2>4
<1> HIDE DEF T
<1>8. Nat \subseteq T
  BY <1>6, <1>7, SetInduction
<1> QED BY <1>1, <1>8 DEF T, b

(* The first timer is the first to expire. *)
LEMMA HeadFirst ==
    ASSUME NEW l, NEW r, NEW d, Counts(l, r, d), l # << >>
    PROVE  /\ Len(l) \in Nat \ {0} /\ Head(l) = l[1] /\ l[1] \in Timer
           /\ d[l[1]] = r[l[1]]
           /\ \A t \in Timer : Linked(l, t) => d[l[1]] <= d[t]
<1>1. l \in Seq(Timer) /\ Len(l) \in Nat \ {0} /\ \A k \in 1 .. Len(l) : l[k] \in Timer
  BY EmptySeq, ElementOfSeq DEF Counts
<1>2. Head(l) = l[1]
  BY <1>1
<1>3. d[l[1]] = r[l[1]]
  <2>1. 1 \in 1 .. Len(l) /\ 1 - 1 = 0
    BY <1>1
  <2>2. At(l, d, 1) = At(l, d, 0) + r[l[1]]
    BY <2>1 DEF Counts
  <2>3. r[l[1]] \in Int
    BY <1>1, <2>1 DEF Counts, Value
  <2> QED BY <2>2, <2>3 DEF At
<1> DEFINE T == {j \in Nat : j + 1 <= Len(l) => d[l[1]] <= d[l[j + 1]]}
<1>4. 0 \in T
  BY <1>1 DEF Counts
<1>5. ASSUME NEW j \in Nat, j \in T PROVE j + 1 \in T
  <2> SUFFICES ASSUME j + 2 <= Len(l) PROVE d[l[1]] <= d[l[j + 2]]
    OBVIOUS
  <2>1. /\ j + 2 \in 1 .. Len(l) /\ j + 1 \in 1 .. Len(l) /\ (j + 2) - 1 = j + 1
        /\ j + 2 # 0 /\ j + 1 # 0 /\ j + 1 <= Len(l) /\ 1 \in 1 .. Len(l)
    BY <1>1
  <2>2. At(l, d, j + 2) = At(l, d, j + 1) + r[l[j + 2]]
    BY <2>1 DEF Counts
  <2>3. /\ d[l[j + 2]] \in Nat /\ d[l[j + 1]] \in Nat /\ r[l[j + 2]] \in Nat
        /\ d[l[1]] \in Nat
    BY <1>1, <2>1 DEF Counts, Value, Limit
  <2>4. d[l[j + 2]] = d[l[j + 1]] + r[l[j + 2]]
    BY <2>1, <2>2 DEF At
  <2>5. d[l[1]] <= d[l[j + 1]]
    BY <1>5, <2>1
  <2> QED BY <2>3, <2>4, <2>5
<1> HIDE DEF T
<1>6. Nat \subseteq T
  BY <1>4, <1>5, SetInduction
<1>7. ASSUME NEW t \in Timer, Linked(l, t) PROVE d[l[1]] <= d[t]
  <2>1. PICK k \in 1 .. Len(l) : l[k] = t
    BY <1>7 DEF Linked
  <2>2. k - 1 \in T /\ k - 1 + 1 = k /\ k <= Len(l)
    BY <1>1, <1>6
  <2> QED BY <2>1, <2>2 DEF T
<1> QED BY <1>1, <1>2, <1>3, <1>7

(* A word holds the ticks of every timer: ntimer_start is never asked for  *)
(* UINT32_MAX ticks, of which it would make none.                          *)
TicksFit == Limit < WordSize

RemainingOf(l, r, t) ==
    IF Linked(l, t) THEN TicksBefore(l, r)[CHOOSE i \in 1 .. Len(l) : l[i] = t] % WordSize ELSE 0
LeftOf(l, r) == [t \in Timer |-> RemainingOf(l, r, t)]

(* ntimer_remaining gives the ticks left. *)
LEMMA LeftIs ==
    ASSUME TicksFit, NEW l, NEW r, NEW d, Counts(l, r, d)
    PROVE  LeftOf(l, r) = d
<1> SUFFICES ASSUME NEW t \in Timer PROVE RemainingOf(l, r, t) = d[t]
  BY DEF LeftOf, Counts
<1>2. CASE ~Linked(l, t)
  BY <1>2 DEF RemainingOf, Counts
<1>3. CASE Linked(l, t)
  <2> DEFINE i == CHOOSE k \in 1 .. Len(l) : l[k] = t
  <2>1. i \in 1 .. Len(l) /\ l[i] = t
    BY <1>3 DEF Linked
  <2>2. RemainingOf(l, r, t) = TicksBefore(l, r)[i] % WordSize
    BY <1>3 DEF RemainingOf
  <2> HIDE DEF i
  <2>3. Len(l) \in Nat
    BY LenProperties DEF Counts
  <2>4. TicksBefore(l, r)[i] = d[t]
    <3>1. i \in 0 .. Len(l) /\ i # 0
      BY <2>1, <2>3
    <3>2. TicksBefore(l, r)[i] = At(l, d, i)
      BY <3>1, BeforeIs
    <3> QED BY <2>1, <3>1, <3>2 DEF At
  <2>5. d[t] \in 0 .. Limit
    BY DEF Counts
  <2>6. d[t] % WordSize = d[t]
    <3>1. \A x \in 0 .. Limit : x % WordSize = x
      BY TimerAssumption DEF TicksFit, Limit
    <3> QED BY <2>5, <3>1
  <2> QED BY <2>2, <2>4, <2>6
<1> QED BY <1>2, <1>3

(* The ticks of a timer that is not linked do not count. *)
LEMMA OffListCounts ==
    ASSUME NEW l, NEW r, NEW d, Counts(l, r, d), NEW t \in Timer, ~Linked(l, t), NEW n \in Value
    PROVE  Counts(l, [r EXCEPT ![t] = n], d) /\ [r EXCEPT ![t] = n][t] = n
<1> DEFINE q == [r EXCEPT ![t] = n]
<1>1. q \in [Timer -> Value] /\ q[t] = n
  BY DEF Counts
<1>2. \A k \in 1 .. Len(l) : l[k] \in Timer /\ q[l[k]] = r[l[k]]
  BY ElementOfSeq DEF Counts, Linked
<1> HIDE DEF q
<1>3. Counts(l, q, d)
  BY <1>1, <1>2 DEF Counts
<1> QED BY <1>1, <1>3 DEF q

(* Who is on a list with t put in, and that it is there once *)
LEMMA InsertedLinks ==
    ASSUME NEW l \in Seq(Timer), NEW m, NEW i \in 1 .. Len(l) + 1, NEW t \in Timer,
           Inserted(m, l, i, t), Distinct(l), ~Linked(l, t)
    PROVE  Distinct(m) /\ \A u : Linked(m, u) <=> Linked(l, u) \/ u = t
<1>1. Len(l) \in Nat /\ Len(m) = Len(l) + 1
  BY LenProperties DEF Inserted
<1>2. \A k \in 1 .. Len(m) : /\ k < i => k \in 1 .. Len(l) /\ m[k] = l[k]
                             /\ k = i => m[k] = t
                             /\ k > i => k - 1 \in 1 .. Len(l) /\ m[k] = l[k - 1]
  BY <1>1 DEF Inserted
<1>3. ASSUME NEW u, Linked(m, u) PROVE Linked(l, u) \/ u = t
  <2>1. PICK k \in 1 .. Len(m) : m[k] = u
    BY <1>3 DEF Linked
  <2>2. k < i \/ k = i \/ k > i
    BY <1>1, <2>1
  <2> QED BY <1>2, <2>1, <2>2 DEF Linked
<1>4. ASSUME NEW u, Linked(l, u) \/ u = t PROVE Linked(m, u)
  <2>1. CASE u = t
    <3>1. i \in 1 .. Len(m) /\ m[i] = t
      BY <1>1, <1>2
    <3> QED BY <2>1, <3>1 DEF Linked
  <2>2. CASE Linked(l, u)
    <3>1. PICK k \in 1 .. Len(l) : l[k] = u
      BY <2>2 DEF Linked
    <3>2. CASE k < i
      <4>1. k \in 1 .. Len(m)
        BY <1>1
      <4> QED BY <1>2, <3>1, <3>2, <4>1 DEF Linked
    <3>3. CASE ~(k < i)
      <4>1. k + 1 \in 1 .. Len(m) /\ k + 1 > i /\ (k + 1) - 1 = k
        BY <1>1, <3>3
      <4>2. m[k + 1] = u
        BY <1>2, <3>1, <4>1
      <4> QED BY <4>1, <4>2 DEF Linked
    <3> QED BY <3>2, <3>3
  <2> QED BY <1>4, <2>1, <2>2
<1>5. Distinct(m)
  <2> SUFFICES ASSUME NEW j \in 1 .. Len(m), NEW k \in 1 .. Len(m), m[j] = m[k], j < k
               PROVE  FALSE
    <3>1. \A j, k \in 1 .. Len(m) : j < k \/ j = k \/ k < j
      BY <1>1
    <3> QED BY <3>1 DEF Distinct
  <2>1. \A x \in 1 .. Len(l) : l[x] # t
    BY DEF Linked
  <2>2. \A x, y \in 1 .. Len(l) : l[x] = l[y] => x = y
    BY DEF Distinct
  <2>3. CASE k < i
    BY <1>1, <1>2, <2>2, <2>3
  <2>4. CASE k = i
    BY <1>1, <1>2, <2>1, <2>4
  <2>5. CASE k > i
    <3>1. k - 1 \in 1 .. Len(l) /\ m[k] = l[k - 1]
      BY <1>2, <2>5
    <3>2. CASE j < i
      <4>1. j \in 1 .. Len(l) /\ m[j] = l[j]
        BY <1>2, <3>2
      <4>2. j = k - 1
        BY <2>2, <3>1, <4>1
      <4> QED BY <2>5, <3>2, <4>2
    <3>3. CASE j = i
      BY <1>2, <2>1, <3>1, <3>3
    <3>4. CASE j > i
      <4>1. j - 1 \in 1 .. Len(l) /\ m[j] = l[j - 1]
        BY <1>2, <3>4
      <4>2. j - 1 = k - 1
        BY <2>2, <3>1, <4>1
      <4> QED BY <4>2
    <3> QED BY <1>1, <3>2, <3>3, <3>4
  <2> QED BY <1>1, <2>3, <2>4, <2>5
<1> QED BY <1>3, <1>4, <1>5

(* insert_timer stops at the first timer that does not expire earlier. *)
LEMMA StopExists ==
    ASSUME NEW l, NEW r, NEW d, Counts(l, r, d), NEW n \in Nat
    PROVE  \E k \in 1 .. Len(l) + 1 :
               /\ k = Len(l) + 1 \/ d[l[k]] >= n
               /\ \A j \in 1 .. k - 1 : d[l[j]] < n
<1> DEFINE S == {k \in 1 .. Len(l) + 1 : k = Len(l) + 1 \/ d[l[k]] >= n}
           R == OpToRel(<, Nat)
<1>1. Len(l) \in Nat /\ \A k \in 1 .. Len(l) : d[l[k]] \in Int
  <2>1. l \in Seq(Timer) /\ d \in [Timer -> 0 .. Limit]
    BY DEF Counts
  <2> QED BY <2>1, LenProperties, ElementOfSeq
<1>2. S \subseteq Nat /\ Len(l) + 1 \in S
  BY <1>1
<1>3. IsWellFoundedOn(R, Nat) /\ \A x, y \in Nat : <<x, y>> \in R <=> x < y
  BY NatLessThanWellFounded DEF OpToRel
<1> HIDE DEF R
<1>4. PICK k \in S : \A j \in S : ~(<<j, k>> \in R)
  <2> HIDE DEF S
  <2>1. S # {}
    BY <1>2
  <2>2. S \subseteq Nat /\ IsWellFoundedOn(R, Nat)
    BY <1>2, <1>3
  <2> QED BY ONLY <2>1, <2>2, WFMin
<1>5. \A j \in S : ~(j < k)
  BY <1>2, <1>3, <1>4
<1>6. \A j \in 1 .. k - 1 : d[l[j]] < n
  <2> SUFFICES ASSUME NEW j \in 1 .. k - 1, ~(d[l[j]] < n) PROVE FALSE
    OBVIOUS
  <2>1. j \in 1 .. Len(l) /\ j < k /\ j \in 1 .. Len(l) + 1
    BY <1>1
  <2>2. d[l[j]] >= n
    BY <1>1, <2>1
  <2> QED BY <1>5, <2>1, <2>2
<1> QED BY <1>4, <1>6

(* new is l with t put in as number i, in the terms of the ticks left *)
InsertsAs(new, l, q, d, t, i) ==
    /\ i = Len(l) + 1 \/ d[l[i]] >= q[t]
    /\ \A j \in 1 .. i - 1 : d[l[j]] < q[t]
    /\ new.list = SubSeq(l, 1, i - 1) \o <<t>> \o SubSeq(l, i, Len(l))
    /\ new.rtick = [u \in Timer |->
                      IF u = t THEN q[t] - At(l, d, i - 1)
                      ELSE IF i <= Len(l) /\ u = l[i] THEN q[u] - (q[t] - At(l, d, i - 1)) ELSE q[u]]

(* insert_timer, with its tests on sums turned into tests on ticks left *)
LEMMA InsertIs ==
    ASSUME NEW l, NEW q, NEW d, Counts(l, q, d), NEW t \in Timer, q[t] \in Nat
    PROVE  \E i \in 1 .. Len(l) + 1 : InsertsAs(InsertTimer(l, q, t), l, q, d, t, i)
<1> DEFINE before == TicksBefore(l, q)
           P(k) == /\ k = Len(l) + 1 \/ q[l[k]] >= q[t] - before[k - 1]
                   /\ \A j \in 1 .. k - 1 : q[l[j]] < q[t] - before[j - 1]
           i == CHOOSE k \in 1 .. Len(l) + 1 : P(k)
<1>1. /\ Len(l) \in Nat /\ q[t] \in Nat
      /\ \A k \in 1 .. Len(l) : d[l[k]] \in Nat /\ q[l[k]] \in Nat
      /\ \A k \in 1 .. Len(l) : At(l, d, k) = d[l[k]] /\ At(l, d, k) = At(l, d, k - 1) + q[l[k]]
      /\ \A k \in 0 .. Len(l) : At(l, d, k) \in Nat
  <2>1. l \in Seq(Timer) /\ d \in [Timer -> 0 .. Limit] /\ q \in [Timer -> Value]
    BY DEF Counts
  <2>2. Len(l) \in Nat /\ \A k \in 1 .. Len(l) : l[k] \in Timer
    BY <2>1, LenProperties, ElementOfSeq
  <2>3. \A k \in 1 .. Len(l) : d[l[k]] \in Nat /\ q[l[k]] \in Nat
    BY <2>1, <2>2 DEF Value
  <2>4. \A k \in 1 .. Len(l) : k # 0
    OBVIOUS
  <2>5. \A k \in 0 .. Len(l) : k = 0 \/ k \in 1 .. Len(l)
    BY <2>2
  <2> QED BY <2>2, <2>3, <2>4, <2>5 DEF At, Counts
<1>2. \A k \in 0 .. Len(l) : before[k] = At(l, d, k)
  BY BeforeIs
<1> HIDE DEF before
<1>3. ASSUME NEW k \in 1 .. Len(l) PROVE q[l[k]] < q[t] - before[k - 1] <=> d[l[k]] < q[t]
  <2>1. k - 1 \in 0 .. Len(l)
    BY <1>1
  <2>2. d[l[k]] = At(l, d, k - 1) + q[l[k]] /\ At(l, d, k - 1) \in Nat
    BY <1>1, <2>1
  <2> QED BY <1>1, <1>2, <2>1, <2>2
<1>4. ASSUME NEW k \in 1 .. Len(l) PROVE q[l[k]] >= q[t] - before[k - 1] <=> d[l[k]] >= q[t]
  <2>1. k - 1 \in 0 .. Len(l)
    BY <1>1
  <2>2. d[l[k]] = At(l, d, k - 1) + q[l[k]] /\ At(l, d, k - 1) \in Nat
    BY <1>1, <2>1
  <2> QED BY <1>1, <1>2, <2>1, <2>2
<1>5. ASSUME NEW k \in 1 .. Len(l) + 1
      PROVE  P(k) <=> /\ k = Len(l) + 1 \/ d[l[k]] >= q[t]
                      /\ \A j \in 1 .. k - 1 : d[l[j]] < q[t]
  <2>1. k = Len(l) + 1 \/ k \in 1 .. Len(l)
    BY <1>1
  <2>2. \A j \in 1 .. k - 1 : j \in 1 .. Len(l)
    BY <1>1
  <2> QED BY <1>3, <1>4, <2>1, <2>2
<1>6. \E k \in 1 .. Len(l) + 1 : P(k)
  <2>1. PICK k \in 1 .. Len(l) + 1 : /\ k = Len(l) + 1 \/ d[l[k]] >= q[t]
                                     /\ \A j \in 1 .. k - 1 : d[l[j]] < q[t]
    BY StopExists
  <2> HIDE DEF P
  <2> QED BY <1>5, <2>1
<1>7. i \in 1 .. Len(l) + 1 /\ P(i)
  <2> HIDE DEF P
  <2> QED BY <1>6
<1>8. InsertTimer(l, q, t) =
        [list |-> SubSeq(l, 1, i - 1) \o <<t>> \o SubSeq(l, i, Len(l)),
         rtick |-> [u \in Timer |->
                      IF u = t THEN q[t] - before[i - 1]
                      ELSE IF i <= Len(l) /\ u = l[i] THEN q[u] - (q[t] - before[i - 1]) ELSE q[u]]]
  BY Zenon DEF InsertTimer, before
<1> HIDE DEF i, P
<1>9. before[i - 1] = At(l, d, i - 1)
  <2>1. i - 1 \in 0 .. Len(l)
    BY <1>1, <1>7
  <2> QED BY <1>2, <2>1
<1>10. /\ i = Len(l) + 1 \/ d[l[i]] >= q[t]
       /\ \A j \in 1 .. i - 1 : d[l[j]] < q[t]
  BY <1>5, <1>7
<1> DEFINE new == InsertTimer(l, q, t)
           a == SubSeq(l, 1, i - 1) \o <<t>> \o SubSeq(l, i, Len(l))
           b == [u \in Timer |->
                    IF u = t THEN q[t] - At(l, d, i - 1)
                    ELSE IF i <= Len(l) /\ u = l[i] THEN q[u] - (q[t] - At(l, d, i - 1)) ELSE q[u]]
<1>11. new = [list |-> a, rtick |-> b]
  BY <1>8, <1>9, Zenon
<1> HIDE DEF new, a, b
<1>12. new.list = a /\ new.rtick = b
  BY <1>11
<1>13. InsertsAs(new, l, q, d, t, i)
  BY <1>10, <1>12, Zenon DEF InsertsAs, a, b
<1> QED BY <1>7, <1>13, Zenon DEF new

(* insert_timer: the timer put in has the ticks it was given, and no other *)
(* timer's change.                                                         *)
LEMMA InsertCounts ==
    ASSUME NEW l, NEW q, NEW d, Counts(l, q, d), NEW t \in Timer, ~Linked(l, t), q[t] \in 0 .. Limit
    PROVE  /\ Counts(InsertTimer(l, q, t).list, InsertTimer(l, q, t).rtick, [d EXCEPT ![t] = q[t]])
           /\ \A u : Linked(InsertTimer(l, q, t).list, u) <=> Linked(l, u) \/ u = t
<1> DEFINE n == q[t]
           m == InsertTimer(l, q, t).list
           r == InsertTimer(l, q, t).rtick
           e == [d EXCEPT ![t] = n]
<1>1. /\ l \in Seq(Timer) /\ Distinct(l) /\ d \in [Timer -> 0 .. Limit] /\ q \in [Timer -> Value]
      /\ Len(l) \in Nat /\ n \in 0 .. Limit /\ n \in Nat
      /\ \A k \in 1 .. Len(l) : l[k] \in Timer /\ l[k] # t
      /\ \A k \in 1 .. Len(l) : At(l, d, k) = At(l, d, k - 1) + q[l[k]]
  BY LenProperties, ElementOfSeq DEF Counts, Linked
<1>i. PICK i \in 1 .. Len(l) + 1 : InsertsAs(InsertTimer(l, q, t), l, q, d, t, i)
  <2>1. q[t] \in Nat
    BY <1>1
  <2> QED BY <2>1, InsertIs
<1>2. /\ i = Len(l) + 1 \/ d[l[i]] >= n
      /\ \A j \in 1 .. i - 1 : d[l[j]] < n
      /\ m = SubSeq(l, 1, i - 1) \o <<t>> \o SubSeq(l, i, Len(l))
      /\ r = [u \in Timer |->
                IF u = t THEN n - At(l, d, i - 1)
                ELSE IF i <= Len(l) /\ u = l[i] THEN q[u] - (n - At(l, d, i - 1)) ELSE q[u]]
  BY <1>i, Zenon DEF InsertsAs
<1> HIDE DEF m, r
<1>3. Inserted(m, l, i, t)
  BY <1>1, <1>2, InsertAt
<1>4. Distinct(m) /\ \A u : Linked(m, u) <=> Linked(l, u) \/ u = t
  BY <1>1, <1>3, InsertedLinks
<1>5. \A k \in 0 .. Len(l) : At(l, d, k) \in 0 .. Limit /\ (k # 0 => At(l, d, k) = d[l[k]])
  <2>1. 0 \in 0 .. Limit
    BY TimerAssumption DEF Limit
  <2>2. \A k \in 0 .. Len(l) : k = 0 \/ k \in 1 .. Len(l)
    BY <1>1
  <2> QED BY <1>1, <2>1, <2>2 DEF At
<1> DEFINE b == At(l, d, i - 1)
<1>6. b \in Nat /\ b <= n
  <2>1. i - 1 \in 0 .. Len(l) /\ (i - 1 = 0 \/ (i - 1 \in 1 .. i - 1 /\ i - 1 # 0))
    BY <1>1
  <2>2. CASE i - 1 = 0
    BY <1>1, <2>2 DEF At
  <2>3. CASE i - 1 \in 1 .. i - 1 /\ i - 1 # 0
    <3>1. b = d[l[i - 1]] /\ b \in 0 .. Limit
      BY <1>5, <2>1, <2>3
    <3>2. d[l[i - 1]] < n
      BY <1>2, <2>3
    <3> QED BY <1>1, <3>1, <3>2
  <2> QED BY <2>1, <2>2, <2>3
<1>7. i <= Len(l) => /\ i \in 1 .. Len(l) /\ At(l, d, i) = d[l[i]] /\ d[l[i]] \in 0 .. Limit
                     /\ At(l, d, i) = b + q[l[i]] /\ d[l[i]] >= n
  <2> SUFFICES ASSUME i <= Len(l)
               PROVE  /\ i \in 1 .. Len(l) /\ At(l, d, i) = d[l[i]] /\ d[l[i]] \in 0 .. Limit
                      /\ At(l, d, i) = b + q[l[i]] /\ d[l[i]] >= n
    OBVIOUS
  <2>1. i \in 1 .. Len(l) /\ i \in 0 .. Len(l) /\ i # 0 /\ i # Len(l) + 1
    BY <1>1
  <2> QED BY <1>1, <1>2, <1>5, <2>1
<1> HIDE DEF b, n
<1>r. /\ r[t] = n - b
      /\ \A u \in Timer : u # t /\ ~(i <= Len(l) /\ u = l[i]) => r[u] = q[u]
      /\ i <= Len(l) => r[l[i]] = q[l[i]] - (n - b)
  BY <1>1, <1>2, <1>7 DEF b
<1>8. r \in [Timer -> Value]
  <2>0. n - b >= 0 /\ n - b <= n /\ n - b \in Int /\ n \in Nat /\ n <= WordSize - 1 /\ WordSize \in Nat
    <3>1. q[t] \in Value
      BY <1>1
    <3>2. n \in Nat /\ n <= WordSize - 1 /\ WordSize \in Nat
      BY <1>1, <3>1, TimerAssumption DEF n, Value
    <3> QED BY <1>6, <3>2
  <2>1. r[t] \in Value
    <3>1. n - b \in 0 .. WordSize - 1
      BY <2>0
    <3> QED BY <1>r, <3>1 DEF Value
  <2>2. ASSUME i <= Len(l) PROVE r[l[i]] \in Value
    <3> DEFINE x == q[l[i]]
    <3>1. x \in Nat /\ x <= WordSize - 1
      BY <1>1, <1>7, <2>0, <2>2 DEF Value
    <3>2. b + x >= n
      BY <1>7, <2>2
    <3> HIDE DEF x
    <3>3. x - (n - b) \in 0 .. WordSize - 1
      BY <1>6, <2>0, <3>1, <3>2
    <3>4. r[l[i]] = x - (n - b)
      BY <1>r, <2>2 DEF x
    <3> QED BY <3>3, <3>4 DEF Value
  <2>3. \A u \in Timer : r[u] \in Value
    BY <1>1, <1>r, <2>1, <2>2
  <2>4. r = [u \in Timer |-> r[u]]
    BY <1>2
  <2> QED BY <2>3, <2>4
<1>9. e \in [Timer -> 0 .. Limit] /\ e[t] = n /\ \A u \in Timer : u # t => e[u] = d[u]
  BY <1>1
<1> HIDE DEF e
<1>10. /\ m \in Seq(Timer) /\ Len(m) = Len(l) + 1
       /\ \A k \in 1 .. Len(l) + 1 : m[k] = IF k < i THEN l[k] ELSE IF k = i THEN t ELSE l[k - 1]
  BY <1>3 DEF Inserted
<1>11. \A k \in 0 .. Len(l) + 1 :
           At(m, e, k) = IF k < i THEN At(l, d, k) ELSE IF k = i THEN n ELSE At(l, d, k - 1)
  <2> SUFFICES ASSUME NEW k \in 0 .. Len(l) + 1
               PROVE  At(m, e, k) = IF k < i THEN At(l, d, k) ELSE IF k = i THEN n ELSE At(l, d, k - 1)
    OBVIOUS
  <2>1. CASE k = 0
    <3>1. k < i
      BY <2>1
    <3> QED BY <2>1, <3>1 DEF At
  <2>2. CASE k # 0 /\ k < i
    <3>1. k \in 1 .. Len(l) + 1 /\ k \in 1 .. Len(l)
      BY <1>1, <2>2
    <3>2. m[k] = l[k] /\ l[k] \in Timer /\ l[k] # t
      BY <1>1, <1>10, <2>2, <3>1
    <3>3. e[m[k]] = d[l[k]]
      BY <1>9, <3>2
    <3> QED BY <2>2, <3>3 DEF At
  <2>3. CASE k = i
    <3>1. k \in 1 .. Len(l) + 1 /\ ~(k < i) /\ k # 0
      BY <2>3
    <3> QED BY <1>9, <1>10, <2>3, <3>1 DEF At
  <2>4. CASE k > i
    <3>1. k \in 1 .. Len(l) + 1 /\ k - 1 \in 1 .. Len(l) /\ ~(k < i) /\ k # i /\ k # 0 /\ k - 1 # 0
      BY <1>1, <2>4
    <3>2. m[k] = l[k - 1] /\ l[k - 1] \in Timer /\ l[k - 1] # t
      BY <1>1, <1>10, <3>1
    <3>3. e[m[k]] = d[l[k - 1]]
      BY <1>9, <3>2
    <3> QED BY <3>1, <3>3 DEF At
  <2>5. k = 0 \/ (k # 0 /\ k < i) \/ k = i \/ k > i
    BY <1>1
  <2> QED BY <2>1, <2>2, <2>3, <2>4, <2>5
<1>12. ASSUME NEW k \in 1 .. Len(m)
       PROVE  At(m, e, k) = At(m, e, k - 1) + r[m[k]]
  <2>0. k \in 1 .. Len(l) + 1 /\ k \in 0 .. Len(l) + 1 /\ k - 1 \in 0 .. Len(l) + 1
    BY <1>1, <1>10
  <2>1. CASE k < i
    <3>1. k - 1 < i /\ k \in 1 .. Len(l) /\ m[k] = l[k]
      BY <1>1, <1>10, <2>0, <2>1
    <3>2. l[k] \in Timer /\ l[k] # t /\ ~(i <= Len(l) /\ l[k] = l[i])
      BY <1>1, <1>7, <2>1, <3>1 DEF Distinct
    <3>3. r[m[k]] = q[l[k]]
      BY <1>r, <3>1, <3>2
    <3> QED BY <1>1, <1>11, <2>0, <2>1, <3>1, <3>3
  <2>2. CASE k = i
    <3>1. k - 1 < i /\ ~(k < i) /\ m[k] = t
      BY <1>10, <2>0, <2>2
    <3>2. At(m, e, k) = n /\ At(m, e, k - 1) = b
      BY <1>11, <2>0, <2>2, <3>1 DEF b
    <3> QED BY <1>1, <1>6, <1>r, <3>1, <3>2
  <2>3. CASE k = i + 1
    <3>1. ~(k < i) /\ k # i /\ k - 1 = i /\ ~(k - 1 < i) /\ i <= Len(l) /\ m[k] = l[i]
      BY <1>1, <1>10, <2>0, <2>3
    <3>2. At(m, e, k) = At(l, d, i) /\ At(m, e, k - 1) = n
      BY <1>11, <2>0, <3>1
    <3>3. PICK x \in Nat : x = q[l[i]]
      BY <1>1, <1>7, <3>1 DEF Value
    <3>4. At(l, d, i) = b + x /\ r[m[k]] = x - (n - b)
      BY <1>7, <1>r, <3>1, <3>3
    <3>5. n \in Nat
      BY <1>1 DEF n
    <3>6. b + x = n + (x - (n - b))
      BY ONLY <1>6, <3>5, x \in Nat
    <3> QED BY <3>2, <3>4, <3>6
  <2>4. CASE k > i + 1
    <3>0. /\ ~(k < i) /\ k # i /\ ~(k - 1 < i) /\ k - 1 # i /\ k - 1 \in 1 .. Len(l)
      BY <1>1, <2>0, <2>4
    <3>1. m[k] = l[k - 1]
      BY <1>10, <2>0, <3>0
    <3>2. At(m, e, k) = At(l, d, k - 1) /\ At(m, e, k - 1) = At(l, d, (k - 1) - 1)
      BY <1>11, <2>0, <3>0
    <3>3. l[k - 1] \in Timer /\ l[k - 1] # t /\ ~(i <= Len(l) /\ l[k - 1] = l[i])
      BY <1>1, <1>7, <3>0 DEF Distinct
    <3>4. r[m[k]] = q[l[k - 1]]
      BY <1>r, <3>1, <3>3
    <3>5. At(l, d, k - 1) = At(l, d, (k - 1) - 1) + q[l[k - 1]]
      BY <1>1, <3>0
    <3> QED BY <3>2, <3>4, <3>5
  <2>5. k < i \/ k = i \/ k = i + 1 \/ k > i + 1
    BY <1>1, <2>0
  <2> QED BY <2>1, <2>2, <2>3, <2>4, <2>5
<1>13. \A u \in Timer : ~Linked(m, u) => e[u] = 0
  BY <1>4, <1>9 DEF Counts
<1>14. Counts(m, r, e)
  BY <1>4, <1>8, <1>9, <1>10, <1>12, <1>13 DEF Counts
<1> QED BY <1>4, <1>14 DEF m, r, e, n

(* Who is on a list without its number i *)
LEMMA RemovedLinks ==
    ASSUME NEW l \in Seq(Timer), NEW m, NEW i \in 1 .. Len(l), Removed(m, l, i), Distinct(l)
    PROVE  Distinct(m) /\ \A u : Linked(m, u) <=> Linked(l, u) /\ u # l[i]
<1>1. Len(l) \in Nat /\ Len(m) = Len(l) - 1
  BY LenProperties DEF Removed
<1>2. \A k \in 1 .. Len(m) : /\ k < i => k \in 1 .. Len(l) /\ m[k] = l[k]
                             /\ ~(k < i) => k + 1 \in 1 .. Len(l) /\ m[k] = l[k + 1]
  BY <1>1 DEF Removed
<1>d. \A x, y \in 1 .. Len(l) : l[x] = l[y] => x = y
  BY DEF Distinct
<1>3. ASSUME NEW u, Linked(m, u) PROVE Linked(l, u) /\ u # l[i]
  <2>1. PICK k \in 1 .. Len(m) : m[k] = u
    BY <1>3 DEF Linked
  <2>2. CASE k < i
    <3>1. k \in 1 .. Len(l) /\ u = l[k] /\ k # i
      BY <1>2, <2>1, <2>2
    <3> QED BY <1>d, <3>1 DEF Linked
  <2>3. CASE ~(k < i)
    <3>1. k + 1 \in 1 .. Len(l) /\ u = l[k + 1] /\ k + 1 # i
      BY <1>2, <2>1, <2>3
    <3> QED BY <1>d, <3>1 DEF Linked
  <2> QED BY <2>2, <2>3
<1>4. ASSUME NEW u, Linked(l, u), u # l[i] PROVE Linked(m, u)
  <2>1. PICK k \in 1 .. Len(l) : l[k] = u
    BY <1>4 DEF Linked
  <2>2. CASE k < i
    <3>1. k \in 1 .. Len(m)
      BY <1>1, <2>2
    <3> QED BY <1>2, <2>1, <2>2, <3>1 DEF Linked
  <2>3. CASE k > i
    <3>1. k - 1 \in 1 .. Len(m) /\ ~(k - 1 < i) /\ (k - 1) + 1 = k
      BY <1>1, <2>3
    <3>2. m[k - 1] = u
      BY <1>2, <2>1, <3>1
    <3> QED BY <3>1, <3>2 DEF Linked
  <2>4. k # i
    BY <1>4, <2>1
  <2> QED BY <1>1, <2>2, <2>3, <2>4
<1>5. Distinct(m)
  <2> SUFFICES ASSUME NEW j \in 1 .. Len(m), NEW k \in 1 .. Len(m), m[j] = m[k], j < k
               PROVE  FALSE
    <3>1. \A x, y \in 1 .. Len(m) : x < y \/ x = y \/ y < x
      BY <1>1
    <3> QED BY <3>1 DEF Distinct
  <2>1. CASE k < i
    <3>1. j < i
      BY <2>1
    <3> QED BY <1>2, <1>d, <2>1, <3>1
  <2>2. CASE ~(k < i) /\ j < i
    <3>1. j = k + 1
      BY <1>2, <1>d, <2>2
    <3> QED BY <3>1
  <2>3. CASE ~(k < i) /\ ~(j < i)
    <3>1. j + 1 = k + 1
      BY <1>2, <1>d, <2>3
    <3> QED BY <3>1
  <2> QED BY <2>1, <2>2, <2>3
<1> QED BY <1>3, <1>4, <1>5

(* The ticks r, with those of timer i of l given to the next one *)
PassedOn(r, l, i) ==
    [u \in Timer |-> IF i < Len(l) /\ u = l[i + 1] THEN (r[u] + r[l[i]]) % WordSize ELSE r[u]]

(* ntimer_cancel_i: no other timer expires earlier or later. *)
LEMMA RemoveCounts ==
    ASSUME TicksFit, NEW l, NEW r, NEW d, Counts(l, r, d), NEW i \in 1 .. Len(l), NEW m, Removed(m, l, i)
    PROVE  Counts(m, PassedOn(r, l, i), [d EXCEPT ![l[i]] = 0])
<1> DEFINE t == l[i]
           q == PassedOn(r, l, i)
           e == [d EXCEPT ![t] = 0]
<1>1. /\ l \in Seq(Timer) /\ Distinct(l) /\ d \in [Timer -> 0 .. Limit] /\ r \in [Timer -> Value]
      /\ Len(l) \in Nat /\ t \in Timer
      /\ \A k \in 1 .. Len(l) : l[k] \in Timer /\ (k # i => l[k] # t) /\ r[l[k]] \in Nat
      /\ \A k \in 1 .. Len(l) : At(l, d, k) = At(l, d, k - 1) + r[l[k]]
  <2>1. l \in Seq(Timer) /\ Distinct(l) /\ d \in [Timer -> 0 .. Limit] /\ r \in [Timer -> Value]
    BY DEF Counts
  <2>2. Len(l) \in Nat /\ \A k \in 1 .. Len(l) : l[k] \in Timer
    BY <2>1, LenProperties, ElementOfSeq
  <2> QED BY <2>1, <2>2 DEF Counts, Distinct, Value
<1>2. m \in Seq(Timer) /\ Len(m) = Len(l) - 1
      /\ \A k \in 1 .. Len(l) - 1 : m[k] = IF k < i THEN l[k] ELSE l[k + 1]
  BY DEF Removed
<1>3. Distinct(m) /\ \A u : Linked(m, u) <=> Linked(l, u) /\ u # t
  BY <1>1, RemovedLinks
<1>4. \A k \in 0 .. Len(l) : At(l, d, k) \in 0 .. Limit
  <2>1. 0 \in 0 .. Limit
    BY TimerAssumption DEF Limit
  <2>2. \A k \in 0 .. Len(l) : k = 0 \/ k \in 1 .. Len(l)
    BY <1>1
  <2> QED BY <1>1, <2>1, <2>2 DEF At
<1>5. e \in [Timer -> 0 .. Limit] /\ e[t] = 0 /\ \A u \in Timer : u # t => e[u] = d[u]
  <2>1. 0 \in 0 .. Limit
    BY TimerAssumption DEF Limit
  <2> QED BY <1>1, <2>1
<1> HIDE DEF t, e
<1>w. WordSize \in Nat /\ Limit \in Nat /\ Limit < WordSize
  BY TimerAssumption DEF TicksFit, Limit
<1>6. ASSUME i < Len(l)
      PROVE  /\ i + 1 \in 1 .. Len(l) /\ q[l[i + 1]] = r[l[i + 1]] + r[t]
             /\ q[l[i + 1]] \in Value /\ At(l, d, i + 1) = At(l, d, i - 1) + q[l[i + 1]]
  <2>1. i + 1 \in 1 .. Len(l) /\ i + 1 \in 0 .. Len(l) /\ i - 1 \in 0 .. Len(l) /\ (i + 1) - 1 = i
    BY <1>1, <1>6
  <2>2. PICK x \in Nat : x = r[l[i + 1]]
    BY <1>1, <2>1
  <2>3. PICK y \in Nat : y = r[t]
    BY <1>1 DEF t
  <2>4. At(l, d, i + 1) = At(l, d, i) + x /\ At(l, d, i) = At(l, d, i - 1) + y
    BY <1>1, <2>1, <2>2, <2>3 DEF t
  <2>5. PICK a \in 0 .. Limit : a = At(l, d, i - 1)
    BY <1>4, <2>1
  <2>6. PICK b \in 0 .. Limit : b = At(l, d, i + 1)
    BY <1>4, <2>1
  <2>7. b = a + y + x
    BY <2>4, <2>5, <2>6
  <2>8. x + y < WordSize /\ x + y \in Nat
    BY <1>w, <2>7
  <2>9. (x + y) % WordSize = x + y
    BY <1>w, <2>8
  <2>10. q[l[i + 1]] = (x + y) % WordSize
    BY <1>1, <1>6, <2>1, <2>2, <2>3 DEF PassedOn, t
  <2>11. x + y \in Value
    BY <1>w, <2>8 DEF Value
  <2>12. b = a + (x + y)
    BY <2>7
  <2> QED BY <2>1, <2>2, <2>3, <2>5, <2>6, <2>9, <2>10, <2>11, <2>12
<1>7. \A u \in Timer : ~(i < Len(l) /\ u = l[i + 1]) => q[u] = r[u]
  BY DEF PassedOn
<1>8. q \in [Timer -> Value]
  <2>1. \A u \in Timer : q[u] \in Value
    BY <1>1, <1>6, <1>7
  <2>2. q = [u \in Timer |-> q[u]]
    BY DEF PassedOn
  <2> HIDE DEF q
  <2> QED BY <2>1, <2>2
<1> HIDE DEF q
<1>9. \A k \in 0 .. Len(l) - 1 : At(m, e, k) = IF k < i THEN At(l, d, k) ELSE At(l, d, k + 1)
  <2> SUFFICES ASSUME NEW k \in 0 .. Len(l) - 1
               PROVE  At(m, e, k) = IF k < i THEN At(l, d, k) ELSE At(l, d, k + 1)
    OBVIOUS
  <2>1. CASE k = 0
    <3>1. k < i
      BY <2>1
    <3> QED BY <2>1, <3>1 DEF At
  <2>2. CASE k # 0 /\ k < i
    <3>1. k \in 1 .. Len(l) - 1 /\ k \in 1 .. Len(l) /\ k # i
      BY <1>1, <2>2
    <3>2. m[k] = l[k] /\ l[k] \in Timer /\ l[k] # t
      BY <1>1, <1>2, <2>2, <3>1
    <3> QED BY <1>5, <2>2, <3>2 DEF At
  <2>3. CASE ~(k < i)
    <3>1. k \in 1 .. Len(l) - 1 /\ k + 1 \in 1 .. Len(l) /\ k + 1 # i /\ k # 0 /\ k + 1 # 0
      BY <1>1, <2>3
    <3>2. m[k] = l[k + 1] /\ l[k + 1] \in Timer /\ l[k + 1] # t
      BY <1>1, <1>2, <2>3, <3>1
    <3> QED BY <1>5, <2>3, <3>1, <3>2 DEF At
  <2> QED BY <2>1, <2>2, <2>3
<1>10. ASSUME NEW k \in 1 .. Len(m)
       PROVE  At(m, e, k) = At(m, e, k - 1) + q[m[k]]
  <2>0. k \in 1 .. Len(l) - 1 /\ k \in 0 .. Len(l) - 1 /\ k - 1 \in 0 .. Len(l) - 1 /\ (k - 1) + 1 = k
    BY <1>1, <1>2
  <2>1. CASE k < i
    <3>0. k - 1 < i /\ k \in 1 .. Len(l) /\ k # i + 1 /\ k # i
      BY <1>1, <2>0, <2>1
    <3>1. m[k] = l[k]
      BY <1>2, <2>0, <2>1
    <3>2. l[k] \in Timer /\ ~(i < Len(l) /\ l[k] = l[i + 1])
      BY <1>1, <1>6, <3>0 DEF Distinct
    <3>3. q[m[k]] = r[l[k]]
      BY <1>7, <3>1, <3>2
    <3> QED BY <1>1, <1>9, <2>0, <2>1, <3>0, <3>3
  <2>2. CASE k = i
    <3>0. k - 1 < i /\ ~(k < i) /\ i < Len(l)
      BY <1>1, <2>0, <2>2
    <3>1. m[k] = l[i + 1]
      BY <1>2, <2>0, <2>2, <3>0
    <3>2. At(m, e, k) = At(l, d, i + 1) /\ At(m, e, k - 1) = At(l, d, i - 1)
      BY <1>9, <2>0, <2>2, <3>0
    <3> QED BY <1>6, <3>0, <3>1, <3>2
  <2>3. CASE k > i
    <3>0. ~(k < i) /\ ~(k - 1 < i) /\ k + 1 \in 1 .. Len(l) /\ k + 1 # i + 1 /\ (k + 1) - 1 = k
      BY <1>1, <2>0, <2>3
    <3>1. m[k] = l[k + 1]
      BY <1>2, <2>0, <3>0
    <3>2. At(m, e, k) = At(l, d, k + 1) /\ At(m, e, k - 1) = At(l, d, k)
      BY <1>9, <2>0, <3>0
    <3>3. l[k + 1] \in Timer /\ ~(i < Len(l) /\ l[k + 1] = l[i + 1])
      BY <1>1, <1>6, <3>0 DEF Distinct
    <3>4. q[m[k]] = r[l[k + 1]]
      BY <1>7, <3>1, <3>3
    <3>5. At(l, d, k + 1) = At(l, d, (k + 1) - 1) + r[l[k + 1]]
      BY <1>1, <3>0
    <3> QED BY <3>0, <3>2, <3>4, <3>5
  <2> QED BY <1>1, <2>0, <2>1, <2>2, <2>3
<1>11. \A u \in Timer : ~Linked(m, u) => e[u] = 0
  BY <1>3, <1>5 DEF Counts
<1>12. Counts(m, q, e)
  BY <1>2, <1>3, <1>5, <1>8, <1>10, <1>11 DEF Counts
<1> QED BY <1>12 DEF q, e, t

(* remove_timer of the timer at the head, which has no ticks to pass on *)
LEMMA ExpireCounts ==
    ASSUME TicksFit, NEW l, NEW r, NEW d, Counts(l, r, d), l # << >>, r[l[1]] = 0
    PROVE  /\ Counts(Without(l, l[1]), r, d) /\ d[l[1]] = 0 /\ l[1] \in Timer
           /\ \A u : Linked(Without(l, l[1]), u) <=> Linked(l, u) /\ u # l[1]
<1> DEFINE m == Without(l, l[1])
<1>1. /\ Len(l) \in Nat \ {0} /\ l[1] \in Timer /\ d[l[1]] = 0 /\ 1 \in 1 .. Len(l)
      /\ l \in Seq(Timer) /\ Distinct(l) /\ r \in [Timer -> Value] /\ d \in [Timer -> 0 .. Limit]
  BY HeadFirst DEF Counts
<1>2. Removed(m, l, 1)
  BY <1>1, WithoutIs
<1> HIDE DEF m
<1>3. Counts(m, PassedOn(r, l, 1), [d EXCEPT ![l[1]] = 0])
  BY <1>1, <1>2, RemoveCounts
<1>4. [d EXCEPT ![l[1]] = 0] = d
  BY <1>1
<1>5. PassedOn(r, l, 1) = r
  <2>1. \A u \in Timer : (r[u] + 0) % WordSize = r[u]
    <3>1. \A x \in 0 .. WordSize - 1 : (x + 0) % WordSize = x
      BY TimerAssumption
    <3> QED BY <1>1, <3>1 DEF Value
  <2>2. \A u \in Timer : PassedOn(r, l, 1)[u] = r[u]
    BY <2>1 DEF PassedOn
  <2>3. PassedOn(r, l, 1) = [u \in Timer |-> PassedOn(r, l, 1)[u]]
    BY DEF PassedOn
  <2> QED BY <1>1, <2>2, <2>3
<1>6. \A u : Linked(m, u) <=> Linked(l, u) /\ u # l[1]
  BY <1>1, <1>2, RemovedLinks
<1> QED BY <1>1, <1>3, <1>4, <1>5, <1>6 DEF m

(* A tick of the core timer takes one from every timer. *)
LEMMA TickCounts ==
    ASSUME NEW l, NEW r, NEW d, Counts(l, r, d), l # << >>,
           \A t \in Timer : Linked(l, t) => d[t] > 0
    PROVE  /\ Counts(l, [r EXCEPT ![l[1]] = (@ - 1) % WordSize],
                     [t \in Timer |-> IF Linked(l, t) THEN d[t] - 1 ELSE 0])
           /\ l[1] \in Timer /\ Linked(l, l[1])
<1> DEFINE q == [r EXCEPT ![l[1]] = (@ - 1) % WordSize]
           e == [t \in Timer |-> IF Linked(l, t) THEN d[t] - 1 ELSE 0]
<1>1. /\ Len(l) \in Nat \ {0} /\ l[1] \in Timer /\ d[l[1]] = r[l[1]] /\ 1 \in 1 .. Len(l)
      /\ l \in Seq(Timer) /\ Distinct(l) /\ r \in [Timer -> Value] /\ d \in [Timer -> 0 .. Limit]
      /\ \A k \in 1 .. Len(l) : l[k] \in Timer /\ Linked(l, l[k]) /\ At(l, d, k) = d[l[k]]
      /\ \A k \in 1 .. Len(l) : At(l, d, k) = At(l, d, k - 1) + r[l[k]]
  <2>1. Len(l) \in Nat \ {0} /\ l[1] \in Timer /\ d[l[1]] = r[l[1]] /\ 1 \in 1 .. Len(l)
    BY HeadFirst
  <2>2. l \in Seq(Timer) /\ Distinct(l) /\ r \in [Timer -> Value] /\ d \in [Timer -> 0 .. Limit]
    BY DEF Counts
  <2>3. \A k \in 1 .. Len(l) : k # 0 /\ l[k] \in Timer /\ Linked(l, l[k])
    BY <2>2, ElementOfSeq DEF Linked
  <2>4. \A k \in 1 .. Len(l) : At(l, d, k) = d[l[k]]
    BY <2>3 DEF At
  <2> QED BY <2>1, <2>2, <2>3, <2>4 DEF Counts
<1>w. WordSize \in Nat /\ Limit \in Nat
  BY TimerAssumption DEF Limit
<1>2. r[l[1]] \in 1 .. WordSize - 1
  BY <1>1, <1>w DEF Value
<1>3. q = [r EXCEPT ![l[1]] = r[l[1]] - 1]
  <2>1. \A x \in 1 .. WordSize - 1 : (x - 1) % WordSize = x - 1
    BY <1>w
  <2> QED BY <1>2, <2>1
<1>4. q \in [Timer -> Value] /\ q[l[1]] = r[l[1]] - 1 /\ \A u \in Timer : u # l[1] => q[u] = r[u]
  <2>1. r[l[1]] - 1 \in Value
    BY <1>2, <1>w DEF Value
  <2> QED BY <1>1, <1>3, <2>1
<1>5. e \in [Timer -> 0 .. Limit]
  <2>1. \A x \in 0 .. Limit : x > 0 => x - 1 \in 0 .. Limit
    BY <1>w
  <2>2. 0 \in 0 .. Limit
    BY <1>w
  <2> QED BY <1>1, <2>1, <2>2
<1>6. \A t \in Timer : e[t] = IF Linked(l, t) THEN d[t] - 1 ELSE 0
  OBVIOUS
<1> HIDE DEF q, e
<1>7. ASSUME NEW k \in 1 .. Len(l) PROVE At(l, e, k) = At(l, e, k - 1) + q[l[k]]
  <2>1. At(l, e, k) = d[l[k]] - 1 /\ At(l, d, k) = d[l[k]] /\ d[l[k]] \in Nat
    BY <1>1, <1>6 DEF At
  <2>2. CASE k = 1
    BY <1>1, <1>2, <1>4, <2>1, <2>2 DEF At
  <2>3. CASE k # 1
    <3>1. k - 1 \in 1 .. Len(l)
      BY <1>1, <2>3
    <3>2. At(l, e, k - 1) = d[l[k - 1]] - 1 /\ At(l, d, k - 1) = d[l[k - 1]] /\ d[l[k - 1]] \in Nat
      BY <1>1, <1>6, <3>1 DEF At
    <3>3. q[l[k]] = r[l[k]] /\ r[l[k]] \in Nat
      <4>1. l[k] # l[1] /\ l[k] \in Timer
        BY <1>1, <2>3 DEF Distinct
      <4>2. q[l[k]] = r[l[k]]
        BY <1>4, <4>1
      <4>3. r[l[k]] \in Nat
        BY <1>1, <4>1, <1>w DEF Value
      <4> QED BY <4>2, <4>3
    <3>4. At(l, d, k) = At(l, d, k - 1) + r[l[k]]
      BY <1>1
    <3> QED BY <2>1, <3>2, <3>3, <3>4
  <2> QED BY <2>2, <2>3
<1>8. Counts(l, q, e)
  BY <1>1, <1>4, <1>5, <1>6, <1>7 DEF Counts
<1> QED BY <1>1, <1>8 DEF q, e

(* ntimer_cancel_i *)
LEMMA CancelCounts ==
    ASSUME TicksFit, NEW d, Counts(list, rtick, d), NEW t \in Timer, Linked(list, t)
    PROVE  /\ Counts(Cancelled(t).list, Cancelled(t).rtick, [d EXCEPT ![t] = 0])
           /\ \A u : Linked(Cancelled(t).list, u) <=> Linked(list, u) /\ u # t
           /\ \A u \in Timer : u = t \/ ~Linked(list, u) => Cancelled(t).rtick[u] = rtick[u]
           /\ t # list[1] => Cancelled(t).list # << >> /\ Cancelled(t).list[1] = list[1]
<1>1. PICK i \in 1 .. Len(list) : list[i] = t
  BY DEF Linked
<1>2. /\ list \in Seq(Timer) /\ Distinct(list) /\ rtick \in [Timer -> Value]
      /\ Len(list) \in Nat /\ \A x, y \in 1 .. Len(list) : list[x] = list[y] => x = y
  BY LenProperties DEF Counts, Distinct
<1> DEFINE m == Without(list, t)
           after == {k \in 2 .. Len(list) : list[k - 1] = t}
           q == [u \in Timer |-> IF \E k \in after : list[k] = u
                                 THEN (rtick[u] + rtick[t]) % WordSize ELSE rtick[u]]
<1>3. Removed(m, list, i)
  BY <1>1, <1>2, WithoutIs
<1>4. \A k : k \in after <=> i < Len(list) /\ k = i + 1
  <2>1. ASSUME NEW k \in after PROVE i < Len(list) /\ k = i + 1
    <3>1. k - 1 \in 1 .. Len(list) /\ list[k - 1] = t
      BY <1>2
    <3>2. k - 1 = i
      BY <1>1, <1>2, <3>1
    <3> QED BY <1>2, <3>2
  <2>2. i < Len(list) => i + 1 \in after
    BY <1>1, <1>2
  <2> QED BY <2>1, <2>2
<1>5. q = PassedOn(rtick, list, i)
  <2> HIDE DEF after
  <2>1. \A u \in Timer : (\E k \in after : list[k] = u) <=> (i < Len(list) /\ u = list[i + 1])
    BY <1>4
  <2> QED BY <1>1, <2>1 DEF PassedOn
<1>6. Cancelled(t) = [list |-> m, rtick |-> q]
  BY Zenon DEF Cancelled
<1> HIDE DEF m, q
<1>7. Cancelled(t).list = m /\ Cancelled(t).rtick = q
  BY <1>6
<1>8. Counts(m, q, [d EXCEPT ![t] = 0])
  BY <1>1, <1>3, <1>5, RemoveCounts
<1>9. \A u : Linked(m, u) <=> Linked(list, u) /\ u # t
  BY <1>1, <1>2, <1>3, RemovedLinks
<1>10. ASSUME NEW u \in Timer, u = t \/ ~Linked(list, u) PROVE q[u] = rtick[u]
  <2>1. ~(i < Len(list) /\ u = list[i + 1])
    <3>1. i < Len(list) => i + 1 \in 1 .. Len(list) /\ i + 1 # i
      BY <1>2
    <3> QED BY <1>1, <1>2, <1>10, <3>1 DEF Linked
  <2> QED BY <1>5, <2>1 DEF PassedOn
<1>11. ASSUME t # list[1] PROVE m # << >> /\ m[1] = list[1]
  <2>1. i > 1 /\ Len(list) - 1 \in Nat \ {0} /\ 1 \in 1 .. Len(list) - 1 /\ 1 < i
    BY <1>1, <1>2, <1>11
  <2>2. m \in Seq(Timer) /\ Len(m) = Len(list) - 1 /\ m[1] = list[1]
    BY <1>3, <2>1 DEF Removed
  <2> QED BY <2>1, <2>2
<1> QED BY <1>7, <1>8, <1>9, <1>10, <1>11

--------------------------------------------------------------------------------
(* The inductive invariant                                                 *)

(* The callback of a timer starts none, and cancels none but its own: the  *)
(* loop of ncore_timer_isr does not stand other calls.                     *)
CallbacksKeepOut == \A t \in Timer : Starts[t] = {} /\ Cancels[t] \subseteq {t}

Left == LeftOf(list, rtick)
On == {t \in Timer : Linked(list, t)}
Period == [t \in Timer |-> IF Linked(list, t) THEN itick[t] ELSE 0]

NoneDue == \A t \in On : Left[t] > 0

(* What the loop tests next: the first timer, or none, or the one whose    *)
(* callback has cancelled it, when no other is due.                        *)
Fetched ==
    \/ current = Sentinel /\ list = << >>
    \/ list # << >> /\ current = list[1]
    \/ current \in Timer \ On /\ rtick[current] # 0 /\ NoneDue

TimerInv ==
    /\ Counts(list, rtick, Left)
    /\ itick \in [Timer -> 0 .. Limit]
    /\ isr \in {"off", "loop", "call"}
    /\ isr = "off" => NoneDue
    /\ isr # "off" => Fetched
    /\ isr = "call" => expired \in Timer /\ (expired \in On => Left[expired] > 0)

(* The words and the ticks that occur *)
LEMMA Words == WordSize \in Nat /\ Limit \in Nat /\ Limit = MaxTick + 1 /\ MaxTick \in Nat /\ 0 \in Value
  BY TimerAssumption DEF Limit, Value

(* No timer runs at first. *)
LEMMA InitTimer ==
    ASSUME TicksFit, Init
    PROVE  TimerInv /\ Left = [t \in Timer |-> 0] /\ On = {}
<1>1. Len(list) = 0 /\ list \in Seq(Timer) /\ \A t : ~Linked(list, t)
  BY DEF Init, Linked
<1>2. Counts(list, rtick, [t \in Timer |-> 0])
  <2>1. 0 \in 0 .. Limit
    BY Words
  <2> QED BY <1>1, <2>1, Words DEF Init, Counts, Distinct
<1>3. Left = [t \in Timer |-> 0]
  BY <1>2, LeftIs DEF Left
<1>4. On = {}
  BY <1>1 DEF On
<1>5. itick \in [Timer -> 0 .. Limit]
  BY Words DEF Init
<1> QED BY <1>2, <1>3, <1>4, <1>5 DEF TimerInv, Init, NoneDue

(* A step gives the timers the ticks d. *)
LEMMA LeftNext ==
    ASSUME TicksFit, NEW d, Counts(list', rtick', d)
    PROVE  Left' = d /\ Counts(list', rtick', Left')
<1>1. Left' = LeftOf(list', rtick')
  BY DEF Left, LeftOf, RemainingOf
<1> QED BY <1>1, LeftIs

(* Who runs after a step *)
LEMMA OnNext == On' = {t \in Timer : Linked(list', t)}
  BY DEF On

(* ntimer_start_i *)
LEMMA StartInStep ==
    ASSUME TicksFit, NEW old, NEW d, Counts(old.list, old.rtick, d), itick \in [Timer -> 0 .. Limit],
           NEW t \in Timer, ~Linked(old.list, t), NEW n \in 1 .. MaxTick, NEW repeat \in BOOLEAN,
           StartIn(old, t, n, repeat)
    PROVE  /\ Counts(list', rtick', [d EXCEPT ![t] = n + 1])
           /\ \A u : Linked(list', u) <=> Linked(old.list, u) \/ u = t
           /\ itick' = [itick EXCEPT ![t] = IF repeat THEN n + 1 ELSE 0]
           /\ itick' \in [Timer -> 0 .. Limit]
           /\ UNCHANGED <<isr, current, expired>>
<1>1. n + 1 \in 0 .. Limit /\ n + 1 \in Value /\ (n + 1) % WordSize = n + 1 /\ 0 \in 0 .. Limit
  <2>1. n + 1 \in 0 .. Limit /\ n + 1 < WordSize /\ n + 1 \in Nat
    BY Words DEF TicksFit
  <2> QED BY <2>1, Words DEF Value
<1> DEFINE q == [old.rtick EXCEPT ![t] = n + 1]
           l == old.list
<1>2. /\ list' = InsertTimer(l, q, t).list /\ rtick' = InsertTimer(l, q, t).rtick
      /\ itick' = [itick EXCEPT ![t] = IF repeat THEN n + 1 ELSE 0]
      /\ UNCHANGED <<isr, current, expired>>
  BY <1>1 DEF StartIn
<1>3. Counts(l, q, d) /\ q[t] = n + 1
  BY <1>1, OffListCounts
<1> HIDE DEF q, l
<1>4. q[t] \in 0 .. Limit /\ ~Linked(l, t)
  BY <1>1, <1>3 DEF l
<1>5. /\ Counts(list', rtick', [d EXCEPT ![t] = q[t]])
      /\ \A u : Linked(list', u) <=> Linked(l, u) \/ u = t
  BY <1>2, <1>3, <1>4, InsertCounts
<1>6. itick' \in [Timer -> 0 .. Limit]
  <2>1. (IF repeat THEN n + 1 ELSE 0) \in 0 .. Limit
    BY <1>1
  <2> QED BY <1>2, <2>1
<1>7. [d EXCEPT ![t] = q[t]] = [d EXCEPT ![t] = n + 1]
  BY <1>3
<1>8. Counts(list', rtick', [d EXCEPT ![t] = n + 1])
  BY <1>5, <1>7
<1> QED BY <1>2, <1>5, <1>6, <1>8 DEF l

--------------------------------------------------------------------------------
(* The steps                                                               *)

(* What the invariant says of the types *)
LEMMA Known ==
    ASSUME TimerInv
    PROVE  /\ Left \in [Timer -> 0 .. Limit] /\ list \in Seq(Timer) /\ rtick \in [Timer -> Value]
           /\ Period \in [Timer -> 0 .. Limit] /\ On \subseteq Timer
           /\ \A t \in Timer : Left[t] \in Nat /\ rtick[t] \in Nat /\ itick[t] \in Nat
           /\ \A t \in Timer : t \in On <=> Linked(list, t)
           /\ \A t \in Timer : t \notin On => Left[t] = 0
<1>1. 0 \in 0 .. Limit
  BY Words
<1> QED BY <1>1, Words DEF TimerInv, Counts, Period, On, Value

(* A timer is started with the timers as in old, no tick being under way. *)
LEMMA StartedStep ==
    ASSUME TicksFit, TimerInv, isr = "off", NEW old, NEW d, Counts(old.list, old.rtick, d),
           NEW t \in Timer, ~Linked(old.list, t),
           \A u : u # t => (Linked(old.list, u) <=> Linked(list, u)),
           \A u \in Timer : u # t => d[u] = Left[u],
           NEW n \in 1 .. MaxTick, NEW repeat \in BOOLEAN, StartIn(old, t, n, repeat)
    PROVE  /\ TimerInv' /\ UNCHANGED <<isr, current, expired>>
           /\ Left' = [Left EXCEPT ![t] = n + 1]
           /\ On' = On \cup {t}
           /\ Period' = [Period EXCEPT ![t] = IF repeat THEN n + 1 ELSE 0]
<1>0. itick \in [Timer -> 0 .. Limit] /\ NoneDue
  BY DEF TimerInv
<1>1. /\ Counts(list', rtick', [d EXCEPT ![t] = n + 1])
      /\ \A u : Linked(list', u) <=> Linked(old.list, u) \/ u = t
      /\ itick' = [itick EXCEPT ![t] = IF repeat THEN n + 1 ELSE 0]
      /\ itick' \in [Timer -> 0 .. Limit]
      /\ UNCHANGED <<isr, current, expired>>
  BY <1>0, StartInStep
<1>2. d \in [Timer -> 0 .. Limit] /\ Left \in [Timer -> 0 .. Limit]
  BY Known DEF Counts
<1>3. [d EXCEPT ![t] = n + 1] = [Left EXCEPT ![t] = n + 1]
  BY <1>2
<1>4. Left' = [Left EXCEPT ![t] = n + 1] /\ Counts(list', rtick', Left')
  BY <1>1, <1>3, LeftNext
<1>5. \A u : Linked(list', u) <=> Linked(list, u) \/ u = t
  BY <1>1
<1>6. On' = On \cup {t}
  BY <1>5, OnNext DEF On
<1>7. Period' = [Period EXCEPT ![t] = IF repeat THEN n + 1 ELSE 0]
  <2>1. Period' = [u \in Timer |-> IF Linked(list', u) THEN itick'[u] ELSE 0]
    BY DEF Period
  <2>2. \A u \in Timer : itick'[u] = IF u = t THEN (IF repeat THEN n + 1 ELSE 0) ELSE itick[u]
    BY <1>0, <1>1
  <2> QED BY <1>5, <2>1, <2>2 DEF Period
<1>8. NoneDue'
  <2>1. \A u \in Timer : Left'[u] = IF u = t THEN n + 1 ELSE Left[u]
    BY <1>2, <1>4
  <2>2. n + 1 > 0
    BY Words
  <2>3. On \subseteq Timer
    BY DEF On
  <2> QED BY <1>0, <1>6, <2>1, <2>2, <2>3 DEF NoneDue
<1>9. TimerInv'
  BY <1>1, <1>4, <1>8 DEF TimerInv
<1> QED BY <1>1, <1>4, <1>6, <1>7, <1>9

(* ntimer_start of a timer that does not run *)
LEMMA StartStep ==
    ASSUME TicksFit, CallbacksKeepOut, TimerInv, NEW t \in Timer, NEW n \in 1 .. MaxTick,
           NEW repeat \in BOOLEAN, StartTimer(t, n, repeat)
    PROVE  /\ TimerInv' /\ isr = "off" /\ UNCHANGED <<isr, current, expired>> /\ t \notin On
           /\ Left' = [Left EXCEPT ![t] = n + 1]
           /\ On' = On \cup {t}
           /\ Period' = [Period EXCEPT ![t] = IF repeat THEN n + 1 ELSE 0]
<1>1. isr = "off" /\ ~Linked(list, t)
  BY DEF StartTimer, MayCall, TimerInv, CallbacksKeepOut, Running, Linked
<1> DEFINE old == [list |-> list, rtick |-> rtick]
<1>2. old.list = list /\ old.rtick = rtick /\ StartIn(old, t, n, repeat)
  BY DEF StartTimer
<1> HIDE DEF old
<1>3. Counts(old.list, old.rtick, Left) /\ ~Linked(old.list, t)
  BY <1>1, <1>2 DEF TimerInv
<1>4. \A u : u # t => (Linked(old.list, u) <=> Linked(list, u))
  BY <1>2
<1>5. \A u \in Timer : u # t => Left[u] = Left[u]
  OBVIOUS
<1>6. /\ TimerInv' /\ UNCHANGED <<isr, current, expired>>
      /\ Left' = [Left EXCEPT ![t] = n + 1]
      /\ On' = On \cup {t}
      /\ Period' = [Period EXCEPT ![t] = IF repeat THEN n + 1 ELSE 0]
  BY <1>1, <1>2, <1>3, <1>4, <1>5, StartedStep
<1> QED BY <1>1, <1>6, Known

(* ntimer_start of a running timer: cancelled and started at once *)
LEMMA RestartStep ==
    ASSUME TicksFit, TimerInv, NEW t \in Timer, NEW n \in 1 .. MaxTick,
           NEW repeat \in BOOLEAN, RestartTimer(t, n, repeat)
    PROVE  /\ TimerInv' /\ isr = "off" /\ UNCHANGED <<isr, current, expired>> /\ t \in On
           /\ Left' = [Left EXCEPT ![t] = n + 1]
           /\ On' = On
           /\ Period' = [Period EXCEPT ![t] = IF repeat THEN n + 1 ELSE 0]
<1>1. isr = "off" /\ Linked(list, t) /\ t \in On /\ Counts(list, rtick, Left)
  BY DEF RestartTimer, Running, Linked, On, TimerInv
<1>2. /\ Counts(Cancelled(t).list, Cancelled(t).rtick, [Left EXCEPT ![t] = 0])
      /\ \A u : Linked(Cancelled(t).list, u) <=> Linked(list, u) /\ u # t
  BY <1>1, CancelCounts
<1>3. StartIn(Cancelled(t), t, n, repeat)
  BY DEF RestartTimer
<1> DEFINE old == Cancelled(t)
           d == [Left EXCEPT ![t] = 0]
<1>4. \A u \in Timer : u # t => d[u] = Left[u]
  BY Known
<1> HIDE DEF old, d
<1>5. Counts(old.list, old.rtick, d) /\ StartIn(old, t, n, repeat) /\ ~Linked(old.list, t)
      /\ \A u : u # t => (Linked(old.list, u) <=> Linked(list, u))
  BY <1>2, <1>3 DEF old, d
<1>6. /\ TimerInv' /\ UNCHANGED <<isr, current, expired>>
      /\ Left' = [Left EXCEPT ![t] = n + 1]
      /\ On' = On \cup {t}
      /\ Period' = [Period EXCEPT ![t] = IF repeat THEN n + 1 ELSE 0]
  BY <1>1, <1>4, <1>5, StartedStep
<1> QED BY <1>1, <1>6

(* ntimer_cancel: the timers that stay count on; the loop may be left with *)
(* the timer that was cancelled, which is not due.                         *)
LEMMA CancelStep ==
    ASSUME TicksFit, CallbacksKeepOut, TimerInv, NEW t \in Timer, CancelTimer(t)
    PROVE  /\ TimerInv' /\ UNCHANGED <<isr, current, expired>> /\ t \in On
           /\ isr = "off" \/ (isr = "call" /\ t = expired)
           /\ Left' = [Left EXCEPT ![t] = 0]
           /\ On' = On \ {t}
           /\ Period' = [Period EXCEPT ![t] = 0]
<1>1. /\ Linked(list, t) /\ t \in On /\ Counts(list, rtick, Left) /\ list # << >>
      /\ isr = "off" \/ (isr = "call" /\ t = expired)
      /\ UNCHANGED <<itick, isr, current, expired>>
  BY DEF CancelTimer, MayCall, CallbacksKeepOut, Running, Linked, On, TimerInv
<1>2. /\ Counts(list', rtick', [Left EXCEPT ![t] = 0])
      /\ \A u : Linked(list', u) <=> Linked(list, u) /\ u # t
      /\ \A u \in Timer : u = t \/ ~Linked(list, u) => rtick'[u] = rtick[u]
      /\ t # list[1] => list' # << >> /\ list'[1] = list[1]
  <2>1. list' = Cancelled(t).list /\ rtick' = Cancelled(t).rtick
    BY DEF CancelTimer
  <2> QED BY <1>1, <2>1, CancelCounts
<1>3. Left' = [Left EXCEPT ![t] = 0] /\ Counts(list', rtick', Left')
  BY <1>2, LeftNext
<1>4. On' = On \ {t}
  BY <1>2, OnNext DEF On
<1>5. Period' = [Period EXCEPT ![t] = 0]
  <2>1. Period' = [u \in Timer |-> IF Linked(list', u) THEN itick[u] ELSE 0]
    BY <1>1 DEF Period
  <2> QED BY <1>2, <2>1 DEF Period
<1>6. \A u \in Timer : u # t => Left'[u] = Left[u]
  BY <1>3, Known
<1>7. NoneDue => NoneDue'
  BY <1>4, <1>6, Known DEF NoneDue
<1>8. CASE isr = "off"
  <2>1. TimerInv'
    BY <1>1, <1>2, <1>3, <1>7, <1>8 DEF TimerInv
  <2> QED BY <1>1, <1>3, <1>4, <1>5, <2>1
<1>9. CASE isr = "call"
  <2>1. t = expired /\ Left[t] > 0 /\ Fetched
    BY <1>1, <1>9 DEF TimerInv
  <2>2. Fetched'
    <3>1. CASE current = list[1] /\ t = list[1]
      <4>1. /\ Left[t] = rtick[t]
            /\ \A u \in Timer : Linked(list, u) => Left[t] <= Left[u]
        BY <1>1, <3>1, HeadFirst
      <4>2. NoneDue'
        <5>1. ASSUME NEW u \in On PROVE Left[u] > 0
          <6>1. u \in Timer /\ Linked(list, u) /\ Left[u] \in Nat /\ Left[t] \in Nat
            BY Known
          <6>2. Left[t] <= Left[u]
            BY <4>1, <6>1
          <6> QED BY <2>1, <6>1, <6>2
        <5> QED BY <1>7, <5>1 DEF NoneDue
      <4>3. current' \in Timer \ On' /\ rtick'[current'] # 0
        BY <1>1, <1>2, <1>4, <2>1, <3>1, <4>1, Known
      <4> QED BY <4>2, <4>3 DEF Fetched
    <3>2. CASE current = list[1] /\ t # list[1]
      BY <1>1, <1>2, <3>2 DEF Fetched
    <3>3. CASE current \in Timer \ On /\ rtick[current] # 0 /\ NoneDue
      <4>1. rtick'[current] = rtick[current]
        BY <1>2, <3>3, Known
      <4>2. current' \in Timer \ On'
        BY <1>1, <1>4, <3>3
      <4> QED BY <1>1, <1>7, <3>3, <4>1, <4>2 DEF Fetched
    <3> QED BY <1>1, <2>1, <3>1, <3>2, <3>3 DEF Fetched
  <2>3. expired' \in Timer /\ expired' \notin On'
    BY <1>1, <1>4, <2>1
  <2>4. TimerInv'
    BY <1>1, <1>2, <1>3, <1>9, <2>2, <2>3 DEF TimerInv
  <2> QED BY <1>1, <1>3, <1>4, <1>5, <2>4
<1> QED BY <1>1, <1>8, <1>9

(* ncore_timer_isr up to its loop: every timer counts down. *)
LEMMA TickStep ==
    ASSUME TicksFit, TimerInv, TimerIsr
    PROVE  /\ TimerInv' /\ isr = "off" /\ isr' = "loop" /\ On # {} /\ On' = On
           /\ Left' = [t \in Timer |-> IF t \in On THEN Left[t] - 1 ELSE 0]
           /\ Period' = Period
<1>1. /\ isr = "off" /\ isr' = "loop" /\ list # << >> /\ UNCHANGED <<list, itick, expired>>
      /\ Counts(list, rtick, Left) /\ NoneDue /\ Head(list) = list[1]
      /\ rtick' = [rtick EXCEPT ![list[1]] = (@ - 1) % WordSize] /\ current' = list[1]
  <2>1. Counts(list, rtick, Left) /\ NoneDue /\ list # << >>
    BY DEF TimerInv, TimerIsr
  <2>2. Head(list) = list[1]
    BY <2>1, HeadFirst
  <2> QED BY <2>1, <2>2 DEF TimerIsr
<1>2. \A t \in Timer : Linked(list, t) => Left[t] > 0
  BY <1>1 DEF NoneDue, On
<1>3. /\ Counts(list, rtick', [t \in Timer |-> IF Linked(list, t) THEN Left[t] - 1 ELSE 0])
      /\ list[1] \in Timer /\ Linked(list, list[1])
  BY <1>1, <1>2, TickCounts
<1>4. [t \in Timer |-> IF Linked(list, t) THEN Left[t] - 1 ELSE 0]
      = [t \in Timer |-> IF t \in On THEN Left[t] - 1 ELSE 0]
  BY DEF On
<1>5. /\ Left' = [t \in Timer |-> IF t \in On THEN Left[t] - 1 ELSE 0]
      /\ Counts(list', rtick', Left')
  BY <1>1, <1>3, <1>4, LeftNext
<1>6. On' = On /\ Period' = Period /\ On # {}
  BY <1>1, <1>3 DEF On, Period
<1>7. Fetched'
  BY <1>1 DEF Fetched
<1>8. TimerInv'
  BY <1>1, <1>5, <1>7 DEF TimerInv
<1> QED BY <1>1, <1>5, <1>6, <1>8

(* One turn of the loop: the timer that is fetched is linked and due. *)
LEMMA ExpireStep ==
    ASSUME TicksFit, TimerInv, Expire
    PROVE  /\ TimerInv' /\ isr = "loop" /\ isr' = "call"
           /\ current \in On /\ Left[current] = 0 /\ expired' = current
           /\ Left' = [Left EXCEPT ![current] = Period[current]]
           /\ On' = IF Period[current] = 0 THEN On \ {current} ELSE On
           /\ Period' = Period
<1>1. /\ isr = "loop" /\ list # << >> /\ current = list[1] /\ rtick[current] = 0
      /\ Counts(list, rtick, Left) /\ itick' = itick /\ expired' = current
      /\ itick \in [Timer -> 0 .. Limit]
  BY DEF Expire, Due, TimerInv, Fetched
<1>2. /\ current \in Timer /\ Linked(list, current) /\ current \in On /\ Left[current] = 0
      /\ Running(current) /\ isr' = "call"
  <2>1. Len(list) \in Nat \ {0} /\ list[1] \in Timer /\ Left[list[1]] = 0
    BY <1>1, HeadFirst
  <2>2. 1 \in 1 .. Len(list)
    BY <2>1
  <2> QED BY <1>1, <2>1, <2>2 DEF Expire, Linked, Running, On
<1> DEFINE rest == Without(list, current)
           new == IF itick[current] # 0
                  THEN InsertTimer(rest, [rtick EXCEPT ![current] = itick[current]], current)
                  ELSE [list |-> rest, rtick |-> rtick]
<1>3. list' = new.list /\ rtick' = new.rtick /\ current' = First(new.list)
  BY Zenon DEF Expire
<1>4. /\ Counts(rest, rtick, Left)
      /\ \A u : Linked(rest, u) <=> Linked(list, u) /\ u # current
  BY <1>1, ExpireCounts
<1>5. itick[current] \in 0 .. Limit /\ itick[current] \in Nat /\ Period[current] = itick[current]
  <2>1. itick[current] \in 0 .. Limit
    BY <1>1, <1>2
  <2> QED BY <1>2, <2>1, Words DEF Period
<1>6. /\ Counts(list', rtick', [Left EXCEPT ![current] = itick[current]])
      /\ \A u : Linked(list', u) <=> Linked(list, u) /\ (itick[current] = 0 => u # current)
  <2>1. CASE itick[current] = 0
    <3>1. list' = rest /\ rtick' = rtick
      BY <1>3, <2>1
    <3>2. [Left EXCEPT ![current] = itick[current]] = Left
      BY <1>2, <2>1, Known
    <3> QED BY <1>4, <2>1, <3>1, <3>2
  <2>2. CASE itick[current] # 0
    <3> DEFINE q == [rtick EXCEPT ![current] = itick[current]]
    <3>1. list' = InsertTimer(rest, q, current).list /\ rtick' = InsertTimer(rest, q, current).rtick
      BY <1>3, <2>2
    <3>2. ~Linked(rest, current) /\ itick[current] \in Value
      <4>1. \A x \in 0 .. Limit : x \in Value
        BY Words DEF TicksFit, Value
      <4> QED BY <1>4, <1>5, <4>1
    <3> HIDE DEF rest
    <3>3. Counts(rest, q, Left) /\ q[current] = itick[current]
      BY <1>2, <1>4, <3>2, OffListCounts
    <3> HIDE DEF q
    <3>4. /\ Counts(list', rtick', [Left EXCEPT ![current] = q[current]])
          /\ \A u : Linked(list', u) <=> Linked(rest, u) \/ u = current
      BY <1>2, <1>5, <3>1, <3>2, <3>3, InsertCounts
    <3>5. Counts(list', rtick', [Left EXCEPT ![current] = itick[current]])
      BY <3>3, <3>4
    <3> QED BY <1>2, <1>4, <2>2, <3>4, <3>5
  <2> QED BY <2>1, <2>2
<1> HIDE DEF rest, new
<1>7. Left' = [Left EXCEPT ![current] = itick[current]] /\ Counts(list', rtick', Left')
  BY <1>6, LeftNext
<1>8. On' = IF Period[current] = 0 THEN On \ {current} ELSE On
  BY <1>5, <1>6, OnNext DEF On
<1>9. Period' = Period
  <2>1. Period' = [u \in Timer |-> IF Linked(list', u) THEN itick[u] ELSE 0]
    BY <1>1 DEF Period
  <2>2. \A u \in Timer : (IF Linked(list', u) THEN itick[u] ELSE 0)
                         = (IF Linked(list, u) THEN itick[u] ELSE 0)
    BY <1>6
  <2> QED BY <2>1, <2>2 DEF Period
<1>10. Fetched'
  <2>1. current' = First(list')
    BY <1>3
  <2>2. CASE list' = << >>
    BY <2>1, <2>2 DEF First, Fetched
  <2>3. CASE list' # << >>
    <3>1. Head(list') = list'[1]
      BY <1>7, <2>3, HeadFirst
    <3> QED BY <2>1, <2>3, <3>1 DEF First, Fetched
  <2> QED BY <2>2, <2>3
<1>11. expired' \in Timer /\ (expired' \in On' => Left'[expired'] > 0)
  <2>1. Left'[current] = itick[current]
    BY <1>2, <1>7, Known
  <2>2. current \in On' => itick[current] > 0
    BY <1>5, <1>8
  <2> QED BY <1>1, <1>2, <2>1, <2>2
<1>12. TimerInv'
  BY <1>1, <1>2, <1>7, <1>10, <1>11 DEF TimerInv
<1> QED BY <1>1, <1>2, <1>5, <1>7, <1>8, <1>9, <1>12

(* A callback returns. *)
LEMMA ReturnStep ==
    ASSUME TimerInv, CallbackReturn
    PROVE  TimerInv' /\ isr = "call" /\ isr' = "loop" /\ Left' = Left /\ On' = On /\ Period' = Period
<1>1. Left' = Left /\ On' = On /\ Period' = Period
  BY DEF CallbackReturn, Left, LeftOf, RemainingOf, On, Period
<1> QED BY <1>1 DEF CallbackReturn, TimerInv, Fetched, NoneDue

(* The loop ends when no timer is due any more. *)
LEMMA EndStep ==
    ASSUME TimerInv, IsrEnd
    PROVE  /\ TimerInv' /\ isr = "loop" /\ isr' = "off" /\ NoneDue
           /\ Left' = Left /\ On' = On /\ Period' = Period
<1>1. Left' = Left /\ On' = On /\ Period' = Period
  BY DEF IsrEnd, Left, LeftOf, RemainingOf, On, Period
<1>2. isr = "loop" /\ ~Due /\ Fetched /\ Counts(list, rtick, Left)
  BY DEF IsrEnd, TimerInv
<1>3. NoneDue
  <2>1. CASE list = << >>
    <3>1. Len(list) = 0
      BY <2>1
    <3> QED BY <3>1 DEF NoneDue, On, Linked
  <2>2. CASE list # << >> /\ current = list[1]
    <3>1. /\ list[1] \in Timer /\ Left[list[1]] = rtick[list[1]]
          /\ \A t \in Timer : Linked(list, t) => Left[list[1]] <= Left[t]
      BY <1>2, <2>2, HeadFirst
    <3>2. current # Sentinel
      BY <2>2, <3>1, TimerAssumption
    <3>3. Left[list[1]] # 0
      BY <1>2, <2>2, <3>1, <3>2 DEF Due
    <3>4. ASSUME NEW t \in On PROVE Left[t] > 0
      <4>1. t \in Timer /\ Linked(list, t) /\ Left[t] \in Nat /\ Left[list[1]] \in Nat
        BY <3>1, Known
      <4>2. Left[list[1]] <= Left[t]
        BY <3>1, <4>1
      <4> QED BY <3>3, <4>1, <4>2
    <3> QED BY <3>4 DEF NoneDue
  <2> QED BY <1>2, <2>1, <2>2 DEF Fetched
<1> QED BY <1>1, <1>2, <1>3 DEF IsrEnd, TimerInv, NoneDue

(* A step of others leaves the timers alone. *)
LEMMA StillStep ==
    ASSUME TimerInv, UNCHANGED vars
    PROVE  TimerInv' /\ Left' = Left /\ On' = On /\ Period' = Period /\ isr' = isr
<1>1. Left' = Left /\ On' = On /\ Period' = Period
  BY DEF vars, Left, LeftOf, RemainingOf, On, Period
<1> QED BY <1>1 DEF vars, TimerInv, Fetched, NoneDue

--------------------------------------------------------------------------------
(* Timers expire in their ticks.                                           *)

(* What the service sees of the list *)
LEMMA Seen ==
    /\ [t \in Timer |-> Remaining(t)] = Left
    /\ [t \in Timer |-> IF Running(t) THEN itick[t] ELSE 0] = Period
    /\ {t \in Timer : Running(t)} = On
  BY DEF Left, LeftOf, RemainingOf, Remaining, Running, Linked, Period, On

(* The same after a step *)
LEMMA SeenNext ==
    /\ [t \in Timer |-> Remaining(t)]' = Left'
    /\ [t \in Timer |-> IF Running(t) THEN itick[t] ELSE 0]' = Period'
    /\ {t \in Timer : Running(t)}' = On'
  BY DEF Left, LeftOf, RemainingOf, Remaining, Running, Linked, Period, On

(* Every step keeps the invariant and is one of the service. *)
LEMMA TimerStep ==
    ASSUME TicksFit, CallbacksKeepOut, TimerInv, [Next]_vars
    PROVE  TimerInv' /\ [Service!Next]_Service!vars
<1> USE Seen, SeenNext
<1>1. CASE UNCHANGED vars
  BY <1>1, StillStep DEF Service!vars
<1>2. ASSUME NEW t \in Timer, NEW n \in 1 .. MaxTick, NEW repeat \in BOOLEAN, StartTimer(t, n, repeat)
      PROVE  TimerInv' /\ Service!Next
  <2>1. /\ TimerInv' /\ isr = "off" /\ isr' = isr /\ t \notin On /\ On' = On \cup {t}
        /\ Left' = [Left EXCEPT ![t] = n + 1]
        /\ Period' = [Period EXCEPT ![t] = IF repeat THEN n + 1 ELSE 0]
    BY ONLY TicksFit, CallbacksKeepOut, TimerInv, <1>2, StartStep
  <2>2. Service!Start(t, n, repeat)
    BY <2>1, Zenon DEF Service!Start
  <2> QED BY <2>1, <2>2 DEF Service!Next
<1>3. ASSUME NEW t \in Timer, NEW n \in 1 .. MaxTick, NEW repeat \in BOOLEAN, RestartTimer(t, n, repeat)
      PROVE  TimerInv' /\ Service!Next
  <2>1. /\ TimerInv' /\ isr = "off" /\ isr' = isr /\ t \in On /\ On' = On
        /\ Left' = [Left EXCEPT ![t] = n + 1]
        /\ Period' = [Period EXCEPT ![t] = IF repeat THEN n + 1 ELSE 0]
    BY ONLY TicksFit, CallbacksKeepOut, TimerInv, <1>3, RestartStep
  <2>2. Service!Restart(t, n, repeat)
    BY <2>1, Zenon DEF Service!Restart
  <2> QED BY <2>1, <2>2 DEF Service!Next
<1>4. ASSUME NEW t \in Timer, CancelTimer(t)
      PROVE  TimerInv' /\ Service!Next
  <2>1. Service!Cancel(t)
    BY <1>4, CancelStep DEF Service!Cancel
  <2> QED BY <1>4, <2>1, CancelStep DEF Service!Next
<1>5. CASE TimerIsr
  <2>1. Service!Tick
    BY <1>5, TickStep DEF Service!Tick
  <2> QED BY <1>5, <2>1, TickStep DEF Service!Next
<1>6. CASE Expire
  <2>1. Service!Expire(current) /\ current \in Timer
    BY <1>6, ExpireStep, Known DEF Service!Expire
  <2> QED BY <1>6, <2>1, ExpireStep DEF Service!Next
<1>7. CASE CallbackReturn
  <2>1. Service!Return
    BY <1>7, ReturnStep DEF Service!Return
  <2> QED BY <1>7, <2>1, ReturnStep DEF Service!Next
<1>8. CASE IsrEnd
  <2>1. Service!TickEnd
    BY <1>8, EndStep DEF Service!TickEnd, NoneDue
  <2> QED BY <1>8, <2>1, EndStep DEF Service!Next
<1> QED BY <1>1, <1>2, <1>3, <1>4, <1>5, <1>6, <1>7, <1>8 DEF Next, IsrStep

(* The service starts with no timer running. *)
LEMMA ServiceInit ==
    ASSUME TicksFit, Init
    PROVE  Service!Init
<1>1. Period = [t \in Timer |-> 0]
  BY InitTimer DEF On, Period
<1> QED BY <1>1, InitTimer, Seen DEF Service!Init, Init

(* A list with relative ticks, updated by the handlers of timer.c, makes   *)
(* every timer expire in its tick and in no other, and leaves none behind. *)
THEOREM TimersExpire ==
    ASSUME TicksFit, CallbacksKeepOut
    PROVE  Spec => ExpiresInItsTick
<1>1. Init => TimerInv /\ Service!Init
  BY InitTimer, ServiceInit
<1>2. TimerInv /\ [Next]_vars => TimerInv' /\ [Service!Next]_Service!vars
  BY TimerStep
<1> QED BY <1>1, <1>2, PTL DEF Spec, ExpiresInItsTick, Service!Spec

(* What is called is what the loop has fetched, and it is linked. *)
LEMMA CalledWhileRunning ==
    ASSUME TicksFit, CallbacksKeepOut, TimerInv, [Next]_vars
    PROVE  [isr = "loop" /\ isr' # "loop" /\ isr' # "off" => Running(current)]_vars
<1> SUFFICES ASSUME Next, isr = "loop", isr' # "loop", isr' # "off" PROVE Running(current)
  OBVIOUS
<1>1. Expire
  BY StartStep, RestartStep, CancelStep
  DEF Next, IsrStep, TimerIsr, CallbackReturn, IsrEnd
<1>2. current \in On
  BY <1>1, ExpireStep
<1> QED BY <1>2 DEF On, Linked, Running

(* timer.h:93-94: a callback is called for a running timer only, never for *)
(* one that was cancelled after the loop had fetched it.                   *)
THEOREM CancelledStayQuiet ==
    ASSUME TicksFit, CallbacksKeepOut
    PROVE  Spec => CancelledStaysQuiet
<1>1. Init => TimerInv
  BY InitTimer
<1>2. TimerInv /\ [Next]_vars => TimerInv'
  BY TimerStep
<1>3. TimerInv /\ [Next]_vars
      => [isr = "loop" /\ isr' # "loop" /\ isr' # "off" => Running(current)]_vars
  BY CalledWhileRunning
<1> QED BY <1>1, <1>2, <1>3, PTL DEF Spec, CancelledStaysQuiet

--------------------------------------------------------------------------------
(* Event timers                                                            *)

(* An event timer that is stopped is off the list, carries a null event,   *)
(* and is not the one whose callback runs; one that is being cancelled     *)
(* carries a null event already.                                           *)
StoppedAreNull ==
    /\ \A t \in stopped : t \notin On /\ id[t] = Null /\ (isr = "call" => expired # t)
    /\ canceller \in ETimer => id[canceller] = Null

EventTypes ==
    /\ stopped \subseteq ETimer /\ canceller \in ETimer \cup {Nobody}
    /\ id \in [ETimer -> {"default", "due", Null}] /\ epaq \in Seq(ETimer)

EventInv == TimerInv /\ EventTypes /\ StoppedAreNull

(* Event timers are timers, and none is nobody. *)
LEMMA EventWords == ETimer \subseteq Timer /\ Nobody \notin ETimer
  BY TimerAssumption, EventTimerAssumption DEF Nobody

(* What the agent takes from its queue is an event of a timer. *)
LEMMA QueueProperties ==
    ASSUME NEW q \in Seq(ETimer), q # << >>
    PROVE  Head(q) \in ETimer /\ Tail(q) \in Seq(ETimer)
  BY HeadTailProperties

(* Every step of event timers keeps the types. *)
LEMMA EventTypesKept ==
    ASSUME EventTypes, [EventNext]_allVars
    PROVE  EventTypes'
<1>1. ASSUME NEW t \in ETimer, NEW n \in 1 .. MaxTick, NEW repeat \in BOOLEAN, Schedule(t, n, repeat)
      PROVE  EventTypes'
  BY <1>1 DEF Schedule, EventTypes
<1>2. ASSUME NEW t \in ETimer, CancelMark(t)
      PROVE  EventTypes'
  BY <1>2 DEF CancelMark, EventTypes
<1>3. CASE CancelStop
  BY <1>3 DEF CancelStop, EventTypes
<1>4. CASE EtimerHandler
  <2>1. Append(epaq, expired) \in Seq(ETimer)
    BY <1>4, AppendProperties DEF EtimerHandler, EventTypes
  <2> QED BY <1>4, <2>1 DEF EtimerHandler, EventTypes
<1>5. CASE FetchEvent
  BY <1>5, QueueProperties DEF FetchEvent, EventTypes
<1>6. CASE HandleEvent
  BY <1>6 DEF HandleEvent, EventTypes
<1>7. CASE UNCHANGED eventVars
  BY <1>7 DEF eventVars, EventTypes
<1>8. UNCHANGED allVars => UNCHANGED eventVars
  BY DEF allVars, eventVars
<1> QED BY <1>1, <1>2, <1>3, <1>4, <1>5, <1>6, <1>7, <1>8 DEF EventNext, UsePlainTimer, PlainIsrStep

(* The timers see nothing of an event timer but the calls of their API.    *)
LEMMA EventIsTimer ==
    ASSUME EventTypes, [EventNext]_allVars
    PROVE  [Next]_vars
<1>1. ASSUME NEW t \in ETimer, NEW n \in 1 .. MaxTick, NEW repeat \in BOOLEAN, Schedule(t, n, repeat)
      PROVE  Next
  BY <1>1, EventWords DEF Schedule, Next
<1>2. ASSUME NEW t \in Timer \ ETimer, UsePlainTimer(t)
      PROVE  Next
  BY <1>2 DEF UsePlainTimer, Next
<1>3. CASE UNCHANGED timerVars \/ UNCHANGED allVars
  BY <1>3 DEF timerVars, allVars, vars
<1>4. CASE CancelStop
  <2>1. canceller \in Timer
    BY <1>4, EventWords DEF CancelStop, EventTypes
  <2>2. CASE CancelTimer(canceller)
    BY <2>1, <2>2 DEF Next
  <2> QED BY <1>3, <1>4, <2>2 DEF CancelStop
<1>5. CASE EtimerHandler
  BY <1>5 DEF EtimerHandler, Next, IsrStep
<1>6. CASE PlainIsrStep
  BY <1>6 DEF PlainIsrStep, Next, IsrStep
<1>7. \A t \in ETimer : CancelMark(t) => UNCHANGED timerVars
  BY DEF CancelMark
<1>8. FetchEvent \/ HandleEvent => UNCHANGED timerVars
  BY DEF FetchEvent, HandleEvent
<1> QED BY <1>1, <1>2, <1>3, <1>4, <1>5, <1>6, <1>7, <1>8 DEF EventNext

(* Who runs after a step, and whose callback *)
LEMMA StoppedKept ==
    ASSUME TicksFit, CallbacksKeepOut, EventInv, [EventNext]_allVars
    PROVE  StoppedAreNull'
<1>0. TimerInv /\ EventTypes /\ StoppedAreNull
  BY DEF EventInv
<1>1. ASSUME NEW t \in ETimer, NEW n \in 1 .. MaxTick, NEW repeat \in BOOLEAN, Schedule(t, n, repeat)
      PROVE  StoppedAreNull'
  <2>1. t \in Timer /\ On' \subseteq On \cup {t} /\ isr = "off" /\ isr' = isr
    BY <1>0, <1>1, StartStep, RestartStep, EventWords DEF Schedule
  <2> QED BY <1>0, <1>1, <2>1, EventWords DEF Schedule, StoppedAreNull, EventTypes
<1>2. ASSUME NEW t \in ETimer, CancelMark(t)
      PROVE  StoppedAreNull'
  <2>1. On' = On /\ isr' = isr /\ expired' = expired /\ stopped' = stopped
        /\ id' = [id EXCEPT ![t] = Null] /\ canceller' = t
    BY <1>2 DEF CancelMark, timerVars, On
  <2> QED BY <1>0, <2>1 DEF StoppedAreNull, EventTypes
<1>3. CASE CancelStop
  <2>1. canceller \in ETimer /\ canceller \in Timer
    BY <1>0, <1>3, EventWords DEF CancelStop, EventTypes
  <2>2. On' \subseteq On \ {canceller} /\ isr' = isr /\ isr = "off"
    <3>1. CASE CancelTimer(canceller)
      BY <1>0, <1>3, <2>1, <3>1, CancelStep DEF CancelStop
    <3>2. CASE ~Running(canceller) /\ UNCHANGED timerVars
      BY <1>3, <2>1, <3>2 DEF CancelStop, timerVars, On, Running, Linked
    <3> QED BY <1>3, <3>1, <3>2 DEF CancelStop
  <2>3. stopped' = stopped \cup {canceller} /\ id' = id /\ canceller' \notin ETimer
    BY <1>3, EventWords DEF CancelStop
  <2> QED BY <1>0, <2>1, <2>2, <2>3 DEF StoppedAreNull
<1>4. ASSUME NEW t \in Timer \ ETimer, UsePlainTimer(t)
      PROVE  StoppedAreNull'
  <2>1. On' \subseteq On \cup {t} /\ isr' = isr /\ expired' = expired
    BY <1>0, <1>4, StartStep, CancelStep DEF UsePlainTimer
  <2> QED BY <1>0, <1>4, <2>1 DEF UsePlainTimer, eventVars, StoppedAreNull, EventTypes
<1>5. CASE EtimerHandler
  <2>1. On' = On /\ isr' = "loop"
    BY <1>0, <1>5, ReturnStep DEF EtimerHandler
  <2> QED BY <1>0, <1>5, <2>1 DEF EtimerHandler, StoppedAreNull
<1>6. CASE PlainIsrStep
  <2>1. UNCHANGED eventVars
    BY <1>6 DEF PlainIsrStep
  <2>2. CASE Expire
    <3>1. On' \subseteq On /\ expired' \in On
      BY <1>0, <2>2, ExpireStep
    <3> QED BY <1>0, <2>1, <3>1 DEF eventVars, StoppedAreNull
  <2>3. CASE ~Expire
    <3>1. On' = On /\ isr' # "call"
      BY <1>0, <1>6, <2>3, TickStep, ReturnStep, EndStep DEF PlainIsrStep
    <3> QED BY <1>0, <2>1, <3>1 DEF eventVars, StoppedAreNull
  <2> QED BY <2>2, <2>3
<1>7. CASE FetchEvent \/ HandleEvent \/ UNCHANGED allVars
  <2>1. On' = On /\ UNCHANGED <<isr, expired, stopped, id, canceller>>
    BY <1>7 DEF FetchEvent, HandleEvent, allVars, timerVars, On
  <2> QED BY <1>0, <2>1 DEF StoppedAreNull
<1> QED BY <1>1, <1>2, <1>3, <1>4, <1>5, <1>6, <1>7 DEF EventNext

(* Every step of event timers keeps the invariant. *)
LEMMA EventStep ==
    ASSUME TicksFit, CallbacksKeepOut, EventInv, [EventNext]_allVars
    PROVE  EventInv' /\ [Next]_vars
<1>1. TimerInv /\ EventTypes
  BY DEF EventInv
<1>2. [Next]_vars
  BY <1>1, EventIsTimer
<1>3. TimerInv'
  BY <1>1, <1>2, TimerStep
<1> QED BY <1>1, <1>2, <1>3, EventTypesKept, StoppedKept DEF EventInv

(* It holds at first. *)
LEMMA InitEvent ==
    ASSUME TicksFit, EventInit
    PROVE  EventInv /\ Init
<1>1. TimerInv /\ Init
  BY InitTimer DEF EventInit
<1>2. << >> \in Seq(ETimer)
  OBVIOUS
<1> QED BY <1>1, <1>2, EventWords DEF EventInit, EventInv, EventTypes, StoppedAreNull

(* The same of a system that starts timers as event timers                 *)
THEOREM EventTimersExpire ==
    ASSUME TicksFit, CallbacksKeepOut
    PROVE  EventSpec => ExpiresInItsTick /\ CancelledStaysQuiet
<1>1. EventInit => EventInv /\ Init
  BY InitEvent
<1>2. EventInv /\ [EventNext]_allVars => EventInv' /\ [Next]_vars
  BY EventStep
<1>3. EventSpec => Spec
  BY <1>1, <1>2, PTL DEF EventSpec, Spec
<1> QED BY <1>3, TimersExpire, CancelledStayQuiet

--------------------------------------------------------------------------------
(* What has been cancelled is silent.                                      *)

(* The events of a timer in a queue can be counted. *)
LEMMA SentFinite ==
    ASSUME NEW q \in Seq(ETimer), NEW t
    PROVE  IsFiniteSet(Sent(t, q)) /\ Cardinality(Sent(t, q)) \in Nat
<1>1. IsFiniteSet(1 .. Len(q)) /\ Sent(t, q) \subseteq 1 .. Len(q)
  BY LenProperties, FS_Interval DEF Sent
<1> QED BY <1>1, FS_Subset, FS_CardinalityType

(* Taking an event from the queue sends none. *)
LEMMA TailSends ==
    ASSUME NEW q \in Seq(ETimer), q # << >>, NEW t
    PROVE  Cardinality(Sent(t, Tail(q))) <= Cardinality(Sent(t, q))
<1>1. /\ Len(q) \in Nat /\ Len(Tail(q)) = Len(q) - 1
      /\ \A i \in 1 .. Len(Tail(q)) : Tail(q)[i] = q[i + 1]
  BY HeadTailProperties, LenProperties
<1> DEFINE f == [i \in Sent(t, Tail(q)) |-> i + 1]
<1>2. \A i \in Sent(t, Tail(q)) : i \in Nat /\ i + 1 \in Sent(t, q)
  BY <1>1 DEF Sent
<1>3. f \in Injection(Sent(t, Tail(q)), Sent(t, q))
  BY <1>2 DEF Injection, IsInjective
<1> HIDE DEF f
<1> QED BY <1>3, SentFinite, FS_Injection

(* The event of another timer is none of t. *)
LEMMA AppendSends ==
    ASSUME NEW q \in Seq(ETimer), NEW u \in ETimer, NEW t, u # t
    PROVE  Sent(t, Append(q, u)) = Sent(t, q)
<1>1. /\ Len(q) \in Nat /\ Len(Append(q, u)) = Len(q) + 1
      /\ \A i \in 1 .. Len(q) : Append(q, u)[i] = q[i]
      /\ Append(q, u)[Len(q) + 1] = u
  BY AppendProperties, LenProperties
<1>2. \A i \in 1 .. Len(q) + 1 : i \in 1 .. Len(q) \/ i = Len(q) + 1
  BY <1>1
<1>3. \A i \in 1 .. Len(q) : i \in 1 .. Len(q) + 1
  BY <1>1
<1> QED BY <1>1, <1>2, <1>3 DEF Sent

Silent ==
    \A t \in stopped \cap stopped' :
       /\ Cardinality(Sent(t, epaq')) <= Cardinality(Sent(t, epaq))
       /\ handling = t => id[t] = Null

(* No step sends the event of a stopped timer. *)
LEMMA SilentStep ==
    ASSUME TicksFit, CallbacksKeepOut, EventInv, [EventNext]_allVars
    PROVE  Silent
<1> SUFFICES ASSUME NEW t \in stopped PROVE Cardinality(Sent(t, epaq')) <= Cardinality(Sent(t, epaq))
  BY DEF Silent, EventInv, StoppedAreNull
<1>1. epaq \in Seq(ETimer) /\ Cardinality(Sent(t, epaq)) \in Nat
  BY SentFinite DEF EventInv, EventTypes
<1>2. CASE epaq' = epaq
  BY <1>1, <1>2
<1>3. CASE EtimerHandler
  <2>1. expired \in ETimer /\ isr = "call" /\ expired # t
    BY <1>3 DEF EtimerHandler, CallbackReturn, EventInv, StoppedAreNull
  <2>2. Sent(t, Append(epaq, expired)) = Sent(t, epaq)
    BY <1>1, <2>1, AppendSends
  <2> QED BY <1>1, <1>3, <2>2 DEF EtimerHandler
<1>4. CASE FetchEvent
  BY <1>1, <1>4, TailSends DEF FetchEvent
<1>5. EventNext => EtimerHandler \/ FetchEvent \/ epaq' = epaq
  BY DEF EventNext, Schedule, CancelMark, UsePlainTimer, CancelStop, HandleEvent, PlainIsrStep, eventVars
<1>6. UNCHANGED allVars => epaq' = epaq
  BY DEF allVars
<1> QED BY <1>2, <1>3, <1>4, <1>5, <1>6

(* etimer.c:124-126: once netimer_cancel has returned the timer sends      *)
(* nothing, and what it had sent is a null event when it is handled.       *)
THEOREM CancelledAreSilent ==
    ASSUME TicksFit, CallbacksKeepOut
    PROVE  EventSpec => CancelledIsSilent
<1>1. EventInit => EventInv
  BY InitEvent
<1>2. EventInv /\ [EventNext]_allVars => EventInv' /\ [Silent]_allVars
  BY EventStep, SilentStep
<1> QED BY <1>1, <1>2, PTL DEF EventSpec, CancelledIsSilent, Silent
================================================================================
