--------------------------- MODULE EventMemoryProofs ---------------------------
(***************************************************************************)
(* Proofs about Heap and EventMemory for any heaps and static memories of  *)
(* any capacities: the cases of heap_alloc and heap_free keep the blocks   *)
(* end to end and the free list a ring through all free blocks, the walk   *)
(* of heap_alloc finds whatever room there is, and the memories implement  *)
(* Allocator.                                                              *)
(***************************************************************************)
EXTENDS EventMemory, SequenceTheorems, FiniteSetTheorems, WellFoundedInduction, TLAPS

(* Induction, on a set *)
LEMMA SetInduction ==
    ASSUME NEW T, 0 \in T, \A n \in Nat : n \in T => n + 1 \in T
    PROVE  Nat \subseteq T
<1> DEFINE R == OpToRel(<, Nat)
<1>1. IsWellFoundedOn(R, Nat)
  BY NatLessThanWellFounded
<1>2. \A x, y \in Nat : <<x, y>> \in R <=> x < y
  BY DEF OpToRel
<1> HIDE DEF R
<1> SUFFICES ASSUME Nat \ T # {} PROVE FALSE
  OBVIOUS
<1>3. PICK x \in Nat \ T : \A y \in Nat \ T : ~(<<y, x>> \in R)
  BY <1>1, WFMin
<1>4. x # 0 /\ x - 1 \in Nat /\ x - 1 < x
  BY <1>3
<1>5. x - 1 \in T
  BY <1>2, <1>3, <1>4
<1>6. x \in T
  BY <1>4, <1>5
<1> QED BY <1>3, <1>6

(* Numbers have a least one. *)
LEMMA LeastOfNat ==
    ASSUME NEW S \in SUBSET Nat, S # {}
    PROVE  \E m \in S : \A n \in S : m <= n
<1> DEFINE R == OpToRel(<, Nat)
<1>1. IsWellFoundedOn(R, Nat)
  BY NatLessThanWellFounded
<1>2. \A x, y \in Nat : <<x, y>> \in R <=> x < y
  BY DEF OpToRel
<1> HIDE DEF R
<1>3. S \subseteq Nat
  OBVIOUS
<1>4. PICK m \in S : \A n \in S : ~(<<n, m>> \in R)
  BY <1>1, <1>3, WFMin, Zenon
<1>5. \A n \in S : n \in Nat /\ m \in Nat /\ ~(n < m)
  BY <1>2, <1>3, <1>4
<1>6. \A n \in S : m <= n
  BY <1>5
<1> QED BY <1>6

(* Below a bound they have a greatest one. *)
LEMMA LastUpTo ==
    ASSUME NEW S \in SUBSET Nat, NEW x \in Nat, \E c \in S : c <= x
    PROVE  \E c \in S : c <= x /\ \A d \in S : d <= x => d <= c
<1> DEFINE R == {x - c : c \in {d \in S : d <= x}}
<1>1. \A c \in S : c \in Nat
  OBVIOUS
<1>2. R \in SUBSET Nat /\ R # {}
  <2>1. \A c \in {d \in S : d <= x} : x - c \in Nat
    <3> TAKE c \in {d \in S : d <= x}
    <3>1. c \in Nat /\ c <= x
      BY <1>1
    <3> QED BY <3>1
  <2>2. PICK c \in S : c <= x
    OBVIOUS
  <2>3. x - c \in R
    BY <2>2
  <2> QED BY <2>1, <2>3
<1>3. PICK r \in R : \A q \in R : r <= q
  <2> HIDE DEF R
  <2> QED BY <1>2, LeastOfNat
<1>4. PICK c \in S : c <= x /\ r = x - c
  OBVIOUS
<1>5. ASSUME NEW d \in S, d <= x PROVE d <= c
  <2>1. x - d \in R
    BY <1>5
  <2>2. x - c <= x - d
    BY <1>3, <1>4, <2>1
  <2> QED BY <1>1, <2>2
<1> QED BY <1>4, <1>5

--------------------------------------------------------------------------------
(* Rings: the links f and p of the nodes L lead around, through all of them. *)
RingOn(L, s, f, p) ==
    /\ s \in L /\ f \in [L -> L] /\ p \in [L -> L]
    /\ \A x \in L : p[f[x]] = x /\ f[p[x]] = x
    /\ \A S \in SUBSET L : s \in S /\ (\A x \in S : f[x] \in S) => S = L

(* Only the sentinel of an empty ring links itself. *)
LEMMA RingTurns ==
    ASSUME NEW L, NEW s, NEW f, NEW p, RingOn(L, s, f, p), NEW x \in L, x # s
    PROVE  f[x] # x /\ p[x] # x
<1> SUFFICES ASSUME f[x] = x PROVE FALSE
  BY DEF RingOn
<1>1. \A y \in L \ {x} : f[y] \in L \ {x}
  BY DEF RingOn
<1>2. L \ {x} = L
  BY <1>1 DEF RingOn
<1> QED BY <1>2

(* A node is taken out of a ring. *)
LEMMA RingRemove ==
    ASSUME NEW L, NEW s, NEW f, NEW p, RingOn(L, s, f, p), NEW b \in L, b # s
    PROVE  RingOn(L \ {b}, s, [x \in L \ {b} |-> IF x = p[b] THEN f[b] ELSE f[x]],
                  [x \in L \ {b} |-> IF x = f[b] THEN p[b] ELSE p[x]])
<1> DEFINE K == L \ {b}
           g == [x \in K |-> IF x = p[b] THEN f[b] ELSE f[x]]
           q == [x \in K |-> IF x = f[b] THEN p[b] ELSE p[x]]
<1>1. f[b] # b /\ p[b] # b /\ f[b] \in K /\ p[b] \in K
  BY RingTurns DEF RingOn
<1>2. \A x \in L : f[x] = b <=> x = p[b]
  BY DEF RingOn
<1>3. \A x \in L : p[x] = b <=> x = f[b]
  BY DEF RingOn
<1>4. g \in [K -> K] /\ q \in [K -> K] /\ s \in K
  BY <1>1, <1>2, <1>3 DEF RingOn
<1>5. \A x \in K : q[g[x]] = x /\ g[q[x]] = x
  BY <1>1, <1>2, <1>3 DEF RingOn
<1>6. ASSUME NEW S \in SUBSET K, s \in S, \A x \in S : g[x] \in S PROVE S = K
  <2> DEFINE Z == S \cup (IF p[b] \in S THEN {b} ELSE {})
  <2>1. \A x \in Z : f[x] \in Z
    BY <1>1, <1>2, <1>6
  <2>2. Z \in SUBSET L /\ s \in Z
    BY <1>6
  <2>3. Z = L
    <3> HIDE DEF Z
    <3> QED BY <2>1, <2>2 DEF RingOn
  <2> QED BY <2>3
<1> HIDE DEF g, q, K
<1>7. RingOn(K, s, g, q)
  BY <1>4, <1>5, <1>6 DEF RingOn
<1> QED BY <1>7 DEF g, q, K

(* A node takes the place of another. *)
LEMMA RingReplace ==
    ASSUME NEW L, NEW s, NEW f, NEW p, RingOn(L, s, f, p), NEW a \in L, a # s, NEW b, b \notin L
    PROVE  RingOn((L \ {a}) \cup {b}, s,
                  [x \in (L \ {a}) \cup {b} |->
                      IF x = b THEN f[a] ELSE IF x = p[a] THEN b ELSE f[x]],
                  [x \in (L \ {a}) \cup {b} |->
                      IF x = b THEN p[a] ELSE IF x = f[a] THEN b ELSE p[x]])
<1> DEFINE K == (L \ {a}) \cup {b}
           g == [x \in K |-> IF x = b THEN f[a] ELSE IF x = p[a] THEN b ELSE f[x]]
           q == [x \in K |-> IF x = b THEN p[a] ELSE IF x = f[a] THEN b ELSE p[x]]
<1>1. f[a] # a /\ p[a] # a /\ f[a] \in K /\ p[a] \in K /\ f[a] \in L /\ p[a] \in L
  BY RingTurns DEF RingOn
<1>2. \A x \in L : f[x] = a <=> x = p[a]
  BY DEF RingOn
<1>3. \A x \in L : p[x] = a <=> x = f[a]
  BY DEF RingOn
<1>4. g \in [K -> K] /\ q \in [K -> K] /\ s \in K
  BY <1>1, <1>2, <1>3 DEF RingOn
<1>5. \A x \in K : q[g[x]] = x /\ g[q[x]] = x
  BY <1>1, <1>2, <1>3 DEF RingOn
<1>6. ASSUME NEW S \in SUBSET K, s \in S, \A x \in S : g[x] \in S PROVE S = K
  <2> DEFINE Z == (S \ {b}) \cup (IF b \in S THEN {a} ELSE {})
  <2>1. \A x \in Z : f[x] \in Z
    <3> TAKE x \in Z
    <3>1. CASE x = a
      BY <1>1, <1>6, <3>1
    <3>2. CASE x # a
      <4>1. x \in S /\ x \in L /\ x # b /\ x \in K
        BY <3>2
      <4>2. CASE x = p[a]
        BY <1>2, <1>6, <4>1, <4>2
      <4>3. CASE x # p[a]
        <5>1. g[x] = f[x] /\ f[x] # a /\ f[x] \in L
          BY <1>2, <4>1, <4>3 DEF RingOn
        <5> QED BY <1>6, <4>1, <5>1
      <4> QED BY <4>2, <4>3
    <3> QED BY <3>1, <3>2
  <2>2. Z \in SUBSET L /\ s \in Z
    BY <1>6 DEF RingOn
  <2>3. Z = L
    <3> HIDE DEF Z
    <3> QED BY <2>1, <2>2 DEF RingOn
  <2> QED BY <2>3
<1> HIDE DEF g, q, K
<1>7. RingOn(K, s, g, q)
  BY <1>4, <1>5, <1>6 DEF RingOn
<1> QED BY <1>7 DEF g, q, K

(* A node is put behind the sentinel. *)
LEMMA RingInsert ==
    ASSUME NEW L, NEW s, NEW f, NEW p, RingOn(L, s, f, p), NEW b, b \notin L
    PROVE  RingOn(L \cup {b}, s,
                  [x \in L \cup {b} |-> IF x = b THEN f[s] ELSE IF x = s THEN b ELSE f[x]],
                  [x \in L \cup {b} |-> IF x = b THEN s ELSE IF x = f[s] THEN b ELSE p[x]])
<1> DEFINE K == L \cup {b}
           g == [x \in K |-> IF x = b THEN f[s] ELSE IF x = s THEN b ELSE f[x]]
           q == [x \in K |-> IF x = b THEN s ELSE IF x = f[s] THEN b ELSE p[x]]
<1>1. s \in L /\ f[s] \in L /\ f[s] # b /\ s # b
  BY DEF RingOn
<1>2. \A x \in L : f[x] = f[s] <=> x = s
  BY DEF RingOn
<1>3. \A x \in L : p[x] = s <=> x = f[s]
  BY DEF RingOn
<1>4. g \in [K -> K] /\ q \in [K -> K] /\ s \in K
  BY <1>1, <1>2, <1>3 DEF RingOn
<1>5. \A x \in K : q[g[x]] = x /\ g[q[x]] = x
  BY <1>1, <1>2, <1>3 DEF RingOn
<1>6. ASSUME NEW S \in SUBSET K, s \in S, \A x \in S : g[x] \in S PROVE S = K
  <2>0. b \in S /\ f[s] \in S
    BY <1>1, <1>6
  <2>1. \A x \in S \ {b} : f[x] \in S \ {b}
    <3> TAKE x \in S \ {b}
    <3>1. x \in L /\ x \in K /\ f[x] \in L
      BY DEF RingOn
    <3>2. x # s => g[x] = f[x]
      BY <3>1
    <3> HIDE DEF g
    <3> QED BY <1>1, <1>6, <2>0, <3>1, <3>2
  <2>2. S \ {b} \in SUBSET L /\ s \in S \ {b}
    BY <1>1, <1>6
  <2>3. S \ {b} = L
    BY <2>1, <2>2 DEF RingOn
  <2> QED BY <2>0, <2>3
<1> HIDE DEF g, q, K
<1>7. RingOn(K, s, g, q)
  BY <1>4, <1>5, <1>6 DEF RingOn
<1> QED BY <1>7 DEF g, q, K

--------------------------------------------------------------------------------
(* Boundary tags: splits, merges and changes of a block's mark *)

(* The fields of a heap *)
Fields(h) ==
    h \in [base : Nat, size : {h.size}, phyPrev : {h.phyPrev}, next : {h.next}, prev : {h.prev}]
IsHeap(h) == Fields(h) /\ h.size \in [DOMAIN h.size -> Int]

(* What Tiled says of the tags of a heap that ends in s *)
Wide(z) == IF z < 0 THEN -z ELSE z
Tiles(s, D, z, back) ==
    /\ D \subseteq 0 .. s /\ 0 \in D /\ s \in D /\ s # 0
    /\ z[s] = -1 /\ back[0] = s
    /\ \A b \in D \ {s} :
          /\ z[b] \in Int /\ Wide(z[b]) >= 2 /\ b + Wide(z[b]) + 2 \in D
          /\ back[b + Wide(z[b]) + 2] = b
          /\ \A c \in D : c <= b \/ c >= b + Wide(z[b]) + 2
          /\ z[b] > 0 => ~(z[b + Wide(z[b]) + 2] > 0)

(* Tiled, of its fields *)
LEMMA TiledIs ==
    ASSUME NEW h
    PROVE  Tiled(h) <=> DOMAIN h.phyPrev = DOMAIN h.size
                        /\ Tiles(h.base, DOMAIN h.size, h.size, h.phyPrev)
BY DEF Tiled, TiledBlock, Tiles, Wide, Words, After, Blocks, IsFree, Phy

(* Every block but the first has one before it. *)
LEMMA BackIs ==
    ASSUME NEW s \in Nat, NEW D, NEW z, NEW back, Tiles(s, D, z, back), NEW b \in D, b # 0
    PROVE  back[b] \in D \ {s} /\ back[b] + Wide(z[back[b]]) + 2 = b
<1>1. D \in SUBSET Nat /\ b \in Nat /\ b - 1 \in Nat /\ 0 \in D /\ 0 <= b - 1 /\ b <= s
  BY DEF Tiles
<1>2. PICK c \in D : c <= b - 1 /\ \A d \in D : d <= b - 1 => d <= c
  BY <1>1, LastUpTo
<1>3. c \in D \ {s} /\ c \in Nat
  BY <1>1, <1>2
<1>4. PICK w \in Nat : w = Wide(z[c]) /\ w >= 2
  BY <1>3 DEF Tiles, Wide
<1>5. c + w + 2 \in D /\ back[c + w + 2] = c /\ (b <= c \/ b >= c + w + 2)
  BY <1>3, <1>4 DEF Tiles
<1>6. c + w + 2 = b
  <2>1. b >= c + w + 2
    BY <1>1, <1>2, <1>3, <1>5
  <2>2. ~(c + w + 2 <= b - 1)
    BY <1>2, <1>3, <1>4, <1>5
  <2> QED BY <1>1, <1>3, <1>4, <2>1, <2>2
<1> QED BY <1>3, <1>4, <1>5, <1>6

(* The facts about one block *)
LEMMA TileIs ==
    ASSUME NEW s \in Nat, NEW D, NEW z, NEW back, Tiles(s, D, z, back), NEW b \in D \ {s}
    PROVE  /\ b \in Nat /\ b < s /\ z[b] \in Int /\ Wide(z[b]) \in Nat /\ Wide(z[b]) >= 2
           /\ z[b] # 0 /\ (z[b] > 0 => Wide(z[b]) = z[b]) /\ (z[b] < 0 => Wide(z[b]) = -z[b])
           /\ b + Wide(z[b]) + 2 \in D /\ b + Wide(z[b]) + 2 <= s
           /\ back[b + Wide(z[b]) + 2] = b
           /\ \A c \in D : c \in Nat /\ (c <= b \/ c >= b + Wide(z[b]) + 2)
           /\ z[b] > 0 => ~(z[b + Wide(z[b]) + 2] > 0)
BY DEF Tiles, Wide

(* The tags after a change: b is split into n words and the rest, *)
SplitTags(D, z, back, b, n, y, q) ==
    \A x \in D \cup {b + n + 2} :
       /\ y[x] = IF x = b + n + 2 THEN z[b] - n - 2 ELSE IF x = b THEN -n ELSE z[x]
       /\ q[x] = IF x = b + n + 2 THEN b ELSE IF x = b + z[b] + 2 THEN b + n + 2 ELSE back[x]

(* Both parts lie end to end with the blocks around them. *)
LEMMA TilesSplit ==
    ASSUME NEW s \in Nat, NEW D, NEW z, NEW back, Tiles(s, D, z, back), NEW b \in D \ {s},
           NEW n \in Nat, n >= 2, z[b] > n + 4, NEW y, NEW q, SplitTags(D, z, back, b, n, y, q)
    PROVE  Tiles(s, D \cup {b + n + 2}, y, q) /\ b + n + 2 \notin D /\ b + n + 2 < s
<1>t. PICK t : t = b + n + 2
  OBVIOUS
<1>a. PICK a : a = b + z[b] + 2
  OBVIOUS
<1>0. \A x \in D \cup {t} : /\ y[x] = IF x = t THEN z[b] - n - 2 ELSE IF x = b THEN -n ELSE z[x]
                           /\ q[x] = IF x = t THEN b ELSE IF x = a THEN t ELSE back[x]
  BY <1>t, <1>a DEF SplitTags
<1>1. /\ b \in Nat /\ b < s /\ z[b] \in Int /\ a \in D /\ a <= s /\ Wide(z[b]) = z[b]
      /\ back[a] = b /\ ~(z[a] > 0) /\ \A c \in D : c \in Nat /\ (c <= b \/ c >= a)
  BY <1>a, TileIs
<1>2. t \in Nat /\ b < t /\ t < a /\ t \notin D /\ t < s /\ t # 0 /\ a # b
  BY <1>1, <1>a, <1>t
<1>3. Wide(-n) = n /\ Wide(z[b] - n - 2) = z[b] - n - 2 /\ z[b] - n - 2 > 2
  BY <1>1 DEF Wide
<1>4. /\ D \cup {t} \subseteq 0 .. s /\ 0 \in D \cup {t} /\ s \in D \cup {t} /\ s # 0
      /\ y[s] = -1 /\ q[0] = s
  <2>1. D \subseteq 0 .. s /\ 0 \in D /\ s \in D /\ s # 0 /\ z[s] = -1 /\ back[0] = s
    BY DEF Tiles
  <2>2. a # 0
    BY <1>1, <1>2
  <2> QED BY <1>0, <1>1, <1>2, <2>1, <2>2
<1>5. ASSUME NEW c \in (D \cup {t}) \ {s}
      PROVE  /\ y[c] \in Int /\ Wide(y[c]) >= 2 /\ c + Wide(y[c]) + 2 \in D \cup {t}
             /\ q[c + Wide(y[c]) + 2] = c
             /\ \A d \in D \cup {t} : d <= c \/ d >= c + Wide(y[c]) + 2
             /\ y[c] > 0 => ~(y[c + Wide(y[c]) + 2] > 0)
  <2>1. CASE c = t
    <3>1. y[c] = z[b] - n - 2 /\ c + Wide(y[c]) + 2 = a
      BY <1>0, <1>1, <1>2, <1>3, <1>a, <1>t, <2>1
    <3>2. q[a] = t /\ ~(y[a] > 0)
      BY <1>0, <1>1, <1>2
    <3>3. \A d \in D \cup {t} : d <= c \/ d >= a
      BY <1>1, <1>2, <2>1
    <3> QED BY <1>1, <1>3, <2>1, <3>1, <3>2, <3>3
  <2>2. CASE c = b
    <3>1. y[c] = -n /\ c + Wide(y[c]) + 2 = t
      BY <1>0, <1>1, <1>2, <1>3, <1>t, <2>2
    <3>2. q[t] = b
      BY <1>0, <1>2
    <3>3. \A d \in D \cup {t} : d <= c \/ d >= t
      BY <1>1, <1>2, <2>2
    <3> QED BY <1>1, <1>3, <2>2, <3>1, <3>2, <3>3
  <2>3. CASE c # t /\ c # b
    <3>0. c \in D \ {s}
      BY <2>3
    <3>1. PICK w : w = c + Wide(z[c]) + 2
      OBVIOUS
    <3>2. /\ c \in Nat /\ c < s /\ z[c] \in Int /\ Wide(z[c]) \in Nat /\ Wide(z[c]) >= 2
          /\ w \in D /\ w <= s /\ back[w] = c /\ (z[c] > 0 => ~(z[w] > 0))
          /\ \A d \in D : d \in Nat /\ (d <= c \/ d >= w)
      BY <3>0, <3>1, TileIs
    <3>3. y[c] = z[c] /\ c + Wide(y[c]) + 2 = w
      BY <1>0, <2>3, <3>0, <3>1
    <3>4. w # a /\ w # t
      BY <1>1, <1>2, <2>3, <3>2
    <3>5. q[w] = c /\ (y[c] > 0 => ~(y[w] > 0))
      <4>1. y[w] = IF w = b THEN -n ELSE z[w]
        BY <1>0, <3>2, <3>4
      <4> QED BY <1>0, <3>2, <3>3, <3>4, <4>1
    <3>6. t <= c \/ t >= w
      <4>1. b \in D
        OBVIOUS
      <4>2. b <= c \/ b >= w
        BY <3>2
      <4>3. c <= b \/ c >= a
        BY <1>1, <3>0
      <4> QED BY <1>1, <1>2, <2>3, <3>2, <4>2, <4>3
    <3> QED BY <3>2, <3>3, <3>5, <3>6
  <2> QED BY <2>1, <2>2, <2>3
<1>6. Tiles(s, D \cup {t}, y, q)
  BY <1>4, <1>5 DEF Tiles
<1> QED BY <1>2, <1>6, <1>t

(* b becomes free or allocated, *)
FlipTag(D, z, b, y) == \A x \in D : y[x] = IF x = b THEN -z[b] ELSE z[x]

(* The blocks lie as they did; a block may become free if neither neighbour is. *)
LEMMA TilesFlip ==
    ASSUME NEW s \in Nat, NEW D, NEW z, NEW back, Tiles(s, D, z, back), NEW b \in D \ {s},
           z[b] < 0 => ~(z[b + Wide(z[b]) + 2] > 0) /\ ~(z[back[b]] > 0), NEW y,
           FlipTag(D, z, b, y)
    PROVE  Tiles(s, D, y, back) /\ Wide(y[b]) = Wide(z[b])
<1>0. \A x \in D : y[x] = IF x = b THEN -z[b] ELSE z[x]
  BY DEF FlipTag
<1>1. b \in Nat /\ b < s /\ z[b] \in Int /\ Wide(-z[b]) = Wide(z[b])
  BY TileIs DEF Wide
<1>2. ASSUME NEW c \in D \ {s}
      PROVE  /\ y[c] \in Int /\ Wide(y[c]) >= 2 /\ c + Wide(y[c]) + 2 \in D
             /\ back[c + Wide(y[c]) + 2] = c
             /\ \A d \in D : d <= c \/ d >= c + Wide(y[c]) + 2
             /\ y[c] > 0 => ~(y[c + Wide(y[c]) + 2] > 0)
  <2>1. PICK w : w = c + Wide(z[c]) + 2
    OBVIOUS
  <2>2. /\ c \in Nat /\ c < s /\ z[c] \in Int /\ Wide(z[c]) \in Nat /\ Wide(z[c]) >= 2
        /\ w \in D /\ w <= s /\ back[w] = c /\ (z[c] > 0 => ~(z[w] > 0))
        /\ \A d \in D : d \in Nat /\ (d <= c \/ d >= w)
    BY <2>1, TileIs
  <2>3. Wide(y[c]) = Wide(z[c]) /\ y[c] \in Int
    BY <1>0, <1>1, <2>2
  <2>4. y[c] > 0 => ~(y[w] > 0)
    <3>1. w # c /\ w \in Nat
      BY <2>1, <2>2
    <3>2. CASE c = b
      BY <1>0, <1>1, <2>1, <2>2, <3>1, <3>2
    <3>3. CASE w = b
      BY <1>0, <1>1, <2>2, <3>1, <3>3
    <3>4. CASE c # b /\ w # b
      BY <1>0, <2>2, <3>4
    <3> QED BY <3>2, <3>3, <3>4
  <2> QED BY <2>1, <2>2, <2>3, <2>4
<1>3. y[s] = -1
  BY <1>0 DEF Tiles
<1> QED BY <1>0, <1>1, <1>2, <1>3 DEF Tiles

(* b takes in the block a behind it, which ends at e, and is free. *)
MergeTags(D, z, back, b, a, e, y, q) ==
    \A x \in D \ {a} : /\ y[x] = IF x = b THEN Wide(z[b]) + Wide(z[a]) + 2 ELSE z[x]
                       /\ q[x] = IF x = e THEN b ELSE back[x]

(* b, allocated or free, is merged with the block a behind it. *)
Merges(s, D, z, back, b, a, e, y, q) ==
    /\ s \in Nat /\ Tiles(s, D, z, back) /\ b \in D \ {s} /\ a \in D \ {s} /\ e \in D
    /\ b + Wide(z[b]) + 2 = a /\ a + Wide(z[a]) + 2 = e
    /\ ~(z[e] > 0) /\ ~(z[back[b]] > 0) /\ MergeTags(D, z, back, b, a, e, y, q)

(* The merged block is free and ends where a did. *)
LEMMA TilesMerge ==
    ASSUME NEW s, NEW D, NEW z, NEW back, NEW b, NEW a, NEW e, NEW y, NEW q,
           Merges(s, D, z, back, b, a, e, y, q)
    PROVE  /\ Tiles(s, D \ {a}, y, q) /\ Wide(y[b]) = y[b] /\ y[b] > 0
           /\ b + y[b] + 2 = e /\ e \in D \ {a} /\ q[b] = back[b] /\ b # a /\ b \in D \ {a}
<1> USE DEF Merges
<1>0. \A x \in D \ {a} : /\ y[x] = IF x = b THEN Wide(z[b]) + Wide(z[a]) + 2 ELSE z[x]
                         /\ q[x] = IF x = e THEN b ELSE back[x]
  BY DEF MergeTags
<1>1. /\ b \in Nat /\ b < s /\ z[b] \in Int /\ Wide(z[b]) \in Nat /\ Wide(z[b]) >= 2
      /\ back[a] = b /\ \A c \in D : c \in Nat /\ (c <= b \/ c >= a)
  BY TileIs
<1>2. /\ a \in Nat /\ a < s /\ Wide(z[a]) \in Nat /\ Wide(z[a]) >= 2
      /\ e \in D /\ e <= s /\ back[e] = a /\ \A c \in D : c <= a \/ c >= e
  BY TileIs
<1>3. b < a /\ a < e
  BY <1>1, <1>2
<1>4. y[b] = Wide(z[b]) + Wide(z[a]) + 2 /\ Wide(y[b]) = y[b] /\ y[b] > 2 /\ b + y[b] + 2 = e
      /\ y[b] \in Int
  BY <1>0, <1>1, <1>2, <1>3 DEF Wide
<1>5. /\ D \ {a} \subseteq 0 .. s /\ 0 \in D \ {a} /\ s \in D \ {a} /\ s # 0
      /\ y[s] = -1 /\ q[0] = s
  <2>1. D \subseteq 0 .. s /\ 0 \in D /\ s \in D /\ s # 0 /\ z[s] = -1 /\ back[0] = s
    BY DEF Tiles
  <2> QED BY <1>0, <1>1, <1>2, <1>3, <2>1
<1>6. ASSUME NEW c \in (D \ {a}) \ {s}
      PROVE  /\ y[c] \in Int /\ Wide(y[c]) >= 2 /\ c + Wide(y[c]) + 2 \in D \ {a}
             /\ q[c + Wide(y[c]) + 2] = c
             /\ \A d \in D \ {a} : d <= c \/ d >= c + Wide(y[c]) + 2
             /\ y[c] > 0 => ~(y[c + Wide(y[c]) + 2] > 0)
  <2>1. CASE c = b
    <3>1. c + Wide(y[c]) + 2 = e /\ e \in D \ {a} /\ q[e] = b /\ ~(y[e] > 0)
      BY <1>0, <1>1, <1>2, <1>3, <1>4, <2>1
    <3>2. \A d \in D \ {a} : d <= b \/ d >= e
      BY <1>0, <1>1, <1>2, <1>3
    <3>3. y[c] \in Int /\ Wide(y[c]) >= 2
      BY <1>0, <1>4, <2>1
    <3> QED BY <1>0, <2>1, <3>1, <3>2, <3>3
  <2>2. CASE c # b
    <3>1. PICK w : w = c + Wide(z[c]) + 2
      OBVIOUS
    <3>2. /\ c \in Nat /\ c < s /\ z[c] \in Int /\ Wide(z[c]) \in Nat /\ Wide(z[c]) >= 2
          /\ w \in D /\ w <= s /\ back[w] = c /\ (z[c] > 0 => ~(z[w] > 0))
          /\ \A d \in D : d \in Nat /\ (d <= c \/ d >= w)
      BY <1>0, <3>1, TileIs
    <3>3. y[c] = z[c] /\ c + Wide(y[c]) + 2 = w
      BY <1>0, <2>2, <3>1
    <3>4. w # a /\ w # e
      BY <1>0, <1>1, <1>2, <2>2, <3>2
    <3>5. q[w] = c
      BY <1>0, <3>2, <3>4
    <3>6. y[c] > 0 => ~(y[w] > 0)
      <4>1. CASE w = b
        BY <1>0, <3>2, <3>3, <4>1
      <4>2. CASE w # b
        BY <1>0, <3>2, <3>3, <3>4, <4>2
      <4> QED BY <1>0, <4>1, <4>2
    <3> QED BY <1>0, <3>2, <3>3, <3>4, <3>5, <3>6
  <2> QED BY <1>0, <2>1, <2>2
<1>7. Tiles(s, D \ {a}, y, q)
  BY <1>0, <1>5, <1>6 DEF Tiles
<1> QED BY <1>0, <1>2, <1>3, <1>4, <1>7

--------------------------------------------------------------------------------
(* heap_alloc *)

(* The blocks of a heap lie end to end and the free ones are on its ring. *)
Listed(h) == FreeBlocks(h) \cup {h.base}
HeapOK(h) ==
    /\ IsHeap(h) /\ DOMAIN h.phyPrev = DOMAIN h.size
    /\ Tiles(h.base, DOMAIN h.size, h.size, h.phyPrev)
    /\ RingOn(Listed(h), h.base, h.next, h.prev)

(* The free blocks and those in use, by their tags *)
LEMMA BlocksAre ==
    ASSUME NEW h, HeapOK(h)
    PROVE  /\ \A x : x \in FreeBlocks(h) <=> x \in DOMAIN h.size /\ x # h.base /\ h.size[x] > 0
           /\ \A x : x \in InUse(h) <=> x \in DOMAIN h.size /\ x # h.base /\ ~(h.size[x] > 0)
           /\ \A x \in DOMAIN h.size \ {h.base} : h.size[x] \in Int /\ h.size[x] # 0
           /\ ~(h.size[h.base] > 0) /\ h.base \in Nat /\ h.base \in DOMAIN h.size
           /\ DOMAIN h.next = Listed(h) /\ DOMAIN h.prev = Listed(h)
           /\ DOMAIN h.phyPrev = DOMAIN h.size
           /\ \A x : Words(h, x) = Wide(h.size[x]) /\ After(h, x) = x + Wide(h.size[x]) + 2
<1>1. /\ \A x : x \in FreeBlocks(h) <=> x \in DOMAIN h.size /\ x # h.base /\ h.size[x] > 0
      /\ \A x : x \in InUse(h) <=> x \in DOMAIN h.size /\ x # h.base /\ ~(h.size[x] > 0)
  BY DEF FreeBlocks, InUse, Blocks, IsFree
<1>2. h.base \in Nat /\ h.base \in DOMAIN h.size /\ ~(h.size[h.base] > 0)
  BY DEF HeapOK, IsHeap, Fields, Tiles
<1>3. \A x \in DOMAIN h.size \ {h.base} : h.size[x] \in Int /\ h.size[x] # 0
  <2>1. Tiles(h.base, DOMAIN h.size, h.size, h.phyPrev)
    BY DEF HeapOK
  <2> QED BY <1>2, <2>1, TileIs
<1>4. DOMAIN h.next = Listed(h) /\ DOMAIN h.prev = Listed(h) /\ DOMAIN h.phyPrev = DOMAIN h.size
  BY DEF HeapOK, RingOn
<1> QED BY <1>1, <1>2, <1>3, <1>4 DEF Words, After, Wide, Phy

(* A block is split. *)
LEMMA SplitKeeps ==
    ASSUME NEW h, HeapOK(h), NEW b \in FreeBlocks(h), NEW n \in Nat, n >= 2, h.size[b] > n + Block
    PROVE  LET g == Split(h, b, n)
           IN  /\ HeapOK(g) /\ g.base = h.base /\ InUse(g) = InUse(h) \cup {b}
               /\ \A x \in InUse(h) : Words(g, x) = Words(h, x)
               /\ Words(g, b) = n
<1> DEFINE g == Split(h, b, n)
           s == h.base
           D == DOMAIN h.size
           L == Listed(h)
<1>t. PICK t : t = b + n + 2
  OBVIOUS
<1>a. PICK a : a = b + h.size[b] + 2
  OBVIOUS
<1>1. /\ b \in D \ {s} /\ h.size[b] > 0 /\ s \in Nat /\ h.size[b] > n + 4 /\ b \in L /\ b # s
      /\ h.size[b] \in Int /\ Tiles(s, D, h.size, h.phyPrev)
  BY BlocksAre DEF HeapOK, Listed, Block
<1>2. After(h, b) = a /\ b + n + Phy = t
  BY <1>a, <1>t, <1>1, BlocksAre DEF Wide, Phy
<1>3. /\ DOMAIN h.next = L /\ DOMAIN h.prev = L
      /\ RingOn(L, s, h.next, h.prev)
  BY BlocksAre DEF HeapOK
<1>4. /\ g.base = s /\ DOMAIN g.size = D \cup {t} /\ DOMAIN g.phyPrev = D \cup {t}
      /\ \A x \in D \cup {t} :
            /\ g.size[x] = IF x = t THEN h.size[b] - n - 2 ELSE IF x = b THEN -n ELSE h.size[x]
            /\ g.phyPrev[x] = IF x = t THEN b ELSE IF x = a THEN t ELSE h.phyPrev[x]
  BY <1>2 DEF Split, Phy
<1>5. /\ g.next = [x \in (L \ {b}) \cup {t} |->
                      IF x = t THEN h.next[b] ELSE IF x = h.prev[b] THEN t ELSE h.next[x]]
      /\ g.prev = [x \in (L \ {b}) \cup {t} |->
                      IF x = t THEN h.prev[b] ELSE IF x = h.next[b] THEN t ELSE h.prev[x]]
  BY <1>2, <1>3 DEF Split, Phy
<1>f. Fields(g)
  BY <1>1 DEF Fields, Split
<1>6. \A x \in D : h.size[x] \in Int
  BY DEF HeapOK, IsHeap
<1>7. g.size \in [D \cup {t} -> Int]
  <2>1. g.size = [x \in D \cup {t} |-> g.size[x]]
    BY <1>2, <1>4 DEF Split
  <2>2. \A x \in D \cup {t} : g.size[x] \in Int
    BY <1>1, <1>4, <1>6
  <2> QED BY <2>1, <2>2
<1> HIDE DEF g, D, L
<1>8. Tiles(s, D \cup {t}, g.size, g.phyPrev) /\ t \notin D /\ t < s
  <2>1. SplitTags(D, h.size, h.phyPrev, b, n, g.size, g.phyPrev)
    BY <1>4, <1>t, <1>a, Zenon DEF SplitTags
  <2>2. /\ Tiles(s, D \cup {b + n + 2}, g.size, g.phyPrev)
        /\ b + n + 2 \notin D /\ b + n + 2 < s
    BY <1>1, <2>1, TilesSplit
  <2> QED BY <2>2, <1>t
<1>9. IsHeap(g)
  BY <1>4, <1>7, <1>f DEF IsHeap
<1>10. /\ \A x : x \in FreeBlocks(h) <=> x \in D /\ x # s /\ h.size[x] > 0
       /\ \A x : x \in InUse(h) <=> x \in D /\ x # s /\ ~(h.size[x] > 0)
  BY BlocksAre DEF D
<1>11. /\ \A x : x \in FreeBlocks(g) <=> x \in D \cup {t} /\ x # s /\ g.size[x] > 0
       /\ \A x : x \in InUse(g) <=> x \in D \cup {t} /\ x # s /\ ~(g.size[x] > 0)
  BY <1>4 DEF FreeBlocks, InUse, Blocks, IsFree
<1>12. b # t /\ t # s /\ g.size[t] > 0 /\ ~(g.size[b] > 0)
  BY <1>1, <1>4, <1>8
<1>13. FreeBlocks(g) = (FreeBlocks(h) \ {b}) \cup {t} /\ InUse(g) = InUse(h) \cup {b}
  BY <1>1, <1>4, <1>8, <1>10, <1>11, <1>12
<1>14. Listed(g) = (L \ {b}) \cup {t}
  BY <1>1, <1>4, <1>12, <1>13 DEF Listed, L
<1>15. t \notin L
  BY <1>8, <1>10, <1>12, <1>1 DEF Listed, L
<1>16. RingOn(Listed(g), s, g.next, g.prev)
  BY <1>1, <1>3, <1>5, <1>14, <1>15, RingReplace
<1>17. HeapOK(g)
  BY <1>4, <1>8, <1>9, <1>16 DEF HeapOK
<1>18. \A x \in InUse(h) : Words(g, x) = Words(h, x)
  BY <1>1, <1>4, <1>8, <1>10 DEF Words
<1>19. Words(g, b) = n
  BY <1>1, <1>4, <1>12 DEF Words
<1> QED BY <1>4, <1>13, <1>17, <1>18, <1>19 DEF g

(* A block is taken whole. *)
LEMMA TakeWholeKeeps ==
    ASSUME NEW h, HeapOK(h), NEW b \in FreeBlocks(h)
    PROVE  LET g == TakeWhole(h, b)
           IN  /\ HeapOK(g) /\ g.base = h.base /\ InUse(g) = InUse(h) \cup {b}
               /\ \A x \in InUse(h) : Words(g, x) = Words(h, x)
               /\ Words(g, b) = h.size[b]
<1> DEFINE g == TakeWhole(h, b)
           s == h.base
           D == DOMAIN h.size
           L == Listed(h)
<1>1. /\ b \in D \ {s} /\ h.size[b] > 0 /\ s \in Nat /\ b \in L /\ b # s
      /\ h.size[b] \in Int /\ Tiles(s, D, h.size, h.phyPrev)
  BY BlocksAre DEF HeapOK, Listed
<1>2. /\ DOMAIN h.next = L /\ DOMAIN h.prev = L /\ DOMAIN h.phyPrev = D
      /\ RingOn(L, s, h.next, h.prev)
  BY BlocksAre DEF HeapOK
<1>3. Fields(h) /\ h.size \in [D -> Int]
  BY DEF HeapOK, IsHeap
<1>4. /\ g.base = s /\ g.size = [h.size EXCEPT ![b] = -@] /\ g.phyPrev = h.phyPrev
      /\ g.next = UnlinkNext(h, b) /\ g.prev = UnlinkPrev(h, b)
  BY <1>3 DEF Fields, TakeWhole
<1>f. Fields(g)
  <2>1. g \in [base : Nat, size : {[h.size EXCEPT ![b] = -@]}, phyPrev : {h.phyPrev},
                next : {UnlinkNext(h, b)}, prev : {UnlinkPrev(h, b)}]
    BY <1>3 DEF Fields, TakeWhole
  <2> QED BY <1>4, <2>1, Zenon DEF Fields
<1>5. /\ g.base = s /\ g.phyPrev = h.phyPrev /\ g.size \in [D -> Int]
      /\ \A x \in D : g.size[x] = IF x = b THEN -h.size[b] ELSE h.size[x]
      /\ g.next = [x \in L \ {b} |-> IF x = h.prev[b] THEN h.next[b] ELSE h.next[x]]
      /\ g.prev = [x \in L \ {b} |-> IF x = h.next[b] THEN h.prev[b] ELSE h.prev[x]]
  BY <1>1, <1>2, <1>3, <1>4 DEF UnlinkNext, UnlinkPrev
<1>6. DOMAIN g.size = D
  BY <1>5
<1> HIDE DEF g, D, L
<1>7. Tiles(s, D, g.size, h.phyPrev)
  <2>1. h.size[b] < 0 => FALSE
    BY <1>1
  <2>2. FlipTag(D, h.size, b, g.size)
    BY <1>5 DEF FlipTag
  <2> QED BY <1>1, <2>1, <2>2, TilesFlip
<1>8. IsHeap(g)
  BY <1>5, <1>6, <1>f DEF IsHeap
<1>9. /\ \A x : x \in FreeBlocks(h) <=> x \in D /\ x # s /\ h.size[x] > 0
      /\ \A x : x \in InUse(h) <=> x \in D /\ x # s /\ ~(h.size[x] > 0)
  BY BlocksAre DEF D
<1>10. /\ \A x : x \in FreeBlocks(g) <=> x \in D /\ x # s /\ g.size[x] > 0
       /\ \A x : x \in InUse(g) <=> x \in D /\ x # s /\ ~(g.size[x] > 0)
  BY <1>5, <1>6 DEF FreeBlocks, InUse, Blocks, IsFree
<1>11. FreeBlocks(g) = FreeBlocks(h) \ {b} /\ InUse(g) = InUse(h) \cup {b}
  BY <1>1, <1>5, <1>9, <1>10
<1>12. Listed(g) = L \ {b}
  BY <1>1, <1>5, <1>11 DEF Listed, L
<1>13. RingOn(Listed(g), s, g.next, g.prev)
  BY <1>1, <1>2, <1>5, <1>12, RingRemove
<1>14. HeapOK(g)
  BY <1>2, <1>5, <1>6, <1>7, <1>8, <1>13 DEF HeapOK
<1>15. /\ \A x \in InUse(h) : Words(g, x) = Words(h, x)
       /\ Words(g, b) = h.size[b]
  BY <1>1, <1>5, <1>9 DEF Words
<1> QED BY <1>5, <1>11, <1>14, <1>15 DEF g

(* heap_alloc takes a block that is free, with room enough. *)
LEMMA AllocKeeps ==
    ASSUME NEW h, HeapOK(h), NEW b \in FreeBlocks(h), NEW n \in Nat, n >= 2, h.size[b] >= n
    PROVE  LET g == Alloc(h, b, n)
           IN  /\ HeapOK(g) /\ g.base = h.base /\ InUse(g) = InUse(h) \cup {b}
               /\ \A x \in InUse(h) : Words(g, x) = Words(h, x)
               /\ Words(g, b) >= n
<1>1. CASE h.size[b] > n + Block
  BY <1>1, SplitKeeps DEF Alloc
<1>2. CASE ~(h.size[b] > n + Block)
  BY <1>2, TakeWholeKeeps DEF Alloc
<1> QED BY <1>1, <1>2

--------------------------------------------------------------------------------
(* heap_free *)

(* The block of heap_free and its neighbours *)
LEMMA Neighbours ==
    ASSUME NEW h, HeapOK(h), NEW b \in InUse(h)
    PROVE  LET s == h.base
               D == DOMAIN h.size
               a == After(h, b)
               p == h.phyPrev[b]
           IN  /\ b \in D \ {s} /\ b \in Nat /\ h.size[b] < 0 /\ Wide(h.size[b]) = -h.size[b]
               /\ Words(h, b) = Wide(h.size[b]) /\ Words(h, b) \in Nat
               /\ a = b + Wide(h.size[b]) + 2 /\ a \in D /\ h.phyPrev[a] = b /\ a # b
               /\ IsFree(h, p) => /\ p \in D \ {s} /\ p \in FreeBlocks(h) /\ After(h, p) = b
                                  /\ p + Wide(h.size[p]) + 2 = b /\ Wide(h.size[p]) = h.size[p]
                                  /\ ~(h.size[h.phyPrev[p]] > 0) /\ p # a /\ p # b
               /\ IsFree(h, a) => /\ a \in D \ {s} /\ a \in FreeBlocks(h)
                                  /\ a + Wide(h.size[a]) + 2 = After(h, a) /\ Wide(h.size[a]) = h.size[a]
                                  /\ After(h, a) \in D /\ ~(h.size[After(h, a)] > 0)
                                  /\ After(h, a) # a /\ After(h, a) # b
<1> DEFINE s == h.base
           D == DOMAIN h.size
           a == After(h, b)
           p == h.phyPrev[b]
<1>1. /\ Tiles(s, D, h.size, h.phyPrev) /\ s \in Nat /\ s \in D /\ ~(h.size[s] > 0)
      /\ b \in D \ {s} /\ ~(h.size[b] > 0) /\ h.size[b] \in Int /\ h.size[b] # 0
      /\ \A x : Words(h, x) = Wide(h.size[x]) /\ After(h, x) = x + Wide(h.size[x]) + 2
      /\ \A x : x \in FreeBlocks(h) <=> x \in D /\ x # s /\ h.size[x] > 0
  BY BlocksAre DEF HeapOK
<1> HIDE DEF s, D
<1>2. /\ b \in Nat /\ h.size[b] < 0 /\ Wide(h.size[b]) = -h.size[b] /\ Wide(h.size[b]) \in Nat
      /\ a = b + Wide(h.size[b]) + 2 /\ a \in D /\ h.phyPrev[a] = b /\ a # b
  <2>1. /\ b \in Nat /\ Wide(h.size[b]) \in Nat /\ Wide(h.size[b]) >= 2
        /\ b + Wide(h.size[b]) + 2 \in D /\ h.phyPrev[b + Wide(h.size[b]) + 2] = b
        /\ (h.size[b] < 0 => Wide(h.size[b]) = -h.size[b])
    BY <1>1, TileIs
  <2> QED BY <1>1, <2>1
<1>3. IsFree(h, p) => /\ p \in D \ {s} /\ p \in FreeBlocks(h) /\ After(h, p) = b
                      /\ p + Wide(h.size[p]) + 2 = b /\ Wide(h.size[p]) = h.size[p]
                      /\ ~(h.size[h.phyPrev[p]] > 0) /\ p # a /\ p # b
  <2> SUFFICES ASSUME h.size[p] > 0
               PROVE  /\ p \in D \ {s} /\ After(h, p) = b
                      /\ p + Wide(h.size[p]) + 2 = b /\ Wide(h.size[p]) = h.size[p]
                      /\ ~(h.size[h.phyPrev[p]] > 0) /\ p # a /\ p # b
    BY <1>1 DEF IsFree
  <2>1. b # 0
    <3>1. h.phyPrev[0] = s
      BY <1>1 DEF Tiles
    <3> QED BY <1>1, <3>1
  <2>2. p \in D \ {s} /\ p + Wide(h.size[p]) + 2 = b
    BY <1>1, <2>1, BackIs
  <2>3. p \in Nat /\ Wide(h.size[p]) \in Nat /\ Wide(h.size[p]) = h.size[p]
    BY <1>1, <2>2, TileIs
  <2>4. ~(h.size[h.phyPrev[p]] > 0)
    <3>1. CASE p = 0
      <4>1. h.phyPrev[0] = s
        BY <1>1 DEF Tiles
      <4> QED BY <1>1, <3>1, <4>1
    <3>2. CASE p # 0
      <4>1. PICK c : c = h.phyPrev[p]
        OBVIOUS
      <4>2. c \in D \ {s} /\ c + Wide(h.size[c]) + 2 = p
        BY <1>1, <2>2, <3>2, <4>1, BackIs
      <4>3. h.size[c] > 0 => ~(h.size[c + Wide(h.size[c]) + 2] > 0)
        BY <1>1, <4>2, TileIs
      <4> QED BY <4>1, <4>2, <4>3
    <3> QED BY <3>1, <3>2
  <2> QED BY <1>1, <1>2, <2>2, <2>3, <2>4
<1>4. IsFree(h, a) => /\ a \in D \ {s} /\ a \in FreeBlocks(h)
                      /\ a + Wide(h.size[a]) + 2 = After(h, a) /\ Wide(h.size[a]) = h.size[a]
                      /\ After(h, a) \in D /\ ~(h.size[After(h, a)] > 0)
                      /\ After(h, a) # a /\ After(h, a) # b
  <2> SUFFICES ASSUME h.size[a] > 0
               PROVE  /\ a \in D \ {s}
                      /\ a + Wide(h.size[a]) + 2 = After(h, a) /\ Wide(h.size[a]) = h.size[a]
                      /\ After(h, a) \in D /\ ~(h.size[After(h, a)] > 0)
                      /\ After(h, a) # a /\ After(h, a) # b
    BY <1>1 DEF IsFree
  <2>1. a \in D \ {s}
    BY <1>1, <1>2
  <2>2. PICK c : c = a + Wide(h.size[a]) + 2
    OBVIOUS
  <2>3. /\ a \in Nat /\ Wide(h.size[a]) \in Nat /\ Wide(h.size[a]) = h.size[a] /\ c \in D
        /\ ~(h.size[c] > 0)
    BY <1>1, <2>1, <2>2, TileIs
  <2>4. After(h, a) = c
    BY <1>1, <2>2
  <2>5. c # a /\ c # b
    BY <1>2, <2>2, <2>3
  <2> QED BY <2>1, <2>2, <2>3, <2>4, <2>5
<1> QED BY <1>1, <1>2, <1>3, <1>4 DEF s, D

(* What heap_free promises of the heap g that it makes of h *)
Freed(g, h, b) ==
    /\ HeapOK(g) /\ g.base = h.base /\ InUse(g) = InUse(h) \ {b}
    /\ \A x \in InUse(h) \ {b} : Words(g, x) = Words(h, x)

(* It is done when the tags and the ring are right. *)
LEMMA FreedBy ==
    ASSUME NEW h, HeapOK(h), NEW b \in InUse(h), NEW g, Fields(g), g.base = h.base,
           DOMAIN g.phyPrev = DOMAIN g.size, g.size \in [DOMAIN g.size -> Int],
           Tiles(h.base, DOMAIN g.size, g.size, g.phyPrev), NEW L, RingOn(L, h.base, g.next, g.prev),
           \A x : x \in L <=> x \in DOMAIN g.size /\ (x = h.base \/ g.size[x] > 0),
           \A x \in InUse(h) \ {b} : x \in DOMAIN g.size /\ g.size[x] = h.size[x],
           \A x \in DOMAIN g.size : g.size[x] > 0 \/ x = h.base \/ x \in InUse(h) \ {b}
    PROVE  Freed(g, h, b)
<1>1. /\ \A x : x \in FreeBlocks(g) <=> x \in DOMAIN g.size /\ x # h.base /\ g.size[x] > 0
      /\ \A x : x \in InUse(g) <=> x \in DOMAIN g.size /\ x # h.base /\ ~(g.size[x] > 0)
  BY DEF FreeBlocks, InUse, Blocks, IsFree
<1>2. h.base \in DOMAIN g.size
  BY DEF Tiles
<1>3. L = Listed(g)
  BY <1>1, <1>2 DEF Listed
<1>4. HeapOK(g)
  BY <1>3 DEF HeapOK, IsHeap
<1>5. \A x : x \in InUse(h) <=> x \in DOMAIN h.size /\ x # h.base /\ ~(h.size[x] > 0)
  BY BlocksAre
<1>6. InUse(g) = InUse(h) \ {b}
  BY <1>1, <1>5
<1> QED BY <1>4, <1>6 DEF Freed, Words

(* No neighbour is free: the block goes on the free list. *)
LEMMA PushFreeKeeps ==
    ASSUME NEW h, HeapOK(h), NEW b \in InUse(h),
           ~IsFree(h, h.phyPrev[b]), ~IsFree(h, After(h, b))
    PROVE  Freed(PushFree(h, b), h, b)
<1> DEFINE g == PushFree(h, b)
           s == h.base
           D == DOMAIN h.size
           L == Listed(h)
<1>1. /\ Tiles(s, D, h.size, h.phyPrev) /\ s \in Nat /\ Fields(h) /\ h.size \in [D -> Int]
      /\ DOMAIN h.next = L /\ DOMAIN h.prev = L /\ DOMAIN h.phyPrev = D
      /\ RingOn(L, s, h.next, h.prev)
  BY BlocksAre DEF HeapOK, IsHeap
<1>2. /\ b \in D \ {s} /\ h.size[b] < 0 /\ h.size[b] \in Int /\ After(h, b) = b + Wide(h.size[b]) + 2
  BY <1>1, Neighbours
<1> DEFINE f == [x \in L \cup {b} |-> IF x = b THEN h.next[s] ELSE IF x = s THEN b ELSE h.next[x]]
           q == [x \in L \cup {b} |-> IF x = b THEN s ELSE IF x = h.next[s] THEN b ELSE h.prev[x]]
<1>3. /\ g.base = s /\ g.size = [h.size EXCEPT ![b] = -@] /\ g.phyPrev = h.phyPrev
      /\ g.next = f /\ g.prev = q
  BY <1>1 DEF PushFree, Fields
<1>f. Fields(g)
  <2>1. g \in [base : Nat, size : {[h.size EXCEPT ![b] = -@]}, phyPrev : {h.phyPrev},
                next : {f}, prev : {q}]
    BY <1>1 DEF PushFree, Fields
  <2> QED BY <1>3, <2>1, Zenon DEF Fields
<1>4. /\ g.phyPrev = h.phyPrev /\ g.size \in [D -> Int] /\ DOMAIN g.size = D
      /\ \A x \in D : g.size[x] = IF x = b THEN -h.size[b] ELSE h.size[x]
  BY <1>1, <1>2, <1>3
<1> HIDE DEF g, D, L
<1>5. Tiles(s, D, g.size, h.phyPrev)
  <2>1. FlipTag(D, h.size, b, g.size)
    BY <1>4 DEF FlipTag
  <2>2. ~(h.size[b + Wide(h.size[b]) + 2] > 0) /\ ~(h.size[h.phyPrev[b]] > 0)
    BY <1>2 DEF IsFree
  <2> QED BY <1>1, <1>2, <2>1, <2>2, TilesFlip
<1>6. /\ \A x : x \in L <=> x \in D /\ (x = s \/ h.size[x] > 0)
      /\ \A x : x \in InUse(h) <=> x \in D /\ x # s /\ ~(h.size[x] > 0)
      /\ s \in D /\ s # b
  BY <1>2, BlocksAre DEF L, Listed, D
<1>7. b \notin L
  BY <1>2, <1>6
<1>8. RingOn(L \cup {b}, s, g.next, g.prev)
  BY <1>1, <1>3, <1>7, RingInsert
<1>9. /\ \A x : x \in L \cup {b} <=> x \in DOMAIN g.size /\ (x = s \/ g.size[x] > 0)
      /\ \A x \in InUse(h) \ {b} : x \in DOMAIN g.size /\ g.size[x] = h.size[x]
      /\ \A x \in DOMAIN g.size : g.size[x] > 0 \/ x = s \/ x \in InUse(h) \ {b}
  BY <1>2, <1>4, <1>6
<1>10. g.size \in [DOMAIN g.size -> Int] /\ DOMAIN g.phyPrev = DOMAIN g.size
       /\ Tiles(s, DOMAIN g.size, g.size, g.phyPrev)
  BY <1>1, <1>4, <1>5
<1>11. Freed(g, h, b)
  BY <1>f, <1>3, <1>8, <1>9, <1>10, FreedBy
<1> QED BY <1>11 DEF g

(* The block before takes it in. *)
LEMMA JoinPrevKeeps ==
    ASSUME NEW h, HeapOK(h), NEW b \in InUse(h),
           IsFree(h, h.phyPrev[b]), ~IsFree(h, After(h, b))
    PROVE  Freed(JoinPrev(h, b), h, b)
<1> DEFINE g == JoinPrev(h, b)
           s == h.base
           D == DOMAIN h.size
           L == Listed(h)
           p == h.phyPrev[b]
           a == After(h, b)
           y == [x \in D \ {b} |-> IF x = p THEN h.size[p] + Words(h, b) + Phy ELSE h.size[x]]
           q == [x \in D \ {b} |-> IF x = a THEN p ELSE h.phyPrev[x]]
<1>1. /\ Tiles(s, D, h.size, h.phyPrev) /\ s \in Nat /\ Fields(h) /\ h.size \in [D -> Int]
      /\ RingOn(L, s, h.next, h.prev)
  BY BlocksAre DEF HeapOK, IsHeap
<1>2. /\ b \in D \ {s} /\ Words(h, b) = Wide(h.size[b]) /\ Words(h, b) \in Nat
      /\ a = b + Wide(h.size[b]) + 2 /\ a \in D /\ h.size[b] < 0
      /\ p \in D \ {s} /\ p + Wide(h.size[p]) + 2 = b /\ Wide(h.size[p]) = h.size[p]
      /\ ~(h.size[h.phyPrev[p]] > 0) /\ p # a /\ p # b
  BY Neighbours
<1>3. /\ g.base = s /\ g.size = y /\ g.phyPrev = q /\ g.next = h.next /\ g.prev = h.prev
  BY <1>1 DEF JoinPrev, Fields
<1>f. Fields(g)
  <2>1. g \in [base : Nat, size : {y}, phyPrev : {q}, next : {h.next}, prev : {h.prev}]
    BY <1>1 DEF JoinPrev, Fields
  <2> QED BY <1>3, <2>1, Zenon DEF Fields
<1>4. MergeTags(D, h.size, h.phyPrev, p, b, a, g.size, g.phyPrev)
  BY <1>2, <1>3 DEF MergeTags, Phy
<1>5. g.size \in [D \ {b} -> Int] /\ DOMAIN g.size = D \ {b} /\ DOMAIN g.phyPrev = D \ {b}
  BY <1>1, <1>2, <1>3 DEF Phy
<1>6. ~(h.size[a] > 0)
  BY DEF IsFree
<1> HIDE DEF g, D, L, p, a, y, q
<1>7. Tiles(s, D \ {b}, g.size, g.phyPrev) /\ g.size[p] > 0
  <2>1. /\ p \in D \ {s} /\ b \in D \ {s} /\ p + Wide(h.size[p]) + 2 = b /\ a \in D
        /\ b + Wide(h.size[b]) + 2 = a /\ ~(h.size[a] > 0) /\ ~(h.size[h.phyPrev[p]] > 0)
    BY <1>2, <1>6, Zenon
  <2>2. Merges(s, D, h.size, h.phyPrev, p, b, a, g.size, g.phyPrev)
    BY <1>1, <1>4, <2>1, Zenon DEF Merges
  <2> QED BY <2>2, TilesMerge
<1>8. /\ \A x : x \in L <=> x \in D /\ (x = s \/ h.size[x] > 0)
      /\ \A x : x \in InUse(h) <=> x \in D /\ x # s /\ ~(h.size[x] > 0)
      /\ s \in D
  BY BlocksAre DEF L, Listed, D
<1>9. /\ \A x : x \in L <=> x \in DOMAIN g.size /\ (x = s \/ g.size[x] > 0)
      /\ \A x \in InUse(h) \ {b} : x \in DOMAIN g.size /\ g.size[x] = h.size[x]
      /\ \A x \in DOMAIN g.size : g.size[x] > 0 \/ x = s \/ x \in InUse(h) \ {b}
  <2>1. \A x \in D \ {b} : x # p => g.size[x] = h.size[x]
    BY <1>4 DEF MergeTags
  <2>2. h.size[p] > 0
    BY DEF IsFree, p
  <2> QED BY <1>2, <1>5, <1>7, <1>8, <2>1, <2>2
<1>10. Freed(g, h, b)
  BY <1>f, <1>1, <1>3, <1>5, <1>7, <1>9, FreedBy
<1> QED BY <1>10 DEF g

(* It takes in the block after it. *)
LEMMA JoinNextKeeps ==
    ASSUME NEW h, HeapOK(h), NEW b \in InUse(h),
           ~IsFree(h, h.phyPrev[b]), IsFree(h, After(h, b))
    PROVE  Freed(JoinNext(h, b), h, b)
<1> DEFINE g == JoinNext(h, b)
           s == h.base
           D == DOMAIN h.size
           L == Listed(h)
           a == After(h, b)
           e == After(h, a)
           K == (L \ {a}) \cup {b}
           y == [x \in D \ {a} |-> IF x = b THEN Words(h, b) + h.size[a] + Phy ELSE h.size[x]]
           q == [x \in D \ {a} |-> IF x = e THEN b ELSE h.phyPrev[x]]
           f == [x \in K |-> IF x = b THEN h.next[a] ELSE IF x = h.prev[a] THEN b ELSE h.next[x]]
           r == [x \in K |-> IF x = b THEN h.prev[a] ELSE IF x = h.next[a] THEN b ELSE h.prev[x]]
<1>1. /\ Tiles(s, D, h.size, h.phyPrev) /\ s \in Nat /\ Fields(h) /\ h.size \in [D -> Int]
      /\ RingOn(L, s, h.next, h.prev) /\ DOMAIN h.next = L /\ DOMAIN h.prev = L
  BY BlocksAre DEF HeapOK, IsHeap
<1>2. /\ b \in D \ {s} /\ Words(h, b) = Wide(h.size[b]) /\ Words(h, b) \in Nat
      /\ a = b + Wide(h.size[b]) + 2 /\ a \in D \ {s} /\ h.size[b] < 0 /\ a # b
      /\ a + Wide(h.size[a]) + 2 = e /\ Wide(h.size[a]) = h.size[a] /\ e \in D
      /\ ~(h.size[e] > 0) /\ e # a /\ e # b
  BY Neighbours
<1>3. /\ g.base = s /\ g.size = y /\ g.phyPrev = q /\ g.next = f /\ g.prev = r
  BY <1>1 DEF JoinNext
<1>f. Fields(g)
  BY <1>1 DEF JoinNext, Fields
<1>4. MergeTags(D, h.size, h.phyPrev, b, a, e, g.size, g.phyPrev)
  BY <1>2, <1>3 DEF MergeTags, Phy
<1>5. g.size \in [D \ {a} -> Int] /\ DOMAIN g.size = D \ {a} /\ DOMAIN g.phyPrev = D \ {a}
  BY <1>1, <1>2, <1>3 DEF Phy
<1>6. ~(h.size[h.phyPrev[b]] > 0) /\ h.size[a] > 0
  BY DEF IsFree
<1> HIDE DEF g, D, L, a, e, y, q
<1>7. Tiles(s, D \ {a}, g.size, g.phyPrev) /\ g.size[b] > 0
  <2>1. /\ b \in D \ {s} /\ a \in D \ {s} /\ b + Wide(h.size[b]) + 2 = a /\ e \in D
        /\ a + Wide(h.size[a]) + 2 = e /\ ~(h.size[e] > 0) /\ ~(h.size[h.phyPrev[b]] > 0)
    BY <1>2, <1>6, Zenon
  <2>2. Merges(s, D, h.size, h.phyPrev, b, a, e, g.size, g.phyPrev)
    BY <1>1, <1>4, <2>1, Zenon DEF Merges
  <2> QED BY <2>2, TilesMerge
<1>8. /\ \A x : x \in L <=> x \in D /\ (x = s \/ h.size[x] > 0)
      /\ \A x : x \in InUse(h) <=> x \in D /\ x # s /\ ~(h.size[x] > 0)
      /\ s \in D
  BY BlocksAre DEF L, Listed, D
<1>9. /\ \A x : x \in K <=> x \in DOMAIN g.size /\ (x = s \/ g.size[x] > 0)
      /\ \A x \in InUse(h) \ {b} : x \in DOMAIN g.size /\ g.size[x] = h.size[x]
      /\ \A x \in DOMAIN g.size : g.size[x] > 0 \/ x = s \/ x \in InUse(h) \ {b}
  <2>1. \A x \in D \ {a} : x # b => g.size[x] = h.size[x]
    BY <1>4 DEF MergeTags
  <2> QED BY <1>2, <1>5, <1>6, <1>7, <1>8, <2>1
<1>10. a \in L /\ b \notin L
  BY <1>2, <1>6, <1>8
<1>11. RingOn(K, s, f, r)
  <2>1. a # s
    BY <1>2
  <2> HIDE DEF s
  <2> QED BY <1>1, <1>10, <2>1, RingReplace DEF K, f, r
<1> HIDE DEF K, f, r
<1>12. Freed(g, h, b)
  BY <1>f, <1>1, <1>3, <1>5, <1>7, <1>9, <1>11, FreedBy
<1> QED BY <1>12 DEF g

(* A block between two free ones: all three become one, whose tag is the   *)
(* same as after two merges, the block behind first marked as allocated.   *)
BothTags(D, z, back, p, b, a, e, y, q) ==
    \A x \in D \ {a, b} : /\ y[x] = IF x = p THEN z[p] + Wide(z[b]) + z[a] + 4 ELSE z[x]
                          /\ q[x] = IF x = e THEN p ELSE back[x]

Joins(s, D, z, back, p, b, a, e, y, q) ==
    /\ s \in Nat /\ Tiles(s, D, z, back)
    /\ p \in D \ {s} /\ b \in D \ {s} /\ a \in D \ {s} /\ e \in D
    /\ p + Wide(z[p]) + 2 = b /\ b + Wide(z[b]) + 2 = a /\ a + Wide(z[a]) + 2 = e
    /\ z[p] > 0 /\ z[b] < 0 /\ z[a] > 0 /\ ~(z[e] > 0) /\ ~(z[back[p]] > 0)
    /\ BothTags(D, z, back, p, b, a, e, y, q)

(* Shown by two merges *)
LEMMA TilesBoth ==
    ASSUME NEW s, NEW D, NEW z, NEW back, NEW p, NEW b, NEW a, NEW e, NEW y, NEW q,
           Joins(s, D, z, back, p, b, a, e, y, q)
    PROVE  Tiles(s, D \ {a, b}, y, q) /\ y[p] > 0
<1> USE DEF Joins
<1> DEFINE z1 == [x \in D |-> IF x = a THEN -z[a] ELSE z[x]]
           y1 == [x \in D \ {b} |-> IF x = p THEN Wide(z1[p]) + Wide(z1[b]) + 2 ELSE z1[x]]
           q1 == [x \in D \ {b} |-> IF x = a THEN p ELSE back[x]]
<1>1. /\ p \in Nat /\ b \in Nat /\ a \in Nat /\ e \in Nat /\ p < b /\ b < a /\ a < e
      /\ z[p] \in Int /\ z[b] \in Int /\ z[a] \in Int
      /\ Wide(z[p]) = z[p] /\ Wide(z[b]) = -z[b] /\ Wide(z[a]) = z[a]
  <2>1. /\ p \in Nat /\ Wide(z[p]) \in Nat /\ z[p] \in Int
        /\ \A c \in D : c \in Nat
    BY TileIs
  <2>2. /\ Wide(z[b]) \in Nat /\ z[b] \in Int
    BY TileIs
  <2>3. /\ Wide(z[a]) \in Nat /\ z[a] \in Int
    BY TileIs
  <2> QED BY <2>1, <2>2, <2>3 DEF Wide
<1>2. back[p] \in D /\ back[p] # b /\ back[p] # p
  <2>1. back[p] # p
    OBVIOUS
  <2>2. CASE p = 0
    <3>1. back[0] = s /\ s \in D
      BY DEF Tiles
    <3> QED BY <2>1, <2>2, <3>1
  <2>3. CASE p # 0
    <3>1. back[p] \in D \ {s} /\ back[p] + Wide(z[back[p]]) + 2 = p
      BY <2>3, BackIs
    <3>2. back[p] \in Nat /\ Wide(z[back[p]]) \in Nat
      BY <3>1, TileIs
    <3> QED BY <1>1, <2>1, <3>1, <3>2
  <2> QED BY <2>2, <2>3
<1>3. Tiles(s, D, z1, back)
  <2>1. FlipTag(D, z, a, z1)
    BY DEF FlipTag
  <2>2. ~(z[a] < 0)
    BY <1>1
  <2> HIDE DEF z1
  <2> QED BY <2>1, <2>2, TilesFlip
<1>4. /\ z1[p] = z[p] /\ z1[b] = z[b] /\ z1[a] = -z[a] /\ z1[e] = z[e] /\ Wide(z1[a]) = z[a]
      /\ ~(z1[back[p]] > 0)
  BY <1>1, <1>2 DEF Wide
<1>5. Merges(s, D, z1, back, p, b, a, y1, q1)
  <2>1. MergeTags(D, z1, back, p, b, a, y1, q1)
    BY DEF MergeTags
  <2>2. /\ p \in D \ {s} /\ b \in D \ {s} /\ a \in D
        /\ p + Wide(z1[p]) + 2 = b /\ b + Wide(z1[b]) + 2 = a
        /\ ~(z1[a] > 0) /\ ~(z1[back[p]] > 0)
    BY <1>1, <1>4
  <2> HIDE DEF z1, y1, q1
  <2> QED BY <1>3, <2>1, <2>2 DEF Merges
<1>6. /\ Tiles(s, D \ {b}, y1, q1) /\ Wide(y1[p]) = y1[p] /\ y1[p] > 0
      /\ p + y1[p] + 2 = a /\ q1[p] = back[p] /\ p # b
  <2> HIDE DEF z1, y1, q1
  <2> QED BY <1>5, TilesMerge
<1>7. /\ y1[p] = z[p] + Wide(z[b]) + 2 /\ y1[a] = -z[a] /\ y1[e] = z[e] /\ ~(y1[back[p]] > 0)
      /\ \A x \in D \ {a, b} : x # p => y1[x] = z[x]
      /\ \A x \in D \ {a, b} : q1[x] = back[x]
  BY <1>1, <1>2, <1>4
<1> HIDE DEF z1, y1, q1
<1>8. Merges(s, D \ {b}, y1, q1, p, a, e, y, q)
  <2>1. MergeTags(D \ {b}, y1, q1, p, a, e, y, q)
    <3> SUFFICES ASSUME NEW x \in D \ {a, b}
                 PROVE  /\ y[x] = IF x = p THEN Wide(y1[p]) + Wide(y1[a]) + 2 ELSE y1[x]
                        /\ q[x] = IF x = e THEN p ELSE q1[x]
      BY DEF MergeTags
    <3>1. /\ y[x] = IF x = p THEN z[p] + Wide(z[b]) + z[a] + 4 ELSE z[x]
          /\ q[x] = IF x = e THEN p ELSE back[x]
      BY DEF BothTags
    <3>2. Wide(y1[a]) = z[a]
      BY <1>1, <1>7 DEF Wide
    <3>3. z[p] + Wide(z[b]) + z[a] + 4 = Wide(y1[p]) + Wide(y1[a]) + 2
      BY <1>1, <1>6, <1>7, <3>2
    <3> QED BY <1>7, <3>1, <3>3
  <2>2. /\ p \in (D \ {b}) \ {s} /\ a \in (D \ {b}) \ {s} /\ e \in D \ {b}
        /\ p + Wide(y1[p]) + 2 = a /\ a + Wide(y1[a]) + 2 = e
        /\ ~(y1[e] > 0) /\ ~(y1[q1[p]] > 0)
    BY <1>1, <1>6, <1>7 DEF Wide
  <2> QED BY <1>6, <2>1, <2>2 DEF Merges
<1>9. Tiles(s, (D \ {b}) \ {a}, y, q) /\ y[p] > 0
  BY <1>8, TilesMerge
<1>10. (D \ {b}) \ {a} = D \ {a, b}
  OBVIOUS
<1> QED BY <1>9, <1>10

(* The block before takes in both. *)
LEMMA JoinBothKeeps ==
    ASSUME NEW h, HeapOK(h), NEW b \in InUse(h),
           IsFree(h, h.phyPrev[b]), IsFree(h, After(h, b))
    PROVE  Freed(JoinBoth(h, b), h, b)
<1> DEFINE g == JoinBoth(h, b)
           s == h.base
           D == DOMAIN h.size
           L == Listed(h)
           p == h.phyPrev[b]
           a == After(h, b)
           e == After(h, a)
           y == [x \in D \ {a, b} |-> IF x = p THEN h.size[p] + Words(h, b) + h.size[a] + 2 * Phy
                                      ELSE h.size[x]]
           q == [x \in D \ {a, b} |-> IF x = e THEN p ELSE h.phyPrev[x]]
<1>1. /\ Tiles(s, D, h.size, h.phyPrev) /\ s \in Nat /\ Fields(h) /\ h.size \in [D -> Int]
      /\ RingOn(L, s, h.next, h.prev) /\ DOMAIN h.next = L /\ DOMAIN h.prev = L
  BY BlocksAre DEF HeapOK, IsHeap
<1>2. /\ b \in D \ {s} /\ Words(h, b) = Wide(h.size[b]) /\ Words(h, b) \in Nat
      /\ a = b + Wide(h.size[b]) + 2 /\ a \in D \ {s} /\ h.size[b] < 0 /\ a # b
      /\ p \in D \ {s} /\ p + Wide(h.size[p]) + 2 = b /\ Wide(h.size[p]) = h.size[p]
      /\ ~(h.size[h.phyPrev[p]] > 0) /\ p # a /\ p # b
      /\ a + Wide(h.size[a]) + 2 = e /\ Wide(h.size[a]) = h.size[a] /\ e \in D
      /\ ~(h.size[e] > 0)
  BY Neighbours
<1>3. /\ g.base = s /\ g.size = y /\ g.phyPrev = q
      /\ g.next = UnlinkNext(h, a) /\ g.prev = UnlinkPrev(h, a)
  BY <1>1 DEF JoinBoth
<1>f. Fields(g)
  BY <1>1 DEF JoinBoth, Fields
<1>4. BothTags(D, h.size, h.phyPrev, p, b, a, e, g.size, g.phyPrev)
  BY <1>2, <1>3 DEF BothTags, Phy
<1>5. g.size \in [D \ {a, b} -> Int] /\ DOMAIN g.size = D \ {a, b} /\ DOMAIN g.phyPrev = D \ {a, b}
  BY <1>1, <1>2, <1>3 DEF Phy
<1>6. h.size[p] > 0 /\ h.size[a] > 0
  BY DEF IsFree
<1> HIDE DEF g, D, L, p, a, e, y, q
<1>7. Tiles(s, D \ {a, b}, g.size, g.phyPrev) /\ g.size[p] > 0
  <2>1. /\ p \in D \ {s} /\ b \in D \ {s} /\ a \in D \ {s} /\ e \in D
        /\ p + Wide(h.size[p]) + 2 = b /\ b + Wide(h.size[b]) + 2 = a
        /\ a + Wide(h.size[a]) + 2 = e
        /\ h.size[p] > 0 /\ h.size[b] < 0 /\ h.size[a] > 0 /\ ~(h.size[e] > 0)
        /\ ~(h.size[h.phyPrev[p]] > 0)
    BY <1>2, <1>6
  <2>2. Joins(s, D, h.size, h.phyPrev, p, b, a, e, g.size, g.phyPrev)
    BY <1>1, <1>4, <2>1, Zenon DEF Joins
  <2> QED BY <2>2, TilesBoth
<1>8. /\ \A x : x \in L <=> x \in D /\ (x = s \/ h.size[x] > 0)
      /\ \A x : x \in InUse(h) <=> x \in D /\ x # s /\ ~(h.size[x] > 0)
      /\ s \in D
  BY BlocksAre DEF L, Listed, D
<1>9. /\ \A x : x \in L \ {a} <=> x \in DOMAIN g.size /\ (x = s \/ g.size[x] > 0)
      /\ \A x \in InUse(h) \ {b} : x \in DOMAIN g.size /\ g.size[x] = h.size[x]
      /\ \A x \in DOMAIN g.size : g.size[x] > 0 \/ x = s \/ x \in InUse(h) \ {b}
  <2>1. \A x \in D \ {a, b} : x # p => g.size[x] = h.size[x]
    BY <1>4 DEF BothTags
  <2> QED BY <1>2, <1>5, <1>6, <1>7, <1>8, <2>1
<1>10. a \in L /\ a # s
  BY <1>2, <1>6, <1>8
<1>11. RingOn(L \ {a}, s, g.next, g.prev)
  BY <1>1, <1>3, <1>10, RingRemove DEF UnlinkNext, UnlinkPrev
<1>12. Freed(g, h, b)
  BY <1>f, <1>1, <1>3, <1>5, <1>7, <1>9, <1>11, FreedBy
<1> QED BY <1>12 DEF g

(* heap_free: whatever is free around the block *)
LEMMA FreeKeeps ==
    ASSUME NEW h, HeapOK(h), NEW b \in InUse(h)
    PROVE  Freed(Free(h, b), h, b)
BY JoinBothKeeps, JoinPrevKeeps, JoinNextKeeps, PushFreeKeeps DEF Free

--------------------------------------------------------------------------------
(* The walk along the free list *)

(* What defines the walk of FreeList: it exists, and is made of the steps it should be. *)
IsWalk(w, f, head, n) == w = [i \in 0 .. n |-> IF i = 0 THEN head ELSE f[w[i - 1]]]

(* By induction on its length, a set of numbers *)
LEMMA WalkExists ==
    ASSUME NEW f, NEW head, NEW n \in Nat
    PROVE  \E w : IsWalk(w, f, head, n)
<1> DEFINE T == {m \in Nat : \E w : IsWalk(w, f, head, m)}
<1>1. 0 \in T
  <2>1. IsWalk([i \in 0 .. 0 |-> head], f, head, 0)
    BY DEF IsWalk
  <2> QED BY <2>1
<1>2. ASSUME NEW m \in Nat, m \in T PROVE m + 1 \in T
  <2>1. PICK w : IsWalk(w, f, head, m)
    BY <1>2
  <2> DEFINE e == [i \in 0 .. m + 1 |-> IF i <= m THEN w[i] ELSE f[w[m]]]
  <2>2. \A i \in 0 .. m + 1 : e[i] = IF i = 0 THEN head ELSE f[e[i - 1]]
    BY <2>1 DEF IsWalk
  <2>3. IsWalk(e, f, head, m + 1)
    BY <2>2 DEF IsWalk
  <2> HIDE DEF e
  <2> QED BY <2>3
<1> HIDE DEF T
<1>3. Nat \subseteq T
  BY <1>1, <1>2, SetInduction
<1> QED BY <1>3 DEF T

(* FreeList follows the links. *)
LEMMA ListSteps ==
    ASSUME NEW h, NEW n \in Nat
    PROVE  /\ FreeList(h, n)[0] = h.next[h.base]
           /\ \A i \in 1 .. n : FreeList(h, n)[i] = h.next[FreeList(h, n)[i - 1]]
<1> DEFINE w == CHOOSE v : IsWalk(v, h.next, h.next[h.base], n)
<1>1. FreeList(h, n) = w
  BY Zenon DEF FreeList, IsWalk
<1>2. IsWalk(w, h.next, h.next[h.base], n)
  BY WalkExists, Zenon
<1> HIDE DEF w
<1>3. \A f, head : IsWalk(w, f, head, n) => w[0] = head /\ \A i \in 1 .. n : w[i] = f[w[i - 1]]
  BY DEF IsWalk
<1> QED BY <1>1, <1>2, <1>3

(* All walks are the beginnings of one. *)
EndlessList(h, W) ==
    /\ \A n \in Nat : \A i \in 0 .. n : FreeList(h, n)[i] = W[i]
    /\ W[0] = h.next[h.base] /\ \A i \in Nat : W[i + 1] = h.next[W[i]]

(* FreeList of any length is the beginning of one endless walk. *)
LEMMA ListsOfOne ==
    ASSUME NEW h
    PROVE  \E W : EndlessList(h, W)
<1> DEFINE W == [i \in Nat |-> FreeList(h, i)[i]]
           T == {i \in Nat : \A n \in Nat : i <= n => FreeList(h, n)[i] = FreeList(h, i)[i]}
<1>1. 0 \in T
  BY ListSteps
<1>2. ASSUME NEW i \in Nat, i \in T PROVE i + 1 \in T
  <2> SUFFICES ASSUME NEW n \in Nat, i + 1 <= n
               PROVE  FreeList(h, n)[i + 1] = FreeList(h, i + 1)[i + 1]
    OBVIOUS
  <2>1. \A k \in Nat : i + 1 <= k => FreeList(h, k)[i + 1] = h.next[FreeList(h, k)[i]]
    <3> SUFFICES ASSUME NEW k \in Nat, i + 1 <= k
                 PROVE  FreeList(h, k)[i + 1] = h.next[FreeList(h, k)[i]]
      OBVIOUS
    <3>1. i + 1 \in 1 .. k /\ (i + 1) - 1 = i
      OBVIOUS
    <3> QED BY <3>1, ListSteps
  <2>2. FreeList(h, n)[i] = FreeList(h, i)[i] /\ FreeList(h, i + 1)[i] = FreeList(h, i)[i]
    BY <1>2
  <2> QED BY <2>1, <2>2
<1>3. Nat \subseteq T
  <2> HIDE DEF T
  <2> QED BY <1>1, <1>2, SetInduction
<1>4. \A n \in Nat : \A i \in 0 .. n : FreeList(h, n)[i] = W[i]
  BY <1>3
<1>5. W[0] = h.next[h.base]
  BY ListSteps
<1>6. ASSUME NEW i \in Nat PROVE W[i + 1] = h.next[W[i]]
  <2>1. i + 1 \in 1 .. i + 1 /\ (i + 1) - 1 = i /\ i + 1 \in Nat /\ i \in 0 .. i + 1
    OBVIOUS
  <2>2. FreeList(h, i + 1)[i + 1] = h.next[FreeList(h, i + 1)[i]]
    BY <2>1, ListSteps
  <2>3. FreeList(h, i + 1)[i] = FreeList(h, i)[i]
    BY <1>3, <2>1
  <2> QED BY <2>1, <2>2, <2>3
<1> HIDE DEF W
<1>7. EndlessList(h, W)
  BY <1>4, <1>5, <1>6 DEF EndlessList
<1> QED BY <1>7

(* A walk around a ring: it comes back to where it began, after all others. *)
LEMMA RingWalk ==
    ASSUME NEW L, NEW s, NEW f, NEW p, RingOn(L, s, f, p), NEW W,
           W[0] = f[s], \A i \in Nat : W[i + 1] = f[W[i]]
    PROVE  \E k \in Nat : /\ W[k] = s /\ {W[i] : i \in 0 .. k - 1} = L \ {s}
                          /\ \A i, j \in 0 .. k - 1 : W[i] = W[j] => i = j
<1> DEFINE T == {i \in Nat : W[i] \in L}
<1>1. \A i \in Nat : W[i] \in L
  <2>1. 0 \in T /\ \A i \in Nat : i \in T => i + 1 \in T
    BY DEF RingOn
  <2>2. Nat \subseteq T
    <3> HIDE DEF T
    <3> QED BY <2>1, SetInduction
  <2> QED BY <2>2
<1>2. {i \in Nat : W[i] = s} # {}
  <2> DEFINE S == {s} \cup {W[i] : i \in Nat}
  <2>1. S \in SUBSET L /\ s \in S /\ \A x \in S : f[x] \in S
    <3>1. s \in L
      BY DEF RingOn
    <3>2. \A i \in Nat : f[W[i]] \in S
      <4> TAKE i \in Nat
      <4>1. i + 1 \in Nat /\ f[W[i]] = W[i + 1]
        OBVIOUS
      <4> QED BY <4>1
    <3>3. f[s] \in S
      OBVIOUS
    <3> QED BY <1>1, <3>1, <3>2, <3>3
  <2>2. S = L
    <3> HIDE DEF S
    <3> QED BY <2>1 DEF RingOn
  <2>3. p[s] \in S /\ f[p[s]] = s
    BY <2>2 DEF RingOn
  <2>4. CASE p[s] = s
    BY <2>3, <2>4
  <2>5. CASE p[s] # s
    <3>1. PICK i \in Nat : p[s] = W[i]
      BY <2>3, <2>5
    <3>2. W[i + 1] = s /\ i + 1 \in Nat
      BY <2>3, <3>1
    <3> QED BY <3>2
  <2> QED BY <2>4, <2>5
<1>3. PICK k \in Nat : W[k] = s /\ \A i \in Nat : W[i] = s => k <= i
  BY <1>2, LeastOfNat
<1>4. {W[i] : i \in 0 .. k - 1} = L \ {s}
  <2> DEFINE S == {s} \cup {W[i] : i \in 0 .. k - 1}
  <2>1. S \in SUBSET L /\ s \in S
    BY <1>1 DEF RingOn
  <2>2. \A i \in 0 .. k : W[i] \in S
    <3> TAKE i \in 0 .. k
    <3> QED BY <1>3
  <2>3. \A x \in S : f[x] \in S
    <3>1. f[s] \in S
      BY <2>2
    <3>2. \A i \in 0 .. k - 1 : f[W[i]] \in S
      <4> TAKE i \in 0 .. k - 1
      <4>1. i + 1 \in 0 .. k /\ f[W[i]] = W[i + 1]
        OBVIOUS
      <4> QED BY <2>2, <4>1
    <3> QED BY <3>1, <3>2
  <2>4. S = L
    <3> HIDE DEF S
    <3> QED BY <2>1, <2>3 DEF RingOn
  <2>5. \A i \in 0 .. k - 1 : W[i] # s
    BY <1>3
  <2> QED BY <2>4, <2>5
<1>5. ASSUME NEW i \in 0 .. k - 1, NEW j \in 0 .. k - 1, W[i] = W[j] PROVE i = j
  <2> DEFINE R == {m \in Nat : \A d \in Nat \ {0} : m + d < k => W[m] # W[m + d]}
  <2>1. 0 \in R
    <3> SUFFICES ASSUME NEW d \in Nat \ {0}, d < k, W[0] = W[d] PROVE FALSE
      OBVIOUS
    <3>1. d - 1 \in Nat /\ W[d] = f[W[d - 1]] /\ d - 1 < k /\ ~(k <= d - 1)
      <4>1. d - 1 \in Nat /\ (d - 1) + 1 = d
        OBVIOUS
      <4> QED BY <4>1
    <3>2. f[s] = f[W[d - 1]] /\ W[d - 1] \in L /\ s \in L
      BY <1>1, <3>1 DEF RingOn
    <3>3. s = W[d - 1]
      BY <3>2 DEF RingOn
    <3> QED BY <1>3, <3>1, <3>3
  <2>2. ASSUME NEW m \in Nat, m \in R PROVE m + 1 \in R
    <3> SUFFICES ASSUME NEW d \in Nat \ {0}, (m + 1) + d < k, W[m + 1] = W[(m + 1) + d] PROVE FALSE
      OBVIOUS
    <3>1. m + d \in Nat /\ (m + 1) + d = (m + d) + 1 /\ m + d < k
      OBVIOUS
    <3>2. f[W[m]] = f[W[m + d]]
      BY <3>1
    <3>3. W[m] = W[m + d]
      BY <1>1, <3>1, <3>2 DEF RingOn
    <3> QED BY <2>2, <3>1, <3>3
  <2>3. Nat \subseteq R
    <3> HIDE DEF R
    <3> QED BY <2>1, <2>2, SetInduction
  <2>4. \A m, d \in Nat : d # 0 /\ m + d < k => W[m] # W[m + d]
    BY <2>3
  <2>5. CASE i < j
    <3>1. j - i \in Nat /\ j - i # 0 /\ i + (j - i) = j /\ i \in Nat /\ j < k
      BY <2>5
    <3> QED BY <1>5, <2>4, <3>1
  <2>6. CASE j < i
    <3>1. i - j \in Nat /\ i - j # 0 /\ j + (i - j) = i /\ j \in Nat /\ i < k
      BY <2>6
    <3> QED BY <1>5, <2>4, <3>1
  <2> QED BY <2>5, <2>6
<1> QED BY <1>3, <1>4, <1>5

--------------------------------------------------------------------------------
(* Blocks have addresses below that of the sentinel. *)
LEMMA FreeIsFinite ==
    ASSUME NEW h, HeapOK(h)
    PROVE  IsFiniteSet(FreeBlocks(h)) /\ Cardinality(FreeBlocks(h)) \in Nat
<1>1. h.base \in Nat /\ DOMAIN h.size \subseteq 0 .. h.base
  BY DEF HeapOK, IsHeap, Fields, Tiles
<1>2. IsFiniteSet(0 .. h.base)
  <2>1. 0 \in Int /\ h.base \in Int
    BY <1>1
  <2> QED BY <2>1, FS_Interval
<1>3. FreeBlocks(h) \in SUBSET (0 .. h.base)
  BY <1>1 DEF FreeBlocks, Blocks
<1>4. IsFiniteSet(FreeBlocks(h))
  BY <1>2, <1>3, FS_Subset
<1> QED BY <1>4, FS_CardinalityType

(* The n free blocks come first, then the sentinel. *)
ListEnds(h, W, n) == W[n] = h.base /\ {W[i] : i \in 0 .. n - 1} = FreeBlocks(h)

(* It ends with the sentinel after as many steps as there are free blocks. *)
LEMMA ListIsFree ==
    ASSUME NEW h, HeapOK(h)
    PROVE  \E W : EndlessList(h, W) /\ ListEnds(h, W, Cardinality(FreeBlocks(h)))
<1> DEFINE n == Cardinality(FreeBlocks(h))
<1>0. PICK W : EndlessList(h, W)
  BY ListsOfOne
<1>1. /\ \A k \in Nat : \A i \in 0 .. k : FreeList(h, k)[i] = W[i]
      /\ W[0] = h.next[h.base] /\ \A i \in Nat : W[i + 1] = h.next[W[i]]
  BY <1>0 DEF EndlessList
<1>2. RingOn(Listed(h), h.base, h.next, h.prev)
  BY DEF HeapOK
<1>3. PICK k \in Nat : /\ W[k] = h.base /\ {W[i] : i \in 0 .. k - 1} = Listed(h) \ {h.base}
                       /\ \A i, j \in 0 .. k - 1 : W[i] = W[j] => i = j
  BY <1>1, <1>2, RingWalk
<1>4. Listed(h) \ {h.base} = FreeBlocks(h)
  BY DEF Listed, FreeBlocks, Blocks
<1>5. n = k
  <2> DEFINE v == [i \in 1 .. k |-> W[i - 1]]
  <2>1. v \in Bijection(1 .. k, FreeBlocks(h))
    <3>1. \A i \in 1 .. k : i - 1 \in 0 .. k - 1
      OBVIOUS
    <3>2. v \in [1 .. k -> FreeBlocks(h)]
      BY <1>3, <1>4, <3>1
    <3>3. \A i, j \in 1 .. k : v[i] = v[j] => i = j
      <4> SUFFICES ASSUME NEW i \in 1 .. k, NEW j \in 1 .. k, W[i - 1] = W[j - 1] PROVE i = j
        OBVIOUS
      <4>1. i - 1 = j - 1
        BY <1>3, <3>1
      <4> QED BY <4>1
    <3>4. \A x \in FreeBlocks(h) : \E i \in 1 .. k : v[i] = x
      <4> TAKE x \in FreeBlocks(h)
      <4>1. PICK i \in 0 .. k - 1 : W[i] = x
        BY <1>3, <1>4
      <4>2. i + 1 \in 1 .. k /\ (i + 1) - 1 = i
        OBVIOUS
      <4>3. v[i + 1] = x
        BY <4>1, <4>2
      <4> QED BY <4>2, <4>3
    <3> HIDE DEF v
    <3>5. v \in Injection(1 .. k, FreeBlocks(h))
      BY <3>2, <3>3 DEF Injection, IsInjective
    <3>6. v \in Surjection(1 .. k, FreeBlocks(h))
      BY <3>2, <3>4 DEF Surjection
    <3> QED BY <3>5, <3>6 DEF Bijection
  <2>2. ExistsBijection(1 .. k, FreeBlocks(h))
    BY <2>1 DEF ExistsBijection
  <2> QED BY <2>2, FS_CountingElements
<1>6. ListEnds(h, W, n)
  BY <1>3, <1>4, <1>5 DEF ListEnds
<1> QED BY <1>0, <1>6

(* heap_alloc finds a block if there is one. *)
LEMMA FitIsFound ==
    ASSUME NEW h, HeapOK(h), NEW w \in Int, NEW c \in FreeBlocks(h), h.size[c] >= w
    PROVE  \E b \in FreeBlocks(h) : FirstFit(h, w, b)
<1> DEFINE n == Cardinality(FreeBlocks(h))
<1>0. PICK W : EndlessList(h, W) /\ ListEnds(h, W, n)
  BY ListIsFree
<1>1. /\ \A k \in Nat : \A i \in 0 .. k : FreeList(h, k)[i] = W[i]
      /\ {W[i] : i \in 0 .. n - 1} = FreeBlocks(h)
  BY <1>0 DEF EndlessList, ListEnds
<1>2. n \in Nat
  BY FreeIsFinite
<1>3. \A x \in FreeBlocks(h) : h.size[x] \in Int
  BY BlocksAre
<1> HIDE DEF n
<1>4. {i \in 0 .. n - 1 : h.size[W[i]] >= w} # {}
  BY <1>1
<1>5. PICK k \in 0 .. n - 1 : h.size[W[k]] >= w /\ \A i \in 0 .. n - 1 : h.size[W[i]] >= w => k <= i
  <2>1. {i \in 0 .. n - 1 : h.size[W[i]] >= w} \in SUBSET Nat
    BY <1>2
  <2> QED BY <1>4, <2>1, LeastOfNat
<1>6. k \in Nat
  BY <1>2
<1>7. /\ FreeList(h, k)[k] = W[k] /\ W[k] \in FreeBlocks(h)
      /\ \A i \in 0 .. k - 1 : FreeList(h, k)[i] = W[i] /\ W[i] \in FreeBlocks(h)
  BY <1>1, <1>2, <1>6
<1>8. \A i \in 0 .. k - 1 : h.size[W[i]] < w
  <2> TAKE i \in 0 .. k - 1
  <2>1. i \in 0 .. n - 1 /\ ~(k <= i)
    BY <1>2
  <2> QED BY <1>3, <1>5, <1>7, <2>1
<1>9. FirstFit(h, w, W[k])
  BY <1>5, <1>7, <1>8 DEF FirstFit, n
<1> QED BY <1>7, <1>9

--------------------------------------------------------------------------------
(* Heaps with the objects in them *)

(* heap_init_alloc makes one free block of all words. *)
LEMMA InitIsHeap ==
    ASSUME NEW n \in Nat, n > 2 * Block
    PROVE  LET h == InitHeap(n)
           IN  HeapOK(h) /\ h.base = n - Block /\ h.size[0] = n - Block - Phy /\ InUse(h) = {}
<1> DEFINE h == InitHeap(n)
<1>s. PICK s \in Nat : s = n - 4 /\ s > 4
  BY DEF Block
<1>1. /\ h.base = s /\ h.size = [b \in {0, s} |-> IF b = 0 THEN s - 2 ELSE -1]
      /\ h.phyPrev = [b \in {0, s} |-> IF b = 0 THEN s ELSE 0]
      /\ h.next = [b \in {0, s} |-> IF b = 0 THEN s ELSE 0]
      /\ h.prev = [b \in {0, s} |-> IF b = 0 THEN s ELSE 0]
  BY <1>s DEF InitHeap, Block, Phy
<1>2. Fields(h)
  BY <1>s DEF InitHeap, Fields, Block, Phy
<1> HIDE DEF h
<1>3. DOMAIN h.size = {0, s} /\ h.size[0] = s - 2 /\ h.size[s] = -1
  BY <1>s, <1>1
<1>4. IsHeap(h) /\ DOMAIN h.phyPrev = DOMAIN h.size
  BY <1>s, <1>1, <1>2 DEF IsHeap
<1>5. Tiles(s, {0, s}, h.size, h.phyPrev)
  BY <1>s, <1>1, <1>3 DEF Tiles, Wide
<1>6. FreeBlocks(h) = {0} /\ InUse(h) = {}
  BY <1>s, <1>1, <1>3 DEF FreeBlocks, InUse, Blocks, IsFree
<1>7. Listed(h) = {0, s}
  BY <1>1, <1>6 DEF Listed
<1>8. RingOn({0, s}, s, h.next, h.prev)
  <2>1. ASSUME NEW S \in SUBSET {0, s}, s \in S, \A x \in S : h.next[x] \in S PROVE S = {0, s}
    <3>1. h.next[s] = 0
      BY <1>s, <1>1
    <3> QED BY <2>1, <3>1
  <2>2. s \in {0, s} /\ h.next \in [{0, s} -> {0, s}] /\ h.prev \in [{0, s} -> {0, s}]
    BY <1>1
  <2>3. \A x \in {0, s} : h.prev[h.next[x]] = x /\ h.next[h.prev[x]] = x
    BY <1>s, <1>1
  <2> QED BY <2>1, <2>2, <2>3 DEF RingOn
<1>9. HeapOK(h)
  BY <1>1, <1>3, <1>4, <1>5, <1>7, <1>8 DEF HeapOK
<1>10. s = n - Block /\ s - 2 = n - Block - Phy
  BY <1>s DEF Block, Phy
<1> QED BY <1>1, <1>3, <1>6, <1>9, <1>10 DEF h

(* Sizes are rounded up. *)
LEMMA AlignedUp ==
    ASSUME NEW n \in Nat \ {0}
    PROVE  AlignUp(n) \in Nat /\ AlignUp(n) >= n /\ AlignUp(n) >= 2
<1>1. n % 2 \in 0 .. 1 /\ (n = 1 => n % 2 = 1)
  OBVIOUS
<1> QED BY <1>1 DEF AlignUp, Phy

--------------------------------------------------------------------------------
Object == [mem : Memory, at : Nat, words : Sizes]

(* A heap of c words is sound, and its blocks in use are those of the objects in it. *)
HeapHolds(h, mine, c) ==
    /\ HeapOK(h) /\ h.base = c - Block
    /\ InUse(h) = {o.at - Phy : o \in mine}
    /\ \A o \in mine : Words(h, o.at - Phy) >= o.words
    /\ \A o, q \in mine : o.at = q.at => o = q

(* Objects lie apart. *)
Apart(mine, c) ==
    /\ \A o \in mine : o.at + o.words <= c
    /\ \A o, q \in mine : o = q \/ o.at + o.words <= q.at \/ q.at + q.words <= o.at

(* Those in a heap do: their blocks lie end to end. *)
LEMMA HeldApart ==
    ASSUME NEW h, NEW mine \in SUBSET Object, NEW c \in Nat, HeapHolds(h, mine, c)
    PROVE  Apart(mine, c)
<1>1. /\ Tiles(h.base, DOMAIN h.size, h.size, h.phyPrev) /\ h.base \in Nat /\ h.base = c - 4
      /\ InUse(h) = {o.at - 2 : o \in mine}
      /\ \A o \in mine : Words(h, o.at - 2) >= o.words
  BY DEF HeapHolds, HeapOK, IsHeap, Fields, Block, Phy
<1>2. \A o \in mine : o.at \in Nat /\ o.words \in Nat
  BY MemoryAssumption DEF Object
<1>3. \A x \in InUse(h) : /\ x \in DOMAIN h.size \ {h.base} /\ x \in Nat /\ Words(h, x) \in Nat
                          /\ x + Words(h, x) + 2 <= h.base
                          /\ \A y \in DOMAIN h.size : y <= x \/ y >= x + Words(h, x) + 2
  <2> TAKE x \in InUse(h)
  <2>1. x \in DOMAIN h.size \ {h.base} /\ Words(h, x) = Wide(h.size[x])
    BY BlocksAre DEF HeapHolds
  <2> QED BY <1>1, <2>1, TileIs
<1>4. \A o \in mine : o.at + o.words <= c
  <2> TAKE o \in mine
  <2>1. PICK x : x = o.at - 2 /\ x \in InUse(h)
    BY <1>1
  <2>2. x + Words(h, x) + 2 <= h.base /\ Words(h, x) >= o.words /\ Words(h, x) \in Nat
    BY <1>1, <1>3, <2>1
  <2> QED BY <1>1, <1>2, <2>1, <2>2
<1>5. ASSUME NEW o \in mine, NEW q \in mine, o # q
      PROVE  o.at + o.words <= q.at \/ q.at + q.words <= o.at
  <2>1. PICK x : x = o.at - 2 /\ x \in InUse(h)
    BY <1>1
  <2>2. PICK y : y = q.at - 2 /\ y \in InUse(h)
    BY <1>1
  <2>3. x # y
    BY <1>2, <1>5, <2>1, <2>2 DEF HeapHolds
  <2>4. /\ Words(h, x) >= o.words /\ Words(h, x) \in Nat /\ x \in Nat
        /\ y <= x \/ y >= x + Words(h, x) + 2
    BY <1>1, <1>3, <2>1, <2>2
  <2>5. /\ Words(h, y) >= q.words /\ Words(h, y) \in Nat /\ y \in Nat
        /\ x <= y \/ x >= y + Words(h, y) + 2
    BY <1>1, <1>3, <2>1, <2>2
  <2> QED BY <1>2, <2>1, <2>2, <2>3, <2>4, <2>5
<1> QED BY <1>4, <1>5 DEF Apart

(* A heap that is set up holds nothing. *)
LEMMA InitHolds ==
    ASSUME NEW c \in Nat, c > 2 * Block
    PROVE  HeapHolds(InitHeap(c), {}, c) /\ InitHeap(c).size[0] = c - Block - Phy
BY InitIsHeap DEF HeapHolds

(* heap_alloc adds the new object, *)
LEMMA AllocHolds ==
    ASSUME NEW h, NEW mine \in SUBSET Object, NEW c, HeapHolds(h, mine, c),
           NEW b \in FreeBlocks(h), NEW n \in Sizes, h.size[b] >= AlignUp(n),
           NEW m \in Memory, \A o \in mine : o.mem = m
    PROVE  LET new == [mem |-> m, at |-> b + Phy, words |-> n]
           IN  /\ HeapHolds(Alloc(h, b, AlignUp(n)), mine \cup {new}, c)
               /\ new \in Object /\ new \notin mine
<1> DEFINE new == [mem |-> m, at |-> b + Phy, words |-> n]
           g == Alloc(h, b, AlignUp(n))
<1>0. n \in Nat \ {0}
  BY MemoryAssumption
<1>1. AlignUp(n) \in Nat /\ AlignUp(n) >= n /\ AlignUp(n) >= 2
  BY <1>0, AlignedUp
<1>2. /\ HeapOK(g) /\ g.base = h.base /\ InUse(g) = InUse(h) \cup {b}
      /\ \A x \in InUse(h) : Words(g, x) = Words(h, x)
      /\ Words(g, b) >= AlignUp(n)
  BY <1>1, AllocKeeps DEF HeapHolds
<1>3. b \notin InUse(h) /\ b \in Nat
  <2>1. Tiles(h.base, DOMAIN h.size, h.size, h.phyPrev) /\ h.base \in Nat
    BY DEF HeapHolds, HeapOK, IsHeap, Fields
  <2> QED BY <2>1 DEF InUse, FreeBlocks, Blocks, Tiles
<1>4. new \in Object /\ new.at - Phy = b /\ new.words = n /\ new.at = b + Phy /\ new.mem = m
  BY <1>3 DEF Object, Phy
<1>5. \A o \in mine : o.at \in Nat /\ o.at - Phy \in InUse(h) /\ o.at # new.at
  <2> TAKE o \in mine
  <2>1. o.at \in Nat /\ o.at - Phy \in InUse(h)
    BY DEF Object, HeapHolds
  <2> QED BY <1>3, <1>4, <2>1
<1>6. new \notin mine
  BY <1>5
<1>7. Words(g, b) \in Int /\ Words(g, b) >= n
  <2>1. \A x \in DOMAIN g.size : g.size[x] \in Int
    BY <1>2 DEF HeapOK, IsHeap
  <2>2. b \in DOMAIN g.size
    BY <1>2 DEF InUse, Blocks
  <2> QED BY <1>0, <1>1, <1>2, <2>1, <2>2 DEF Words
<1> HIDE DEF new, g
<1>8. InUse(g) = {o.at - Phy : o \in mine \cup {new}}
  BY <1>2, <1>4 DEF HeapHolds
<1>9. \A o \in mine \cup {new} : Words(g, o.at - Phy) >= o.words
  BY <1>2, <1>4, <1>5, <1>7 DEF HeapHolds
<1>10. \A o, q \in mine \cup {new} : o.at = q.at => o = q
  BY <1>5 DEF HeapHolds
<1>11. HeapHolds(g, mine \cup {new}, c)
  BY <1>2, <1>8, <1>9, <1>10 DEF HeapHolds
<1> QED BY <1>4, <1>6, <1>11 DEF new, g

(* heap_free takes one away. *)
LEMMA FreeHolds ==
    ASSUME NEW h, NEW mine \in SUBSET Object, NEW c, HeapHolds(h, mine, c), NEW o \in mine
    PROVE  HeapHolds(Free(h, o.at - Phy), mine \ {o}, c)
<1> DEFINE g == Free(h, o.at - Phy)
           b == o.at - Phy
<1>1. HeapOK(h) /\ b \in InUse(h)
  BY DEF HeapHolds
<1>2. /\ HeapOK(g) /\ g.base = h.base /\ InUse(g) = InUse(h) \ {b}
      /\ \A x \in InUse(h) \ {b} : Words(g, x) = Words(h, x)
  BY <1>1, FreeKeeps DEF Freed
<1>3. \A q \in mine \ {o} : q.at - Phy \in InUse(h) /\ q.at - Phy # b
  <2> TAKE q \in mine \ {o}
  <2>1. q.at \in Nat /\ o.at \in Nat /\ q.at # o.at /\ q.at - Phy \in InUse(h)
    BY DEF HeapHolds, Object
  <2> QED BY <2>1 DEF Phy
<1> HIDE DEF g
<1>4. InUse(g) = {q.at - Phy : q \in mine \ {o}}
  <2>1. InUse(h) = {q.at - Phy : q \in mine}
    BY DEF HeapHolds
  <2> QED BY <1>2, <1>3, <2>1
<1>5. \A q \in mine \ {o} : Words(g, q.at - Phy) >= q.words
  BY <1>2, <1>3 DEF HeapHolds
<1>6. HeapHolds(g, mine \ {o}, c)
  BY <1>2, <1>4, <1>5 DEF HeapHolds
<1> QED BY <1>6 DEF g

--------------------------------------------------------------------------------
(* Words that no block in use reaches into belong to one free block. *)
LEMMA RoomIsFree ==
    ASSUME NEW h, HeapOK(h), NEW w \in Nat,
           NEW x \in 0 .. h.base - w - Phy,
           (x .. x + w + Phy - 1) \cap UNION {b .. After(h, b) - 1 : b \in InUse(h)} = {}
    PROVE  \E c \in FreeBlocks(h) : h.size[c] >= w
<1> DEFINE D == DOMAIN h.size
           s == h.base
<1>1. /\ Tiles(s, D, h.size, h.phyPrev) /\ s \in Nat /\ D \in SUBSET Nat /\ 0 \in D /\ x \in Nat
      /\ x + w + 2 <= s
  BY DEF HeapOK, IsHeap, Fields, Tiles, Phy
<1>2. \A b \in InUse(h) : \A y \in x .. x + w + 1 : ~(y \in b .. After(h, b) - 1)
  <2>1. x + w + Phy - 1 = x + w + 1
    BY <1>1 DEF Phy
  <2>2. (x .. x + w + 1) \cap UNION {b .. After(h, b) - 1 : b \in InUse(h)} = {}
    BY <2>1, Zenon
  <2> QED BY <2>2
<1>3. /\ \A b : b \in FreeBlocks(h) <=> b \in D /\ b # s /\ h.size[b] > 0
      /\ \A b : b \in InUse(h) <=> b \in D /\ b # s /\ ~(h.size[b] > 0)
      /\ \A b : After(h, b) = b + Wide(h.size[b]) + 2
  BY BlocksAre
<1> HIDE DEF D, s
<1>4. PICK c \in D : c <= x /\ \A d \in D : d <= x => d <= c
  BY <1>1, LastUpTo
<1>5. c \in D \ {s}
  BY <1>1, <1>4
<1>6. PICK a : a = c + Wide(h.size[c]) + 2
  OBVIOUS
<1>7. /\ c \in Nat /\ h.size[c] \in Int /\ Wide(h.size[c]) \in Nat /\ a \in D /\ a \in Nat
      /\ (h.size[c] > 0 => Wide(h.size[c]) = h.size[c] /\ ~(h.size[a] > 0))
  BY <1>1, <1>5, <1>6, TileIs
<1>8. a > x
  BY <1>1, <1>4, <1>6, <1>7
<1>9. h.size[c] > 0
  <2> SUFFICES ASSUME ~(h.size[c] > 0) PROVE FALSE
    OBVIOUS
  <2>1. c \in InUse(h)
    BY <1>3, <1>5
  <2>2. x \in x .. x + w + 1 /\ x \in c .. a - 1
    BY <1>1, <1>4, <1>7, <1>8
  <2> QED BY <1>2, <1>3, <1>6, <2>1, <2>2
<1>10. a >= x + w + 2
  <2>1. CASE a = s
    BY <1>1, <2>1
  <2>2. CASE a # s
    <3>1. a \in InUse(h) /\ a \in D \ {s}
      BY <1>3, <1>7, <1>9, <2>2
    <3>2. Wide(h.size[a]) \in Nat
      BY <1>1, <3>1, TileIs
    <3>3. a \in a .. After(h, a) - 1
      BY <1>3, <1>7, <3>2
    <3>4. ~(a \in x .. x + w + 1)
      BY <1>2, <3>1, <3>3
    <3> QED BY <1>1, <1>7, <1>8, <3>4
  <2> QED BY <2>1, <2>2
<1>11. h.size[c] >= w
  BY <1>1, <1>4, <1>6, <1>7, <1>9, <1>10
<1>12. c \in FreeBlocks(h)
  BY <1>3, <1>5, <1>9
<1> QED BY <1>11, <1>12

--------------------------------------------------------------------------------
(* The inductive invariant: every heap that is ready is sound and holds   *)
(* just the objects in it, a static memory has given out its end.          *)

In(m) == {o \in owned : o.mem = m}

(* A static memory of c words gives them out from its end. *)
StaticHolds(left, mine, c) ==
    left \in 0 .. c /\ Apart(mine, c) /\ \A o \in mine : left <= o.at

Kinds ==
    /\ ready \subseteq Memory /\ DOMAIN heap = HeapMem
    /\ size \in [Memory -> Nat] /\ free \in [StaticMem -> Nat]
    /\ owned \subseteq Object /\ \A o \in owned : o.mem \in ready

HeapsHold ==
    \A m \in HeapMem :
        IF m \in ready
        THEN HeapHolds(heap[m], In(m), Capacity[m]) /\ size[m] = Capacity[m] - Block - Phy
        ELSE size[m] = Capacity[m] /\ heap[m].base = 0

StaticsHold ==
    \A m \in StaticMem :
        size[m] = Capacity[m] /\ (m \in ready => StaticHolds(free[m], In(m), Capacity[m]))

PoolsHold == pools \in Seq(HeapMem) /\ Len(pools) <= NPools

MemInv == Kinds /\ HeapsHold /\ StaticsHold /\ PoolsHold

(* No memory is set up. *)
LEMMA InitMem == Init => MemInv
<1> SUFFICES ASSUME Init PROVE MemInv
  OBVIOUS
<1> USE MemoryAssumption DEF Init
<1>1. Kinds
  BY DEF Kinds, Memory
<1>2. HeapsHold
  BY DEF HeapsHold, NoHeap
<1>3. StaticsHold
  BY DEF StaticsHold, Memory
<1>4. PoolsHold
  BY DEF PoolsHold
<1> QED BY <1>1, <1>2, <1>3, <1>4 DEF MemInv

(* An object is added to a memory, or nothing is. *)
Adds(m, n) ==
    \/ owned' = owned
    \/ \E o \in Object : /\ o \notin owned /\ o.mem = m /\ o.words = n
                         /\ owned' = owned \cup {o}

(* What is in the other memories stays. *)
LEMMA OthersStay ==
    ASSUME NEW m, NEW n, Adds(m, n), NEW k, k # m
    PROVE  In(k)' = In(k)
BY DEF Adds, In

(* nmem_alloc_i of a heap, which may have to be set up first, *)
LEMMA HeapAllocKeeps ==
    ASSUME MemInv, NEW m \in HeapMem, NEW n \in Sizes, HeapAlloc(m, n),
           ready' = ready \cup {m}, UNCHANGED pools
    PROVE  MemInv' /\ Adds(m, n)
<1> DEFINE h == ReadyHeap(m)
           w == AlignUp(n)
           c == Capacity[m]
<1> USE DEF MemInv
<1>0. m \in Memory /\ c \in Nat /\ c > 2 * Block /\ m \notin StaticMem
  BY MemoryAssumption DEF Memory
<1>1. HeapHolds(h, In(m), c) /\ (m \notin ready => In(m) = {} /\ h.size[0] = c - Block - Phy)
  <2>1. CASE m \in ready
    BY <2>1 DEF HeapsHold, ReadyHeap
  <2>2. CASE m \notin ready
    <3>1. In(m) = {} /\ h = InitHeap(c)
      BY <2>2 DEF Kinds, HeapsHold, ReadyHeap, In
    <3> QED BY <1>0, <2>2, <3>1, InitHolds
  <2> QED BY <2>1, <2>2
<1>2. /\ size' = IF m \in ready THEN size ELSE [size EXCEPT ![m] = h.size[0]]
      /\ free' = free
  BY DEF HeapAlloc
<1>3. PICK g : /\ heap' = [heap EXCEPT ![m] = g] /\ HeapHolds(g, In(m)', c) /\ Adds(m, n)
  <2>1. CASE \E b \in FreeBlocks(h) :
                /\ FirstFit(h, w, b) /\ heap' = [heap EXCEPT ![m] = Alloc(h, b, w)]
                /\ owned' = owned \cup {[mem |-> m, at |-> b + Phy, words |-> n]}
    <3>1. PICK b \in FreeBlocks(h) :
                /\ FirstFit(h, w, b) /\ heap' = [heap EXCEPT ![m] = Alloc(h, b, w)]
                /\ owned' = owned \cup {[mem |-> m, at |-> b + Phy, words |-> n]}
      BY <2>1
    <3> DEFINE new == [mem |-> m, at |-> b + Phy, words |-> n]
    <3>2. h.size[b] >= w
      BY <3>1 DEF FirstFit
    <3>3. In(m) \in SUBSET Object /\ \A o \in In(m) : o.mem = m
      BY DEF In, Kinds
    <3>4. HeapHolds(Alloc(h, b, w), In(m) \cup {new}, c) /\ new \in Object /\ new \notin In(m)
      <4> HIDE DEF h
      <4> QED BY <1>0, <1>1, <3>2, <3>3, AllocHolds
    <3>5. new.mem = m /\ new.words = n
      OBVIOUS
    <3> HIDE DEF new
    <3>6. owned' = owned \cup {new}
      BY <3>1 DEF new
    <3>7. In(m)' = In(m) \cup {new} /\ new \notin owned
      BY <3>4, <3>5, <3>6 DEF In
    <3> QED BY <3>1, <3>4, <3>5, <3>6, <3>7 DEF Adds
  <2>2. CASE heap' = [heap EXCEPT ![m] = h] /\ owned' = owned
    <3>1. In(m)' = In(m)
      BY <2>2 DEF In
    <3> QED BY <1>1, <2>2, <3>1 DEF Adds
  <2> QED BY <2>1, <2>2 DEF HeapAlloc
<1> HIDE DEF h
<1>4. Kinds'
  <2>1. size' \in [Memory -> Nat]
    BY <1>0, <1>1, <1>2 DEF Kinds, Block, Phy
  <2>2. owned' \subseteq Object /\ \A o \in owned' : o.mem \in ready'
    BY <1>3 DEF Kinds, Adds
  <2> QED BY <1>0, <1>2, <1>3, <2>1, <2>2 DEF Kinds
<1>5. HeapsHold'
  <2> SUFFICES ASSUME NEW k \in HeapMem
               PROVE  IF k \in ready'
                      THEN HeapHolds(heap'[k], In(k)', Capacity[k]) /\ size'[k] = Capacity[k] - Block - Phy
                      ELSE size'[k] = Capacity[k] /\ heap'[k].base = 0
    BY DEF HeapsHold
  <2>1. CASE k = m
    <3>1. heap'[m] = g /\ size'[m] = c - Block - Phy
      BY <1>0, <1>1, <1>2, <1>3 DEF Kinds, HeapsHold
    <3> QED BY <1>3, <2>1, <3>1
  <2>2. CASE k # m
    <3>1. In(k)' = In(k)
      BY <1>3, <2>2, OthersStay
    <3>2. heap'[k] = heap[k] /\ size'[k] = size[k]
      BY <1>0, <1>2, <1>3, <2>2 DEF Kinds, Memory
    <3> QED BY <2>2, <3>1, <3>2 DEF HeapsHold
  <2> QED BY <2>1, <2>2
<1>6. StaticsHold'
  <2> SUFFICES ASSUME NEW k \in StaticMem
               PROVE  size'[k] = Capacity[k] /\ (k \in ready' => StaticHolds(free'[k], In(k)', Capacity[k]))
    BY DEF StaticsHold
  <2>1. In(k)' = In(k) /\ k # m
    BY <1>0, <1>3, OthersStay
  <2>2. size'[k] = size[k]
    BY <1>0, <1>2, <2>1 DEF Kinds, Memory
  <2> QED BY <1>2, <2>1, <2>2 DEF StaticsHold
<1>7. PoolsHold'
  BY DEF PoolsHold
<1> QED BY <1>3, <1>4, <1>5, <1>6, <1>7

(* of a static memory, *)
LEMMA StaticAllocKeeps ==
    ASSUME MemInv, NEW m \in StaticMem, NEW n \in Sizes, StaticAlloc(m, n),
           ready' = ready \cup {m}, UNCHANGED pools
    PROVE  MemInv' /\ Adds(m, n)
<1> USE DEF MemInv
<1> DEFINE left == IF m \in ready THEN free[m] ELSE size[m]
           c == Capacity[m]
           new == [mem |-> m, at |-> left - n, words |-> n]
<1>0. m \in Memory /\ c \in Nat /\ m \notin HeapMem /\ n \in Nat /\ n > 0
  BY MemoryAssumption DEF Memory
<1>1. /\ free' = [free EXCEPT ![m] = IF n <= left THEN left - n ELSE left]
      /\ owned' = IF n <= left THEN owned \cup {new} ELSE owned
      /\ heap' = heap /\ size' = size
  BY DEF StaticAlloc
<1>2. left \in 0 .. c /\ Apart(In(m), c) /\ \A o \in In(m) : left <= o.at /\ o \in Object
  <2>1. CASE m \in ready
    BY <2>1 DEF StaticsHold, StaticHolds, In, Kinds
  <2>2. CASE m \notin ready
    <3>1. In(m) = {} /\ left = c
      BY <2>2 DEF StaticsHold, Kinds, In
    <3> QED BY <1>0, <3>1 DEF Apart
  <2> QED BY <2>1, <2>2
<1> HIDE DEF left
<1>3. new.mem = m /\ new.at = left - n /\ new.words = n
  OBVIOUS
<1>4. n <= left => new \in Object /\ new \notin owned
  <2>1. n <= left => new \in Object
    BY <1>0, <1>2 DEF Object
  <2>2. n <= left => new \notin In(m)
    BY <1>0, <1>2, <1>3
  <2> QED BY <1>3, <2>1, <2>2 DEF In
<1> HIDE DEF new
<1>5. Adds(m, n)
  BY <1>1, <1>3, <1>4 DEF Adds
<1>6. StaticHolds(free'[m], In(m)', c)
  <2>1. CASE n <= left
    <3>1. In(m)' = In(m) \cup {new}
      BY <1>1, <1>3, <2>1 DEF In
    <3>2. free'[m] = left - n
      BY <1>1, <2>1 DEF Kinds
    <3>3. \A o \in In(m) : o.at \in Nat /\ o.words \in Nat /\ left <= o.at /\ new.at + new.words <= o.at
      <4> TAKE o \in In(m)
      <4>1. o.at \in Nat /\ o.words \in Nat
        BY <1>2, MemoryAssumption DEF Object
      <4> QED BY <1>0, <1>2, <1>3, <4>1
    <3>4. Apart(In(m) \cup {new}, c)
      <4>1. new.at + new.words <= c
        BY <1>0, <1>2, <1>3
      <4> QED BY <1>2, <3>3, <4>1 DEF Apart
    <3>5. \A o \in In(m) \cup {new} : left - n <= o.at
      BY <1>0, <1>2, <1>3, <3>3
    <3>6. left - n \in 0 .. c
      BY <1>0, <1>2, <2>1
    <3> QED BY <3>1, <3>2, <3>4, <3>5, <3>6 DEF StaticHolds
  <2>2. CASE ~(n <= left)
    <3>1. In(m)' = In(m) /\ free'[m] = left
      BY <1>1, <2>2 DEF In, Kinds
    <3> QED BY <1>2, <3>1 DEF StaticHolds
  <2> QED BY <2>1, <2>2
<1>7. Kinds'
  <2>1. free' \in [StaticMem -> Nat]
    BY <1>0, <1>1, <1>2 DEF Kinds
  <2>2. owned' \subseteq Object /\ \A o \in owned' : o.mem \in ready'
    BY <1>5 DEF Kinds, Adds
  <2> QED BY <1>0, <1>1, <2>1, <2>2 DEF Kinds
<1>8. HeapsHold'
  <2> SUFFICES ASSUME NEW k \in HeapMem
               PROVE  IF k \in ready'
                      THEN HeapHolds(heap'[k], In(k)', Capacity[k]) /\ size'[k] = Capacity[k] - Block - Phy
                      ELSE size'[k] = Capacity[k] /\ heap'[k].base = 0
    BY DEF HeapsHold
  <2>1. k # m
    BY <1>0
  <2>2. In(k)' = In(k) /\ (k \in ready' <=> k \in ready)
    BY <1>5, <2>1, OthersStay
  <2> QED BY <1>1, <2>2 DEF HeapsHold
<1>9. StaticsHold'
  <2> SUFFICES ASSUME NEW k \in StaticMem
               PROVE  size'[k] = Capacity[k] /\ (k \in ready' => StaticHolds(free'[k], In(k)', Capacity[k]))
    BY DEF StaticsHold
  <2>1. CASE k = m
    BY <1>1, <1>6, <2>1 DEF StaticsHold
  <2>2. CASE k # m
    <3>1. In(k)' = In(k) /\ free'[k] = free[k]
      BY <1>1, <1>5, <2>2, OthersStay DEF Kinds
    <3> QED BY <1>1, <2>2, <3>1 DEF StaticsHold
  <2> QED BY <2>1, <2>2
<1>10. PoolsHold'
  BY DEF PoolsHold
<1> QED BY <1>5, <1>7, <1>8, <1>9, <1>10

(* of either *)
LEMMA AllocInKeeps ==
    ASSUME MemInv, NEW m \in Memory, NEW n \in Sizes, AllocIn(m, n)
    PROVE  MemInv' /\ Adds(m, n)
BY HeapAllocKeeps, StaticAllocKeeps DEF AllocIn, Memory

(* nmem_free_i *)
LEMMA FreeInKeeps ==
    ASSUME MemInv, NEW o \in owned, FreeIn(o.mem, o)
    PROVE  MemInv' /\ owned' = owned \ {o}
<1> USE DEF MemInv
<1>1. PICK m \in HeapMem : m = o.mem
  BY DEF FreeIn
<1>2. /\ heap' = [heap EXCEPT ![m] = Free(heap[m], o.at - Phy)] /\ owned' = owned \ {o}
      /\ ready' = ready /\ size' = size /\ free' = free /\ pools' = pools
  BY <1>1 DEF FreeIn
<1>3. m \in ready /\ o \in In(m) /\ In(m) \in SUBSET Object /\ m \notin StaticMem
  BY <1>1, MemoryAssumption DEF Kinds, In
<1>4. HeapHolds(Free(heap[m], o.at - Phy), In(m) \ {o}, Capacity[m])
  BY <1>3, FreeHolds DEF HeapsHold
<1>5. In(m)' = In(m) \ {o} /\ \A k : k # m => In(k)' = In(k)
  BY <1>1, <1>2 DEF In
<1>6. Kinds'
  BY <1>2 DEF Kinds
<1>7. HeapsHold'
  <2> SUFFICES ASSUME NEW k \in HeapMem
               PROVE  IF k \in ready'
                      THEN HeapHolds(heap'[k], In(k)', Capacity[k]) /\ size'[k] = Capacity[k] - Block - Phy
                      ELSE size'[k] = Capacity[k] /\ heap'[k].base = 0
    BY DEF HeapsHold
  <2>1. CASE k = m
    <3>1. heap'[m] = Free(heap[m], o.at - Phy)
      BY <1>2 DEF Kinds
    <3> QED BY <1>2, <1>3, <1>4, <1>5, <2>1, <3>1 DEF HeapsHold
  <2>2. CASE k # m
    <3>1. heap'[k] = heap[k]
      BY <1>2, <2>2 DEF Kinds
    <3> QED BY <1>2, <1>5, <2>2, <3>1 DEF HeapsHold
  <2> QED BY <2>1, <2>2
<1>8. StaticsHold'
  BY <1>2, <1>3, <1>5 DEF StaticsHold
<1>9. PoolsHold'
  BY <1>2 DEF PoolsHold
<1> QED BY <1>2, <1>6, <1>7, <1>8, <1>9

--------------------------------------------------------------------------------
(* The table of memories *)

(* The place of a new memory in the table *)
Fits(m, c) ==
    /\ c = 0 \/ size[pools[c]] <= size[m]
    /\ \A d \in c + 1 .. Len(pools) : size[pools[d]] > size[m]

(* InsertPool finds a place, and puts the memory there. *)
LEMMA InsertedPool ==
    ASSUME MemInv, NEW m \in HeapMem
    PROVE  \E i \in 0 .. Len(pools) :
              /\ Fits(m, i)
              /\ InsertPool(m) \in Seq(HeapMem) /\ Len(InsertPool(m)) = Len(pools) + 1
              /\ \A j \in 1 .. Len(pools) + 1 :
                    InsertPool(m)[j] = IF j <= i THEN pools[j]
                                       ELSE IF j = i + 1 THEN m ELSE pools[j - 1]
<1>1. pools \in Seq(HeapMem) /\ Len(pools) \in Nat
  BY DEF MemInv, PoolsHold
<1>2. \E c \in 0 .. Len(pools) : Fits(m, c)
  <2> DEFINE S == {c \in 0 .. Len(pools) : c = 0 \/ size[pools[c]] <= size[m]}
  <2>1. S \in SUBSET Nat /\ 0 \in S
    BY <1>1
  <2>2. PICK c \in S : c <= Len(pools) /\ \A d \in S : d <= Len(pools) => d <= c
    <3> HIDE DEF S
    <3>1. \E c \in S : c <= Len(pools)
      BY <1>1, <2>1
    <3> QED BY <1>1, <2>1, <3>1, LastUpTo
  <2>3. \A d \in c + 1 .. Len(pools) : size[pools[d]] > size[m]
    <3> TAKE d \in c + 1 .. Len(pools)
    <3>1. d \in 1 .. Len(pools) /\ d \notin S
      BY <1>1, <2>2
    <3>2. size[pools[d]] \in Nat /\ size[m] \in Nat
      BY <1>1, <3>1 DEF MemInv, Kinds, Memory
    <3> QED BY <3>1, <3>2
  <2> QED BY <2>2, <2>3 DEF Fits
<1>3. PICK i : i = CHOOSE c \in 0 .. Len(pools) : Fits(m, c)
  OBVIOUS
<1>4. i \in 0 .. Len(pools) /\ Fits(m, i)
  BY <1>2, <1>3, Zenon
<1>5. InsertPool(m) = SubSeq(pools, 1, i) \o <<m>> \o SubSeq(pools, i + 1, Len(pools))
  BY <1>3, Zenon DEF InsertPool, Fits
<1> DEFINE a == SubSeq(pools, 1, i)
           b == SubSeq(pools, i + 1, Len(pools))
           q == a \o <<m>>
<1>n. PICK n \in Nat : n = Len(pools)
  BY <1>1
<1>6. a \in Seq(HeapMem) /\ Len(a) = i /\ \A j \in 1 .. i : a[j] = pools[j]
  <2>1. \A j \in 1 .. i : pools[j] \in HeapMem
    BY <1>1, <1>4
  <2>2. 1 \in Int /\ i \in Int /\ i \in Nat
    BY <1>1, <1>4
  <2>3. /\ a \in Seq(HeapMem) /\ Len(a) = IF 1 <= i THEN i - 1 + 1 ELSE 0
        /\ \A j \in 1 .. i - 1 + 1 : a[j] = pools[1 + j - 1]
    BY <2>1, <2>2, SubSeqProperties
  <2> HIDE DEF a
  <2> QED BY <2>2, <2>3
<1>7. /\ b \in Seq(HeapMem) /\ Len(b) = n - i
      /\ \A j \in 1 .. n - i : b[j] = pools[i + j]
  <2>1. \A j \in i + 1 .. Len(pools) : pools[j] \in HeapMem
    BY <1>1, <1>4
  <2>2. i + 1 \in Int /\ Len(pools) \in Int /\ i \in Nat /\ i <= n
    BY <1>1, <1>4, <1>n
  <2>3. /\ b \in Seq(HeapMem)
        /\ Len(b) = IF i + 1 <= Len(pools) THEN Len(pools) - (i + 1) + 1 ELSE 0
        /\ \A j \in 1 .. Len(pools) - (i + 1) + 1 : b[j] = pools[i + 1 + j - 1]
    BY <2>1, <2>2, SubSeqProperties
  <2> HIDE DEF b
  <2>4. n - (i + 1) + 1 = n - i
    BY <2>2
  <2>5. \A j \in 1 .. n - i : i + 1 + j - 1 = i + j
    BY <2>2
  <2> QED BY <1>n, <2>2, <2>3, <2>4, <2>5
<1> HIDE DEF a, b
<1>8. /\ q \in Seq(HeapMem) /\ Len(q) = i + 1
      /\ \A j \in 1 .. i + 1 : q[j] = IF j <= i THEN pools[j] ELSE m
  <2>1. <<m>> \in Seq(HeapMem) /\ Len(<<m>>) = 1 /\ <<m>>[1] = m
    OBVIOUS
  <2>2. /\ q \in Seq(HeapMem) /\ Len(q) = Len(a) + Len(<<m>>)
        /\ \A j \in 1 .. Len(a) + Len(<<m>>) :
              q[j] = IF j <= Len(a) THEN a[j] ELSE <<m>>[j - Len(a)]
    BY <1>6, <2>1, ConcatProperties
  <2> HIDE DEF q
  <2>3. \A j \in 1 .. i + 1 : ~(j <= i) => j - i = 1
    BY <1>4
  <2>4. \A j \in 1 .. i + 1 : j <= i => j \in 1 .. i
    BY <1>4
  <2> QED BY <1>6, <2>1, <2>2, <2>3, <2>4
<1>9. InsertPool(m) = q \o b
  BY <1>5 DEF a, b
<1> HIDE DEF q
<1>10. /\ InsertPool(m) \in Seq(HeapMem) /\ Len(InsertPool(m)) = i + 1 + (n - i)
       /\ \A j \in 1 .. i + 1 + (n - i) :
             InsertPool(m)[j] = IF j <= i + 1 THEN q[j] ELSE b[j - (i + 1)]
  <2>1. /\ q \o b \in Seq(HeapMem) /\ Len(q \o b) = Len(q) + Len(b)
        /\ \A j \in 1 .. Len(q) + Len(b) :
              (q \o b)[j] = IF j <= Len(q) THEN q[j] ELSE b[j - Len(q)]
    BY <1>7, <1>8, ConcatProperties
  <2> QED BY <1>7, <1>8, <1>9, <2>1
<1>11. i \in Nat /\ i + 1 + (n - i) = n + 1
  BY <1>4, <1>n
<1>12. ASSUME NEW j \in 1 .. n + 1
       PROVE  InsertPool(m)[j] = IF j <= i THEN pools[j] ELSE IF j = i + 1 THEN m ELSE pools[j - 1]
  <2>0. InsertPool(m)[j] = IF j <= i + 1 THEN q[j] ELSE b[j - (i + 1)]
    BY <1>10, <1>11
  <2>1. CASE j <= i + 1
    <3>1. j \in 1 .. i + 1
      BY <1>11, <2>1
    <3>2. q[j] = IF j <= i THEN pools[j] ELSE m
      BY <1>8, <3>1
    <3>3. ~(j <= i) => j = i + 1
      BY <1>11, <2>1
    <3> QED BY <2>0, <2>1, <3>2, <3>3
  <2>2. CASE ~(j <= i + 1)
    <3>1. j - (i + 1) \in 1 .. n - i /\ i + (j - (i + 1)) = j - 1 /\ ~(j <= i) /\ j # i + 1
      BY <1>11, <2>2
    <3>2. b[j - (i + 1)] = pools[j - 1]
      BY <1>7, <3>1
    <3> QED BY <2>0, <2>2, <3>1, <3>2
  <2> QED BY <2>1, <2>2
<1> QED BY <1>4, <1>n, <1>10, <1>11, <1>12

(* nevent_register_mem *)
LEMMA RegisterKeeps ==
    ASSUME MemInv, NEW m \in HeapMem, RegisterMem(m)
    PROVE  MemInv' /\ owned' = owned
<1>1. /\ pools' = InsertPool(m) /\ Len(pools) < NPools
      /\ ready' = ready /\ heap' = heap /\ size' = size /\ free' = free /\ owned' = owned
  BY DEF RegisterMem
<1>2. InsertPool(m) \in Seq(HeapMem) /\ Len(InsertPool(m)) = Len(pools) + 1
  BY InsertedPool
<1>3. PoolsHold'
  BY <1>1, <1>2, MemoryAssumption DEF PoolsHold, MemInv
<1>4. Kinds' /\ HeapsHold' /\ StaticsHold'
  BY <1>1 DEF MemInv, Kinds, HeapsHold, StaticsHold, In
<1> QED BY <1>1, <1>3, <1>4 DEF MemInv

(* The place of the memory that find_memory_i picks *)
Found(n, i) ==
    /\ i = Len(pools) \/ size[pools[i]] >= n
    /\ \A j \in 1 .. i - 1 : size[pools[j]] < n

(* There is one as soon as the table is not empty. *)
LEMMA FoundMemory ==
    ASSUME MemInv, NEW n \in Sizes, pools # << >>
    PROVE  \E i \in 1 .. Len(pools) : Found(n, i) /\ FindMemory(n) = pools[i] /\ pools[i] \in HeapMem
<1>1. /\ pools \in Seq(HeapMem) /\ Len(pools) \in Nat /\ Len(pools) > 0 /\ n \in Nat
      /\ \A i \in 1 .. Len(pools) : pools[i] \in HeapMem /\ size[pools[i]] \in Nat
  BY MemoryAssumption DEF MemInv, PoolsHold, Kinds, Memory
<1>2. \E i \in 1 .. Len(pools) : Found(n, i)
  <2> DEFINE S == {i \in 1 .. Len(pools) : i = Len(pools) \/ size[pools[i]] >= n}
  <2>1. S \in SUBSET Nat /\ Len(pools) \in S
    BY <1>1
  <2>2. PICK i \in S : \A j \in S : i <= j
    <3> HIDE DEF S
    <3> QED BY <2>1, LeastOfNat
  <2>3. \A j \in 1 .. i - 1 : size[pools[j]] < n
    <3> TAKE j \in 1 .. i - 1
    <3>1. j \in 1 .. Len(pools) /\ j \notin S
      BY <1>1, <2>2
    <3> QED BY <1>1, <3>1
  <2> QED BY <2>2, <2>3 DEF Found
<1>3. PICK i : i = CHOOSE c \in 1 .. Len(pools) : Found(n, c)
  OBVIOUS
<1>4. i \in 1 .. Len(pools) /\ Found(n, i)
  BY <1>2, <1>3, Zenon
<1>5. FindMemory(n) = pools[i]
  BY <1>3, Zenon DEF FindMemory, Found
<1> QED BY <1>1, <1>4, <1>5

--------------------------------------------------------------------------------
(* A step of the next-state relation *)
Steps ==
    \/ \E m \in HeapMem : RegisterMem(m)
    \/ \E m \in Memory, n \in Sizes : AllocIn(m, n)
    \/ \E o \in owned : FreeIn(o.mem, o)

(* The calls differ in the memory they name. *)
LEMMA NextSteps == MemInv /\ Next => Steps
<1> SUFFICES ASSUME MemInv, Next PROVE Steps
  OBVIOUS
<1>1. CASE \E m \in HeapMem : RegisterMem(m)
  BY <1>1 DEF Steps
<1>2. ASSUME NEW n \in Sizes, Create(n) PROVE Steps
  <2>1. FindMemory(n) \in HeapMem
    BY <1>2, FoundMemory DEF Create
  <2> QED BY <1>2, <2>1 DEF Create, Steps, Memory
<1>3. ASSUME NEW n \in Sizes, CreateStorage(n) PROVE Steps
  BY <1>3, MemoryAssumption DEF CreateStorage, Steps, Memory
<1>4. ASSUME NEW n \in Sizes, NEW m \in Memory, CreateFrom(m, n) \/ AllocMachine(m, n) PROVE Steps
  BY <1>4 DEF CreateFrom, AllocMachine, Steps
<1>5. ASSUME NEW o \in owned, Forward(o) PROVE Steps
  <2>1. o \in Object
    BY DEF MemInv, Kinds
  <2> QED BY <1>5, <2>1 DEF Forward, Steps, Object
<1>6. ASSUME NEW o \in owned, Destroy(o) PROVE Steps
  BY <1>6 DEF Destroy, Steps
<1> QED BY <1>1, <1>2, <1>3, <1>4, <1>5, <1>6 DEF Next

(* Every step keeps the invariant. *)
LEMMA NextMem == MemInv /\ [Next]_vars => MemInv'
<1> SUFFICES ASSUME MemInv, [Next]_vars PROVE MemInv'
  OBVIOUS
<1>1. CASE Next
  <2>1. Steps
    BY <1>1, NextSteps
  <2> QED BY <2>1, RegisterKeeps, AllocInKeeps, FreeInKeeps DEF Steps
<1>2. CASE UNCHANGED vars
  BY <1>2 DEF vars, MemInv, Kinds, HeapsHold, StaticsHold, PoolsHold, In
<1> QED BY <1>1, <1>2

(* Every heap is sound and holds just the objects in it, whatever mix of   *)
(* allocations and releases has been made.                                 *)
THEOREM MemoryHolds == Spec => []MemInv
<1>1. Init => MemInv
  BY InitMem
<1>2. MemInv /\ [Next]_vars => MemInv'
  BY NextMem
<1> QED BY <1>1, <1>2, PTL DEF Spec

(* The fields that are not structures have their types. *)
THEOREM MemoryTypes == Spec => []TypeOK
<1>1. MemInv => TypeOK
  <2> SUFFICES ASSUME MemInv PROVE TypeOK
    OBVIOUS
  <2>1. \A m \in HeapMem : heap[m].base \in Nat
    BY DEF MemInv, HeapsHold, HeapHolds, HeapOK, IsHeap, Fields
  <2>2. pools \in Seq(Memory) /\ Len(pools) <= NPools
    BY DEF MemInv, PoolsHold, Memory
  <2> QED BY <2>1, <2>2 DEF TypeOK, MemInv, Kinds, Object
<1> QED BY <1>1, MemoryHolds, PTL

(* HeapsTiled: splits and merges leave the blocks of a heap end to end. *)
THEOREM HeapsStayTiled == Spec => []HeapsTiled
<1>1. MemInv => HeapsTiled
  <2> SUFFICES ASSUME MemInv, NEW m \in Heaps PROVE Tiled(heap[m]) /\ heap[m].base = Capacity[m] - Block
    BY DEF HeapsTiled
  <2>1. HeapHolds(heap[m], In(m), Capacity[m])
    BY DEF MemInv, HeapsHold, Heaps
  <2> QED BY <2>1, TiledIs DEF HeapHolds, HeapOK
<1> QED BY <1>1, MemoryHolds, PTL

(* FreeListIsRing: whichever case of heap_free is taken, the free list     *)
(* leads through all free blocks and back to the sentinel.                 *)
THEOREM FreeListsAreRings == Spec => []FreeListIsRing
<1>1. MemInv => FreeListIsRing
  <2> SUFFICES ASSUME MemInv, NEW m \in Heaps
               PROVE  LET h == heap[m]
                          n == Cardinality(FreeBlocks(h))
                          list == FreeList(h, n)
                      IN  /\ Linked(h) /\ list[n] = h.base
                          /\ {list[i] : i \in 0 .. n - 1} = FreeBlocks(h)
    BY DEF FreeListIsRing
  <2> DEFINE h == heap[m]
             n == Cardinality(FreeBlocks(h))
  <2>1. HeapOK(h)
    BY DEF MemInv, HeapsHold, Heaps, HeapHolds
  <2> HIDE DEF h
  <2>2. Linked(h)
    BY <2>1 DEF Linked, HeapOK, RingOn, Listed
  <2>3. PICK W : EndlessList(h, W) /\ ListEnds(h, W, n)
    BY <2>1, ListIsFree
  <2>4. n \in Nat
    BY <2>1, FreeIsFinite
  <2> HIDE DEF n
  <2>5. \A i \in 0 .. n : FreeList(h, n)[i] = W[i]
    BY <2>3, <2>4 DEF EndlessList
  <2>6. FreeList(h, n)[n] = h.base
    BY <2>3, <2>4, <2>5 DEF ListEnds
  <2>7. {FreeList(h, n)[i] : i \in 0 .. n - 1} = FreeBlocks(h)
    <3>1. \A i \in 0 .. n - 1 : FreeList(h, n)[i] = W[i]
      BY <2>4, <2>5
    <3>2. {W[i] : i \in 0 .. n - 1} = FreeBlocks(h)
      BY <2>3 DEF ListEnds
    <3> QED BY <3>1, <3>2
  <2> QED BY <2>2, <2>6, <2>7 DEF h, n
<1> QED BY <1>1, MemoryHolds, PTL

(* BlocksAreOwned: every block in use is that of one object, and no other. *)
THEOREM BlocksHaveOwners == Spec => []BlocksAreOwned
<1>1. MemInv => BlocksAreOwned
  BY DEF MemInv, HeapsHold, Heaps, HeapHolds, In, BlocksAreOwned
<1> QED BY <1>1, MemoryHolds, PTL

(* NoRoomIsWasted: heap_alloc finds any run of free words that is long     *)
(* enough.                                                                 *)
THEOREM RoomIsFound == Spec => []NoRoomIsWasted
<1>1. MemInv => NoRoomIsWasted
  <2> SUFFICES ASSUME MemInv, NEW m \in Heaps, NEW n \in Sizes,
                      NEW x \in 0 .. heap[m].base - AlignUp(n) - Phy,
                      (x .. x + AlignUp(n) + Phy - 1)
                        \cap UNION {b .. After(heap[m], b) - 1 : b \in InUse(heap[m])} = {}
               PROVE  \E b \in FreeBlocks(heap[m]) : FirstFit(heap[m], AlignUp(n), b)
    BY DEF NoRoomIsWasted
  <2>1. HeapOK(heap[m])
    BY DEF MemInv, HeapsHold, Heaps, HeapHolds
  <2>2. AlignUp(n) \in Nat
    BY AlignedUp, MemoryAssumption
  <2>3. PICK c \in FreeBlocks(heap[m]) : heap[m].size[c] >= AlignUp(n)
    BY <2>1, <2>2, RoomIsFree
  <2> QED BY <2>1, <2>2, <2>3, FitIsFound
<1> QED BY <1>1, MemoryHolds, PTL

--------------------------------------------------------------------------------
(* The memories for events differ by more than what a heap keeps of its words for itself. *)
FarApart ==
    \A m, k \in HeapMem : m # k => \/ Capacity[m] + Block + Phy < Capacity[k]
                                   \/ Capacity[k] + Block + Phy < Capacity[m]

(* Then the table is sorted, whichever of them are in use. *)
Sorted ==
    \A i, j \in 1 .. Len(pools) : i < j => Capacity[pools[i]] < Capacity[pools[j]]

(* The words a heap keeps for itself do not change their order. *)
LEMMA SizesAre ==
    ASSUME MemInv, FarApart, NEW m \in HeapMem, NEW k \in HeapMem, m # k
    PROVE  /\ size[m] < size[k] <=> Capacity[m] < Capacity[k]
           /\ size[m] > size[k] <=> ~(Capacity[m] < Capacity[k])
<1>1. \A x \in HeapMem : /\ Capacity[x] \in Nat
                         /\ size[x] = Capacity[x] \/ size[x] = Capacity[x] - 6
  BY MemoryAssumption DEF MemInv, HeapsHold, Memory, Block, Phy
<1>2. Capacity[m] + 6 < Capacity[k] \/ Capacity[k] + 6 < Capacity[m]
  <2>1. Capacity[m] + Block + Phy < Capacity[k] \/ Capacity[k] + Block + Phy < Capacity[m]
    BY DEF FarApart
  <2> QED BY <1>1, <2>1 DEF Block, Phy
<1> QED BY <1>1, <1>2

(* nevent_register_mem keeps it sorted. *)
LEMMA RegisterSorts ==
    ASSUME MemInv, FarApart, Sorted, NEW m \in HeapMem, RegisterMem(m)
    PROVE  Sorted'
<1>1. pools' = InsertPool(m) /\ \A i \in 1 .. Len(pools) : pools[i] # m
  BY DEF RegisterMem
<1>2. PICK i \in 0 .. Len(pools) :
              /\ Fits(m, i)
              /\ Len(InsertPool(m)) = Len(pools) + 1
              /\ \A j \in 1 .. Len(pools) + 1 :
                    InsertPool(m)[j] = IF j <= i THEN pools[j]
                                       ELSE IF j = i + 1 THEN m ELSE pools[j - 1]
  BY InsertedPool
<1>3. /\ Len(pools) \in Nat /\ Capacity[m] \in Nat
      /\ \A j \in 1 .. Len(pools) : pools[j] \in HeapMem /\ Capacity[pools[j]] \in Nat
                                    /\ size[pools[j]] \in Nat /\ size[m] \in Nat
  BY MemoryAssumption DEF MemInv, PoolsHold, Memory, Kinds
<1>4. \A j \in 1 .. Len(pools) : j > i => Capacity[m] < Capacity[pools[j]]
  <2> SUFFICES ASSUME NEW j \in 1 .. Len(pools), j > i PROVE Capacity[m] < Capacity[pools[j]]
    OBVIOUS
  <2>1. j \in i + 1 .. Len(pools) /\ pools[j] # m /\ pools[j] \in HeapMem
    BY <1>1, <1>3
  <2>2. size[pools[j]] > size[m]
    BY <1>2, <2>1 DEF Fits
  <2>3. size[m] < size[pools[j]]
    BY <1>3, <2>2
  <2> QED BY <2>1, <2>3, SizesAre
<1>5. \A j \in 1 .. Len(pools) : j <= i => Capacity[pools[j]] < Capacity[m]
  <2> SUFFICES ASSUME NEW j \in 1 .. Len(pools), j <= i PROVE Capacity[pools[j]] < Capacity[m]
    OBVIOUS
  <2>1. i \in 1 .. Len(pools) /\ pools[i] # m /\ pools[i] \in HeapMem
    BY <1>1, <1>3
  <2>2. ~(size[pools[i]] > size[m])
    BY <1>2, <1>3, <2>1 DEF Fits
  <2>3. Capacity[pools[i]] < Capacity[m]
    BY <2>1, <2>2, SizesAre
  <2>4. j < i => Capacity[pools[j]] < Capacity[pools[i]]
    BY <2>1 DEF Sorted
  <2> QED BY <1>3, <2>1, <2>3, <2>4
<1> SUFFICES ASSUME NEW j \in 1 .. Len(pools) + 1, NEW k \in 1 .. Len(pools) + 1, j < k
             PROVE  Capacity[InsertPool(m)[j]] < Capacity[InsertPool(m)[k]]
  BY <1>1, <1>2 DEF Sorted
<1>6. CASE k <= i
  <2>1. j \in 1 .. Len(pools) /\ k \in 1 .. Len(pools) /\ j <= i
    BY <1>6
  <2> QED BY <1>2, <1>6, <2>1 DEF Sorted
<1>7. CASE k = i + 1
  <2>1. j \in 1 .. Len(pools) /\ j <= i /\ ~(k <= i)
    BY <1>7
  <2> QED BY <1>2, <1>5, <1>7, <2>1
<1>8. CASE k > i + 1
  <2>1. k - 1 \in 1 .. Len(pools) /\ k - 1 > i /\ InsertPool(m)[k] = pools[k - 1]
    BY <1>2, <1>3, <1>8
  <2>2. CASE j <= i
    <3>1. j \in 1 .. Len(pools) /\ j < k - 1
      BY <1>3, <1>8, <2>2
    <3> QED BY <1>2, <2>1, <2>2, <3>1 DEF Sorted
  <2>3. CASE j = i + 1
    <3>1. InsertPool(m)[j] = m
      BY <1>2, <2>3
    <3> QED BY <1>4, <2>1, <3>1
  <2>4. CASE j > i + 1
    <3>1. j - 1 \in 1 .. Len(pools) /\ j - 1 < k - 1 /\ InsertPool(m)[j] = pools[j - 1]
      BY <1>2, <1>3, <2>4
    <3> QED BY <2>1, <3>1 DEF Sorted
  <2> QED BY <1>3, <2>2, <2>3, <2>4
<1> QED BY <1>3, <1>6, <1>7, <1>8

(* So does every step. *)
LEMMA NextSorted == FarApart /\ MemInv /\ Sorted /\ [Next]_vars => Sorted'
<1> SUFFICES ASSUME FarApart, MemInv, Sorted, [Next]_vars PROVE Sorted'
  OBVIOUS
<1>1. CASE Next
  <2>1. Steps
    BY <1>1, NextSteps
  <2>2. CASE \E m \in HeapMem : RegisterMem(m)
    BY <2>2, RegisterSorts
  <2>3. CASE pools' = pools
    BY <2>3 DEF Sorted
  <2> QED BY <2>1, <2>2, <2>3 DEF Steps, AllocIn, FreeIn
<1>2. CASE UNCHANGED vars
  BY <1>2 DEF vars, Sorted
<1> QED BY <1>1, <1>2

(* SmallestIsPicked: find_memory_i picks the smallest memory that will do, or the largest. *)
THEOREM PicksSmallest ==
    ASSUME FarApart
    PROVE  Spec => []SmallestIsPicked
<1>1. Init => Sorted
  BY DEF Init, Sorted
<1>2. MemInv /\ Sorted /\ [Next]_vars => Sorted'
  BY NextSorted
<1>3. MemInv /\ Sorted => SmallestIsPicked
  <2> SUFFICES ASSUME MemInv, Sorted, NEW n \in Sizes, NEW i \in 1 .. Len(pools)
               PROVE  IF size[FindMemory(n)] >= n
                      THEN size[pools[i]] >= n => size[FindMemory(n)] <= size[pools[i]]
                      ELSE size[pools[i]] <= size[FindMemory(n)]
    BY Zenon DEF SmallestIsPicked
  <2>1. /\ Len(pools) \in Nat /\ pools # << >> /\ n \in Nat
        /\ \A j \in 1 .. Len(pools) : pools[j] \in HeapMem /\ size[pools[j]] \in Nat
    BY MemoryAssumption DEF MemInv, PoolsHold, Kinds, Memory
  <2>2. PICK k \in 1 .. Len(pools) : Found(n, k) /\ FindMemory(n) = pools[k]
    BY <2>1, FoundMemory
  <2>3. ASSUME NEW j \in 1 .. Len(pools), NEW m \in 1 .. Len(pools), j < m
        PROVE  size[pools[j]] < size[pools[m]]
    <3>1. Capacity[pools[j]] < Capacity[pools[m]]
      BY <2>3 DEF Sorted
    <3>2. Capacity[pools[j]] \in Nat /\ pools[j] # pools[m]
      BY <2>1, <3>1, MemoryAssumption DEF Memory
    <3> QED BY <2>1, <3>1, <3>2, SizesAre
  <2>4. CASE size[FindMemory(n)] >= n
    <3> SUFFICES ASSUME size[pools[i]] >= n PROVE size[pools[k]] <= size[pools[i]]
      BY <2>2, <2>4
    <3>1. k <= i
      <4> SUFFICES ASSUME i < k PROVE FALSE
        BY <2>1
      <4>1. i \in 1 .. k - 1
        BY <2>1
      <4>2. size[pools[i]] < n
        BY <2>2, <4>1 DEF Found
      <4> QED BY <2>1, <4>2
    <3>2. CASE k = i
      BY <2>1, <3>2
    <3>3. CASE k < i
      BY <2>1, <2>3, <3>3
    <3> QED BY <2>1, <3>1, <3>2, <3>3
  <2>5. CASE ~(size[FindMemory(n)] >= n)
    <3>1. k = Len(pools)
      BY <2>2, <2>5 DEF Found
    <3>2. CASE i = k
      BY <2>1, <2>2, <2>5, <3>2
    <3>3. CASE i < k
      BY <2>1, <2>2, <2>3, <2>5, <3>3
    <3> QED BY <2>1, <3>1, <3>2, <3>3
  <2> QED BY <2>4, <2>5
<1> QED BY <1>1, <1>2, <1>3, MemoryHolds, PTL DEF Spec

--------------------------------------------------------------------------------
(* An object that is added is one that Allocator may allocate. *)
LEMMA AddsApart ==
    ASSUME MemInv, MemInv', NEW m \in Memory, NEW n \in Sizes, Adds(m, n)
    PROVE  [Objects!Next]_owned
<1> SUFFICES ASSUME owned' # owned PROVE Objects!Next
  OBVIOUS
<1>1. PICK o \in Object : /\ o \notin owned /\ o.mem = m /\ o.words = n
                          /\ owned' = owned \cup {o}
  BY DEF Adds
<1>2. Apart(In(m)', Capacity[m])
  <2>1. m \in ready'
    BY <1>1 DEF MemInv, Kinds
  <2>2. CASE m \in HeapMem
    <3>1. HeapHolds(heap[m], In(m), Capacity[m])'
      BY <2>1, <2>2 DEF MemInv, HeapsHold
    <3>2. In(m)' \in SUBSET Object /\ Capacity[m] \in Nat
      BY MemoryAssumption DEF MemInv, Kinds, In
    <3>3. HeapHolds(heap'[m], In(m)', Capacity[m])
      BY <3>1
    <3> QED BY <3>2, <3>3, HeldApart
  <2>3. CASE m \in StaticMem
    BY <2>1, <2>3 DEF MemInv, StaticsHold, StaticHolds
  <2> QED BY <2>2, <2>3 DEF Memory
<1>3. o \in In(m)' /\ \A p \in owned : p.mem = m => p \in In(m)' /\ p # o
  BY <1>1 DEF In
<1>4. \A p \in In(m)' : p.at \in Nat /\ p.words \in Nat /\ p.words > 0
  <2>1. \A p \in Object : p.at \in Nat /\ p.words \in Nat /\ p.words > 0
    <3>1. \A x \in Sizes : x \in Nat /\ x > 0
      BY MemoryAssumption
    <3> QED BY <3>1 DEF Object
  <2>2. owned' \subseteq Object
    BY DEF MemInv, Kinds
  <2> QED BY <2>1, <2>2 DEF In
<1>5. Capacity[m] \in Nat /\ o.at + o.words <= Capacity[m]
  BY <1>2, <1>3, MemoryAssumption DEF Apart
<1>6. Objects!Extent(o) \subseteq 0 .. Capacity[m] - 1
  BY <1>3, <1>4, <1>5 DEF Objects!Extent
<1>7. \A p \in owned : p.mem = m => Objects!Extent(p) \cap Objects!Extent(o) = {}
  <2> SUFFICES ASSUME NEW p \in owned, p.mem = m
               PROVE  (p.at .. p.at + p.words - 1) \cap (o.at .. o.at + o.words - 1) = {}
    BY DEF Objects!Extent
  <2>1. o.at + o.words <= p.at \/ p.at + p.words <= o.at
    BY <1>2, <1>3 DEF Apart
  <2>2. p.at \in Nat /\ p.words \in Nat /\ o.at \in Nat /\ o.words \in Nat
    BY <1>3, <1>4
  <2> QED BY <2>1, <2>2
<1>8. Objects!Allocate(o)
  BY <1>1, <1>6, <1>7 DEF Objects!Allocate
<1>9. o = [mem |-> m, at |-> o.at, words |-> n] /\ o.at \in 0 .. Capacity[m]
  BY <1>1, <1>3, <1>4, <1>5 DEF Object
<1> QED BY <1>8, <1>9 DEF Objects!Next

(* ImplementsAllocator: objects in use never share a word of a memory,     *)
(* and what is given back is what was taken.                               *)
THEOREM ObjectsLieApart == Spec => ImplementsAllocator
<1>1. Init => Objects!Init
  BY DEF Init, Objects!Init
<1>2. MemInv /\ MemInv' /\ [Next]_vars => [Objects!Next]_owned
  <2> SUFFICES ASSUME MemInv, MemInv', [Next]_vars PROVE [Objects!Next]_owned
    OBVIOUS
  <2>1. CASE Next
    <3>1. Steps
      BY <2>1, NextSteps
    <3>2. CASE \E m \in HeapMem : RegisterMem(m)
      BY <3>2, RegisterKeeps
    <3>3. CASE \E m \in Memory, n \in Sizes : AllocIn(m, n)
      BY <3>3, AllocInKeeps, AddsApart
    <3>4. CASE \E o \in owned : FreeIn(o.mem, o)
      <4>1. PICK o \in owned : owned' = owned \ {o}
        BY <3>4, FreeInKeeps
      <4> QED BY <4>1 DEF Objects!Next, Objects!Release
    <3> QED BY <3>1, <3>2, <3>3, <3>4 DEF Steps
  <2>2. CASE UNCHANGED vars
    BY <2>2 DEF vars
  <2> QED BY <2>1, <2>2
<1> QED BY <1>1, <1>2, MemoryHolds, PTL DEF Spec, ImplementsAllocator, Objects!Spec
================================================================================
