--------------------------- MODULE StateMachineProofs ---------------------------
(***************************************************************************)
(* Proofs about StateMachine, for every number of states, every hierarchy  *)
(* of them and every sequence of transitions: between two events the       *)
(* application is in the states around nsm.state and in no other, the path *)
(* buffers are large enough for the nesting of the states, and the         *)
(* dispatcher implements StateChart.                                       *)
(*                                                                         *)
(* The chain of super states is a recursive function; what it is for every *)
(* hierarchy is shown by induction on the state, which is below all that   *)
(* are inside it.  The induction is over a set of numbers, SetInduction.   *)
(***************************************************************************)
EXTENDS StateMachine, SequenceTheorems, WellFoundedInduction, TLAPS

(* A state or ntop_state *)
Node == State \cup {Top}

(* Super states come before the states in them. *)
Hierarchy(sup) == sup \in [State -> Node] /\ \A s \in State : sup[s] < s

(* q leads from x up to ntop_state. *)
Path(sup, x, q) ==
    /\ q \in Seq(Node) /\ Len(q) \in 1 .. x + 1
    /\ q[1] = x /\ q[Len(q)] = Top
    /\ \A i \in 1 .. Len(q) - 1 : q[i] \in State /\ q[i + 1] = sup[q[i]]
    /\ \A i, j \in 1 .. Len(q) : i < j => q[j] < q[i]

(* c gives every node its chain. *)
IsChain(c, sup) ==
    c = [x \in State \cup {Top} |-> IF x = Top THEN <<Top>> ELSE <<x>> \o c[sup[x]]]

ChainOf(sup) == CHOOSE c : IsChain(c, sup)

--------------------------------------------------------------------------------
(* Induction, on a set *)
LEMMA SetInduction ==
    ASSUME NEW T, 0 \in T, \A n \in Nat : n \in T => n + 1 \in T
    PROVE  Nat \subseteq T
<1> DEFINE R == OpToRel(<, Nat)
<1>1. IsWellFoundedOn(R, Nat)
  BY NatLessThanWellFounded
<1>2. \A x, y \in Nat : <<x, y>> \in R <=> x < y
  BY DEF OpToRel
<1> HIDE DEF R
<1> SUFFICES ASSUME Nat \ T # {} PROVE FALSE
  OBVIOUS
<1>3. PICK x \in Nat \ T : \A y \in Nat \ T : ~(<<y, x>> \in R)
  BY <1>1, WFMin
<1>4. x # 0 /\ x - 1 \in Nat /\ x - 1 < x
  BY <1>3
<1>5. x - 1 \in T
  BY <1>2, <1>3, <1>4
<1>6. x \in T
  BY <1>4, <1>5
<1> QED BY <1>3, <1>6

(* Numbers have a least one. *)
LEMMA LeastOfNat ==
    ASSUME NEW S \in SUBSET Nat, S # {}
    PROVE  \E m \in S : \A n \in S : m <= n
<1> DEFINE R == OpToRel(<, Nat)
<1>1. IsWellFoundedOn(R, Nat)
  BY NatLessThanWellFounded
<1>2. \A x, y \in Nat : <<x, y>> \in R <=> x < y
  BY DEF OpToRel
<1> HIDE DEF R
<1>3. S \subseteq Nat
  OBVIOUS
<1>4. PICK m \in S : \A n \in S : ~(<<n, m>> \in R)
  BY <1>1, <1>3, WFMin, Zenon
<1>5. \A n \in S : n \in Nat /\ m \in Nat /\ ~(n < m)
  BY <1>2, <1>3, <1>4
<1>6. \A n \in S : m <= n
  BY <1>5
<1> QED BY <1>6

(* Nodes are numbers. *)
LEMMA Nodes == Node = 0 .. N /\ State \subseteq Nat /\ N \in Nat /\ 0 \in Node
BY StateMachineAssumption DEF Node, State, Top

(* The path from a state is one longer than that from its super state. *)
LEMMA PathGrows ==
    ASSUME NEW sup, Hierarchy(sup), NEW x \in State, NEW q, Path(sup, sup[x], q)
    PROVE  Path(sup, x, <<x>> \o q)
<1> DEFINE r == <<x>> \o q
<1>1. sup[x] \in Node /\ sup[x] < x /\ x \in Node /\ x \in Nat /\ sup[x] \in Nat
  BY Nodes DEF Hierarchy, Node
<1>2. q \in Seq(Node) /\ Len(q) \in 1 .. sup[x] + 1
  BY DEF Path
<1>3. <<x>> \in Seq(Node) /\ Len(<<x>>) = 1 /\ <<x>>[1] = x
  BY <1>1
<1>4. r \in Seq(Node) /\ Len(r) = 1 + Len(q)
      /\ \A i \in 1 .. 1 + Len(q) : r[i] = IF i <= 1 THEN <<x>>[i] ELSE q[i - 1]
  <2> HIDE DEF Node
  <2> QED BY <1>2, <1>3, ConcatProperties
<1> HIDE DEF r
<1>5. r[1] = x /\ \A i \in 2 .. Len(r) : r[i] = q[i - 1] /\ i - 1 \in 1 .. Len(q)
  BY <1>2, <1>3, <1>4
<1>6. Len(r) \in 1 .. x + 1 /\ r[Len(r)] = Top
  BY <1>1, <1>2, <1>4, <1>5 DEF Path
<1>7. ASSUME NEW i \in 1 .. Len(r) - 1 PROVE r[i] \in State /\ r[i + 1] = sup[r[i]]
  <2>1. CASE i = 1
    <3>1. r[2] = q[1]
      BY <1>2, <1>4, <1>5
    <3> QED BY <2>1, <3>1, <1>5 DEF Path
  <2>2. CASE i # 1
    <3>1. r[i] = q[i - 1] /\ i - 1 \in 1 .. Len(q) - 1 /\ r[i + 1] = q[i]
      <4>1. i \in 2 .. Len(r) /\ i + 1 \in 2 .. Len(r) /\ i - 1 \in 1 .. Len(q) - 1
        BY <2>2, <1>2, <1>4
      <4> QED BY <4>1, <1>2, <1>5
    <3> QED BY <3>1 DEF Path
  <2> QED BY <2>1, <2>2
<1>8. ASSUME NEW i \in 1 .. Len(r), NEW j \in 1 .. Len(r), i < j PROVE r[j] < r[i]
  <2>1. \A k \in 1 .. Len(q) : q[k] \in Nat /\ q[k] <= sup[x]
    <3> TAKE k \in 1 .. Len(q)
    <3>1. q[k] \in Node /\ q[1] = sup[x] /\ 1 \in 1 .. Len(q)
      BY <1>2 DEF Path
    <3>2. k # 1 => q[k] < q[1]
      BY <3>1, <1>2 DEF Path
    <3> QED BY <1>1, <3>1, <3>2, Nodes
  <2>2. j \in 2 .. Len(r) /\ r[j] = q[j - 1] /\ j - 1 \in 1 .. Len(q)
    BY <1>2, <1>4, <1>5, <1>8
  <2>3. CASE i = 1
    BY <1>1, <1>5, <2>1, <2>2, <2>3
  <2>4. CASE i # 1
    <3>1. r[i] = q[i - 1] /\ i - 1 \in 1 .. Len(q) /\ i - 1 < j - 1
      BY <1>2, <1>4, <1>5, <1>8, <2>4
    <3> QED BY <2>2, <3>1 DEF Path
  <2> QED BY <2>3, <2>4
<1> QED BY <1>4, <1>5, <1>6, <1>7, <1>8 DEF Path, r

(* The chains of the first n nodes *)
Chains(c, sup, n) ==
    /\ \A x \in 0 .. n : c[x] = IF x = Top THEN <<Top>> ELSE <<x>> \o c[sup[x]]
    /\ \A x \in 0 .. n : Path(sup, x, c[x])
    /\ c \in [0 .. n -> Seq(Node)]

(* They exist, and are paths. *)
LEMMA ChainsTo ==
    ASSUME NEW sup, Hierarchy(sup), NEW n \in 0 .. N
    PROVE  \E c : Chains(c, sup, n)
<1> DEFINE T == {m \in Nat : m <= N => \E c : Chains(c, sup, m)}
<1>1. 0 \in T
  <2> DEFINE c == [x \in 0 .. 0 |-> <<Top>>]
  <2>1. \A x \in 0 .. 0 : x = Top /\ c[x] = <<Top>>
    BY DEF Top
  <2>2. <<Top>> \in Seq(Node) /\ Path(sup, Top, <<Top>>)
    BY DEF Path, Top, Node
  <2>3. c \in [0 .. 0 -> Seq(Node)]
    BY <2>2
  <2> HIDE DEF c
  <2>4. Chains(c, sup, 0)
    BY <2>1, <2>2, <2>3 DEF Chains
  <2> QED BY <2>4
<1>2. ASSUME NEW m \in Nat, m \in T PROVE m + 1 \in T
  <2> SUFFICES ASSUME m + 1 <= N PROVE \E c : Chains(c, sup, m + 1)
    OBVIOUS
  <2>0. m <= N
    BY Nodes
  <2>1. PICK c : Chains(c, sup, m)
    BY <1>2, <2>0
  <2>2. m + 1 \in State /\ sup[m + 1] \in 0 .. m
    BY Nodes DEF State, Hierarchy, Node, Top
  <2> DEFINE q == <<m + 1>> \o c[sup[m + 1]]
             e == [x \in 0 .. m + 1 |-> IF x <= m THEN c[x] ELSE q]
  <2>3. Path(sup, m + 1, q)
    <3>1. Path(sup, sup[m + 1], c[sup[m + 1]])
      BY <2>1, <2>2 DEF Chains
    <3> QED BY <2>2, <3>1, PathGrows
  <2>4. q \in Seq(Node)
    BY <2>3 DEF Path
  <2> HIDE DEF q
  <2>5. e \in [0 .. m + 1 -> Seq(Node)]
    BY <2>1, <2>4 DEF Chains
  <2>6. e[m + 1] = q /\ \A x \in 0 .. m : e[x] = c[x]
    OBVIOUS
  <2> HIDE DEF e
  <2>7. \A x \in 0 .. m : x # Top => sup[x] \in 0 .. m
    BY Nodes DEF State, Hierarchy, Node, Top
  <2>8. \A x \in 0 .. m + 1 : x = m + 1 \/ x \in 0 .. m
    OBVIOUS
  <2>9. ASSUME NEW x \in 0 .. m + 1
        PROVE  /\ e[x] = IF x = Top THEN <<Top>> ELSE <<x>> \o e[sup[x]]
               /\ Path(sup, x, e[x])
    <3>1. CASE x = m + 1
      <4>1. e[sup[x]] = c[sup[x]] /\ x # Top
        BY <3>1, <2>2, <2>6 DEF Top
      <4>2. e[x] = <<x>> \o c[sup[x]]
        BY <3>1, <2>6 DEF q
      <4> QED BY <3>1, <2>3, <2>6, <4>1, <4>2
    <3>2. CASE x \in 0 .. m
      <4>1. c[x] = IF x = Top THEN <<Top>> ELSE <<x>> \o c[sup[x]]
        BY <3>2, <2>1 DEF Chains
      <4>2. e[x] = c[x] /\ (x # Top => e[sup[x]] = c[sup[x]])
        BY <3>2, <2>6, <2>7
      <4>3. Path(sup, x, c[x])
        BY <3>2, <2>1 DEF Chains
      <4> QED BY <4>1, <4>2, <4>3
    <3> QED BY <3>1, <3>2, <2>8
  <2>10. Chains(e, sup, m + 1)
    BY <2>5, <2>9 DEF Chains
  <2> QED BY <2>10
<1> HIDE DEF T
<1>3. Nat \subseteq T
  BY <1>1, <1>2, SetInduction
<1>4. n \in T /\ n <= N
  BY <1>3
<1> QED BY <1>4 DEF T

(* The chain of super states, for any hierarchy *)
LEMMA ChainsAre ==
    ASSUME NEW sup, Hierarchy(sup)
    PROVE  /\ \A x \in Node : Path(sup, x, ChainOf(sup)[x])
           /\ ChainOf(sup)[Top] = <<Top>>
           /\ \A x \in State : ChainOf(sup)[x] = <<x>> \o ChainOf(sup)[sup[x]]
<1>1. N \in 0 .. N /\ Node = 0 .. N
  BY Nodes
<1>2. PICK c : Chains(c, sup, N)
  BY <1>1, ChainsTo
<1>3. IsChain(c, sup)
  BY <1>1, <1>2 DEF IsChain, Chains, Node
<1>4. IsChain(ChainOf(sup), sup)
  BY <1>3 DEF ChainOf
<1>5. /\ ChainOf(sup)[Top] = <<Top>>
      /\ \A x \in State : ChainOf(sup)[x] = <<x>> \o ChainOf(sup)[sup[x]]
  <2>1. \A x \in State : x # Top
    BY DEF State, Top
  <2>2. \A d : IsChain(d, sup) => d[Top] = <<Top>> /\ \A x \in State : d[x] = <<x>> \o d[sup[x]]
    BY <2>1 DEF IsChain
  <2> QED BY <1>4, <2>2
<1>6. \A x \in Node : Path(sup, x, ChainOf(sup)[x])
  <2> DEFINE d == ChainOf(sup)
             T == {m \in Nat : \A x \in 0 .. m : x \in Node => Path(sup, x, d[x])}
  <2>1. 0 \in T
    <3>1. Path(sup, Top, <<Top>>)
      BY DEF Path, Top, Node
    <3>2. \A x \in 0 .. 0 : x = Top
      BY DEF Top
    <3> QED BY <1>5, <3>1, <3>2
  <2> HIDE DEF d
  <2>2. ASSUME NEW m \in Nat, m \in T PROVE m + 1 \in T
    <3> SUFFICES ASSUME m + 1 \in Node PROVE Path(sup, m + 1, d[m + 1])
      <4>1. \A x \in 0 .. m + 1 : x = m + 1 \/ x \in 0 .. m
        OBVIOUS
      <4> QED BY <2>2, <4>1
    <3>1. m + 1 \in State /\ sup[m + 1] \in 0 .. m /\ sup[m + 1] \in Node
      BY Nodes DEF State, Hierarchy, Node, Top
    <3>2. Path(sup, sup[m + 1], d[sup[m + 1]])
      BY <2>2, <3>1
    <3> QED BY <1>5, <3>1, <3>2, PathGrows DEF d
  <2> HIDE DEF T
  <2>3. Nat \subseteq T
    BY <2>1, <2>2, SetInduction
  <2>4. \A x \in Node : x \in Nat /\ x \in 0 .. x
    BY Nodes
  <2> QED BY <2>3, <2>4 DEF T, d
<1> QED BY <1>5, <1>6

(* Chain, without its LET *)
LEMMA ChainIs == \A s : Chain(s) = ChainOf(super)[s]
BY Zenon DEF Chain, ChainOf, IsChain

--------------------------------------------------------------------------------
(* The states around x, x included *)
Inside(sup, x) == ToSet(ChainOf(sup)[x]) \ {Top}

(* The states around a state are it and those around its super state. *)
LEMMA InsideIs ==
    ASSUME NEW sup, Hierarchy(sup)
    PROVE  /\ Inside(sup, Top) = {}
           /\ \A x \in State : Inside(sup, x) = {x} \cup Inside(sup, sup[x])
           /\ \A x \in Node : /\ Inside(sup, x) \subseteq State
                              /\ \A y \in Inside(sup, x) : y <= x
<1> DEFINE c == ChainOf(sup)
<1>1. /\ \A x \in Node : Path(sup, x, c[x])
      /\ c[Top] = <<Top>>
      /\ \A x \in State : c[x] = <<x>> \o c[sup[x]]
  BY ChainsAre
<1> HIDE DEF c
<1>2. \A x \in Node : Inside(sup, x) = {c[x][i] : i \in 1 .. Len(c[x])} \ {Top}
  <2> TAKE x \in Node
  <2>1. c[x] \in Seq(Node)
    BY <1>1 DEF Path
  <2>2. DOMAIN c[x] = 1 .. Len(c[x])
    <3> HIDE DEF Node
    <3> QED BY <2>1
  <2> QED BY <2>2 DEF Inside, ToSet, c
<1>3. Inside(sup, Top) = {}
  BY <1>1, <1>2 DEF Node
<1>4. ASSUME NEW x \in State PROVE Inside(sup, x) = {x} \cup Inside(sup, sup[x])
  <2>1. sup[x] \in Node /\ x \in Node /\ x # Top
    BY DEF Hierarchy, Node, State, Top
  <2> DEFINE q == c[sup[x]]
             r == c[x]
  <2>2. q \in Seq(Node) /\ Len(q) \in Nat
    <3>1. q \in Seq(Node)
      BY <1>1, <2>1 DEF Path
    <3> QED BY <3>1
  <2>3. r = <<x>> \o q
    BY <1>1
  <2> HIDE DEF q, r
  <2>4. Len(r) = 1 + Len(q) /\ \A i \in 1 .. 1 + Len(q) : r[i] = IF i = 1 THEN x ELSE q[i - 1]
    <3>1. <<x>> \in Seq(Node) /\ Len(<<x>>) = 1 /\ <<x>>[1] = x
      BY <2>1
    <3> HIDE DEF Node
    <3>2. /\ Len(<<x>> \o q) = Len(<<x>>) + Len(q)
          /\ \A i \in 1 .. Len(<<x>>) + Len(q) : (<<x>> \o q)[i] =
                 IF i <= Len(<<x>>) THEN <<x>>[i] ELSE q[i - Len(<<x>>)]
      BY <2>2, <3>1, ConcatProperties
    <3> QED BY <2>2, <2>3, <3>1, <3>2
  <2>5. {r[i] : i \in 1 .. Len(r)} = {x} \cup {q[i] : i \in 1 .. Len(q)}
    <3>1. ASSUME NEW i \in 1 .. Len(r) PROVE r[i] \in {x} \cup {q[n] : n \in 1 .. Len(q)}
      <4>1. i = 1 \/ (i - 1 \in 1 .. Len(q) /\ r[i] = q[i - 1])
        BY <2>2, <2>4
      <4> QED BY <2>2, <2>4, <4>1
    <3>2. ASSUME NEW i \in 1 .. Len(q) PROVE q[i] \in {r[n] : n \in 1 .. Len(r)}
      <4>1. i + 1 \in 1 .. Len(r) /\ r[i + 1] = q[i]
        BY <2>2, <2>4
      <4> QED BY <4>1
    <3>3. r[1] = x /\ 1 \in 1 .. Len(r)
      BY <2>2, <2>4
    <3> QED BY <3>1, <3>2, <3>3
  <2>6. Inside(sup, x) = {r[i] : i \in 1 .. Len(r)} \ {Top}
    BY <1>2, <2>1 DEF r
  <2>7. Inside(sup, sup[x]) = {q[i] : i \in 1 .. Len(q)} \ {Top}
    BY <1>2, <2>1 DEF q
  <2> QED BY <2>1, <2>5, <2>6, <2>7
<1>5. ASSUME NEW x \in Node, NEW y \in Inside(sup, x) PROVE y \in State /\ y <= x
  <2>1. PICK i \in 1 .. Len(c[x]) : y = c[x][i] /\ y # Top
    BY <1>2, <1>5
  <2>2. Path(sup, x, c[x])
    BY <1>1
  <2>3. c[x][i] \in Node /\ c[x][1] = x /\ 1 \in 1 .. Len(c[x]) /\ (1 < i => c[x][i] < c[x][1])
    BY <2>2 DEF Path
  <2>4. x \in Nat /\ y \in Nat /\ y \in State
    BY <2>1, <2>3, Nodes DEF Node
  <2> QED BY <2>1, <2>3, <2>4
<1> QED BY <1>3, <1>4, <1>5

(* The state a machine is in is known by the states around it. *)
LEMMA InsideTells ==
    ASSUME NEW sup, Hierarchy(sup), NEW x \in Node, NEW y \in Node,
           Inside(sup, x) = Inside(sup, y)
    PROVE  x = y
<1>1. \A z \in Node : z = Top \/ z \in Inside(sup, z)
  BY InsideIs DEF Node
<1>2. \A z \in State : z > Top
  BY DEF State, Top
<1> QED BY <1>1, <1>2, InsideIs, Nodes DEF Node

--------------------------------------------------------------------------------
(* A way up from x to y, and a way down from y to t *)
Way(sup, x, y, up) ==
    /\ up \in Seq(State)
    /\ up = << >> => x = y
    /\ up # << >> => up[1] = x /\ sup[up[Len(up)]] = y
    /\ \A i \in 1 .. Len(up) - 1 : up[i + 1] = sup[up[i]]

Fall(sup, y, t, down) ==
    /\ down \in Seq(State)
    /\ down = << >> => y = t
    /\ down # << >> => sup[down[1]] = y /\ down[Len(down)] = t
    /\ \A i \in 1 .. Len(down) - 1 : sup[down[i + 1]] = down[i]

(* A path without its first state *)
LEMMA TailIs ==
    ASSUME NEW s \in Seq(State), s # << >>
    PROVE  /\ Head(s) = s[1] /\ Head(s) \in State /\ Tail(s) \in Seq(State)
           /\ Len(s) \in Nat \ {0} /\ Len(Tail(s)) = Len(s) - 1
           /\ \A i \in 1 .. Len(s) - 1 : Tail(s)[i] = s[i + 1]
           /\ Tail(s) = << >> <=> Len(s) = 1
<1> HIDE DEF State
<1>1. /\ Head(s) \in State /\ Tail(s) \in Seq(State)
      /\ Len(Tail(s)) = Len(s)-1
      /\ \A i \in 1 .. Len(Tail(s)) : Tail(s)[i] = s[i+1]
  BY HeadTailProperties
<1>2. Len(s) \in Nat \ {0} /\ Head(s) = s[1]
  BY EmptySeq
<1>3. Tail(s) = << >> <=> Len(Tail(s)) = 0
  BY <1>1, EmptySeq
<1> QED BY <1>1, <1>2, <1>3

(* The way up from the next state *)
LEMMA WayTail ==
    ASSUME NEW sup, NEW x, NEW y, NEW up, Way(sup, x, y, up), up # << >>
    PROVE  Head(up) = x /\ x \in State /\ Way(sup, sup[x], y, Tail(up))
<1>1. up \in Seq(State) /\ up[1] = x
  BY DEF Way
<1> DEFINE v == Tail(up)
<1>2. /\ Head(up) = up[1] /\ Head(up) \in State /\ v \in Seq(State)
      /\ Len(up) \in Nat \ {0} /\ Len(v) = Len(up) - 1
      /\ \A i \in 1 .. Len(up) - 1 : v[i] = up[i + 1]
      /\ v = << >> <=> Len(up) = 1
  BY <1>1, TailIs
<1> HIDE DEF v
<1>3. v = << >> => sup[x] = y
  BY <1>1, <1>2 DEF Way
<1>4. v # << >> => v[1] = sup[x] /\ v[Len(v)] = up[Len(up)]
  BY <1>1, <1>2 DEF Way
<1>5. \A i \in 1 .. Len(v) - 1 : v[i + 1] = sup[v[i]]
  <2> TAKE i \in 1 .. Len(v) - 1
  <2>1. i \in 1 .. Len(up) - 1 /\ i + 1 \in 1 .. Len(up) - 1
    BY <1>2
  <2> QED BY <1>2, <2>1 DEF Way
<1>6. Way(sup, sup[x], y, v)
  BY <1>2, <1>3, <1>4, <1>5 DEF Way
<1> QED BY <1>1, <1>2, <1>6 DEF v

(* The way down from the next state *)
LEMMA FallTail ==
    ASSUME NEW sup, NEW y, NEW t, NEW down, Fall(sup, y, t, down), down # << >>
    PROVE  Head(down) \in State /\ sup[Head(down)] = y /\ Fall(sup, Head(down), t, Tail(down))
<1>1. down \in Seq(State) /\ sup[down[1]] = y
  BY DEF Fall
<1> DEFINE v == Tail(down)
<1>2. /\ Head(down) = down[1] /\ Head(down) \in State /\ v \in Seq(State)
      /\ Len(down) \in Nat \ {0} /\ Len(v) = Len(down) - 1
      /\ \A i \in 1 .. Len(down) - 1 : v[i] = down[i + 1]
      /\ v = << >> <=> Len(down) = 1
  BY <1>1, TailIs
<1> HIDE DEF v
<1>3. v = << >> => down[1] = t
  BY <1>1, <1>2 DEF Fall
<1>4. v # << >> => sup[v[1]] = down[1] /\ v[Len(v)] = t
  BY <1>1, <1>2 DEF Fall
<1>5. \A i \in 1 .. Len(v) - 1 : sup[v[i + 1]] = v[i]
  <2> TAKE i \in 1 .. Len(v) - 1
  <2>1. i \in 1 .. Len(down) - 1 /\ i + 1 \in 1 .. Len(down) - 1
    BY <1>2
  <2> QED BY <1>2, <2>1 DEF Fall
<1>6. Fall(sup, down[1], t, v)
  BY <1>2, <1>3, <1>4, <1>5 DEF Fall
<1> QED BY <1>1, <1>2, <1>6 DEF v

--------------------------------------------------------------------------------
(* The order of the comparisons of hsm_build_path, as an expression *)
LEMMA RankIs ==
    ASSUME NEW j \in Nat \ {0}, NEW k \in Nat \ {0}
    PROVE  SearchRank(j, k) = IF j > 2 \/ k > 2 THEN 4 + j ELSE IF j = 1 THEN k ELSE 5 - k
<1> DEFINE seq == << <<1, 1>>, <<1, 2>>, <<2, 2>>, <<2, 1>> >>
           rank == IF j = 1 THEN k ELSE 5 - k
<1>1. CASE j > 2 \/ k > 2
  BY <1>1 DEF SearchRank
<1>2. CASE ~(j > 2 \/ k > 2)
  <2>1. j \in {1, 2} /\ k \in {1, 2}
    BY <1>2
  <2>2. seq[1] = <<1, 1>> /\ seq[2] = <<1, 2>> /\ seq[3] = <<2, 2>> /\ seq[4] = <<2, 1>>
    OBVIOUS
  <2> HIDE DEF seq
  <2>3. \A r \in 1 .. 4 : <<j, k>> = seq[r] <=> r = rank
    BY <2>1, <2>2
  <2>4. rank \in 1 .. 4
    BY <2>1
  <2> HIDE DEF rank
  <2>5. (CHOOSE r \in 1 .. 4 : <<j, k>> = seq[r]) = rank
    BY <2>3, <2>4
  <2> QED BY <1>2, <2>5 DEF SearchRank, seq, rank
<1> QED BY <1>1, <1>2

(* The j-th state of x and the k-th of e are equal where they are compared. *)
Meets(x, e, j, k) == x[j] = e[k] /\ (j > 2 => k > 1)

(* The chains meet, in ntop_state at the latest, and Meeting is where they  *)
(* are compared first.                                                     *)
LEMMA MeetingIs ==
    ASSUME NEW x \in Seq(Node), NEW e \in Seq(Node), Len(x) >= 2, Len(e) >= 2,
           x[Len(x)] = e[Len(e)]
    PROVE  \E j \in 1 .. Len(x), k \in 1 .. Len(e) :
              /\ Meeting(x, e) = <<j, k>> /\ Meets(x, e, j, k)
              /\ \A m \in 1 .. Len(x), n \in 1 .. Len(e) :
                    Meets(x, e, m, n) => SearchRank(j, k) <= SearchRank(m, n)
<1> DEFINE equal == {p \in (1 .. Len(x)) \X (1 .. Len(e)) :
                        x[p[1]] = e[p[2]] /\ (p[1] > 2 => p[2] > 1)}
           rank(p) == SearchRank(p[1], p[2])
           S == {rank(p) : p \in equal}
<1>0. Len(x) \in Nat /\ Len(e) \in Nat
  OBVIOUS
<1>1. <<Len(x), Len(e)>> \in equal
  BY <1>0
<1>2. \A p \in equal : rank(p) \in Nat
  <2> TAKE p \in equal
  <2>1. p[1] \in Nat \ {0} /\ p[2] \in Nat \ {0}
    BY <1>0
  <2>2. \A j, k \in Nat \ {0} : SearchRank(j, k) \in Nat
    <3> TAKE j, k \in Nat \ {0}
    <3>1. SearchRank(j, k) = IF j > 2 \/ k > 2 THEN 4 + j ELSE IF j = 1 THEN k ELSE 5 - k
      BY RankIs
    <3> QED BY <3>1
  <2> QED BY <2>1, <2>2
<1> HIDE DEF equal, rank
<1>3. S \in SUBSET Nat /\ S # {}
  BY <1>1, <1>2
<1>4. \E least \in S : \A n \in S : least <= n
  <2> HIDE DEF S
  <2> QED BY <1>3, LeastOfNat
<1>5. \E p \in equal : \A q \in equal : rank(p) <= rank(q)
  BY <1>4
<1> DEFINE p == CHOOSE p \in equal : \A q \in equal : rank(p) <= rank(q)
<1>6. p \in equal /\ \A q \in equal : rank(p) <= rank(q)
  BY <1>5
<1>7. Meeting(x, e) = p
  BY DEF Meeting, equal, rank
<1> HIDE DEF p
<1>8. p = <<p[1], p[2]>> /\ p[1] \in 1 .. Len(x) /\ p[2] \in 1 .. Len(e) /\ Meets(x, e, p[1], p[2])
  BY <1>6 DEF equal, Meets
<1>9. ASSUME NEW m \in 1 .. Len(x), NEW n \in 1 .. Len(e), Meets(x, e, m, n)
      PROVE  SearchRank(p[1], p[2]) <= SearchRank(m, n)
  <2>1. <<m, n>> \in equal
    BY <1>9 DEF equal, Meets
  <2>2. rank(<<m, n>>) = SearchRank(m, n) /\ rank(p) = SearchRank(p[1], p[2])
    BY DEF rank
  <2> QED BY <1>6, <2>1, <2>2
<1> QED BY <1>7, <1>8, <1>9

--------------------------------------------------------------------------------
(* What follows on a path from its i-th state on *)
From(q, i) == {q[n] : n \in i .. Len(q)}

(* From any place on a path on, the states are those around it. *)
LEMMA InsidePath ==
    ASSUME NEW sup, Hierarchy(sup), NEW b \in Node, NEW q, Path(sup, b, q), NEW i \in 1 .. Len(q)
    PROVE  Inside(sup, q[i]) = From(q, i) \ {Top}
<1>0. Len(q) \in Nat \ {0} /\ \A n \in 1 .. Len(q) : q[n] \in Node
  BY Nodes DEF Path
<1> DEFINE T == {m \in Nat : m < Len(q) =>
                    Inside(sup, q[Len(q) - m]) = {q[n] : n \in Len(q) - m .. Len(q)} \ {Top}}
<1>1. 0 \in T
  <2>1. Len(q) - 0 = Len(q) /\ Len(q) .. Len(q) = {Len(q)} /\ q[Len(q)] = Top
    BY <1>0 DEF Path
  <2> QED BY <2>1, InsideIs
<1>2. ASSUME NEW m \in Nat, m \in T PROVE m + 1 \in T
  <2> SUFFICES ASSUME m + 1 < Len(q)
               PROVE  Inside(sup, q[Len(q) - (m + 1)]) =
                          {q[n] : n \in Len(q) - (m + 1) .. Len(q)} \ {Top}
    OBVIOUS
  <2>0. Len(q) - (m + 1) \in 1 .. Len(q) - 1
    <3> HIDE DEF T
    <3> QED BY <1>0
  <2>1. PICK h \in 1 .. Len(q) - 1 : h = Len(q) - (m + 1)
    BY <2>0
  <2>2. m < Len(q) /\ Len(q) - m = h + 1
    BY <1>0, <2>1
  <2>3. Inside(sup, q[h + 1]) = {q[n] : n \in h + 1 .. Len(q)} \ {Top}
    BY <1>2, <2>2
  <2>4. q[h] \in State /\ q[h + 1] = sup[q[h]]
    BY <2>1 DEF Path
  <2>5. Inside(sup, q[h]) = {q[h]} \cup Inside(sup, q[h + 1])
    BY <2>4, InsideIs
  <2>6. q[h] # Top
    BY <2>4 DEF State, Top
  <2>7. h .. Len(q) = {h} \cup (h + 1 .. Len(q))
    BY <1>0, <2>1
  <2> QED BY <2>1, <2>3, <2>5, <2>6, <2>7
<1> HIDE DEF T
<1>3. Nat \subseteq T
  BY <1>1, <1>2, SetInduction
<1>4. Len(q) - i \in T /\ Len(q) - i < Len(q) /\ Len(q) - (Len(q) - i) = i
  BY <1>0, <1>3
<1> QED BY <1>4 DEF T, From

--------------------------------------------------------------------------------
(* The states around both ends of a transition from s to t *)
Shared(sup, s, t) == (Inside(sup, s) \cap Inside(sup, t)) \ {t}

(* The way up leaves none of them, and turns in one of them, in no state   *)
(* at all, or in the target itself when that contains the source.          *)
Leaves(sup, s, t, up) == \A i \in 1 .. Len(up) : up[i] \notin Shared(sup, s, t)
Turns(sup, s, t, y) ==
    \/ y \in Shared(sup, s, t) \cup {Top}
    \/ y = t /\ t # s /\ t \in Inside(sup, s)
Enters(sup, t, down) == \A i \in 1 .. Len(down) : down[i] \in Inside(sup, t)

(* What hsm_build_path does for a transition from the i-th state of the    *)
(* chain of b to d: the two paths meet, with everything between.           *)
LEMMA PathsBuilt ==
    ASSUME NEW sup, Hierarchy(sup), NEW b \in State, NEW d \in State,
           NEW i \in 1 .. Len(ChainOf(sup)[b]) - 1
    PROVE  LET q == ChainOf(sup)[b]
               e == ChainOf(sup)[d]
               p == Meeting(SubSeq(q, i, Len(q)), e)
               up == SubSeq(q, 1, i - 1 + StatesLeft(p))
               down == Reverse(SubSeq(e, 1, StatesEntered(p)))
           IN  /\ q[i] \in Inside(sup, b) /\ q[i] \in State
               /\ \E y \in Node : /\ Way(sup, b, y, up) /\ Fall(sup, y, d, down)
                                  /\ Leaves(sup, q[i], d, up) /\ Turns(sup, q[i], d, y)
                                  /\ Enters(sup, d, down)
               /\ i - 1 + ExitUsed(p) <= Len(q) /\ EntryUsed(p, e) <= Len(e)
               /\ i - 1 + ExitUsed(p) \in Nat /\ EntryUsed(p, e) \in Nat
<1>q. PICK q : q = ChainOf(sup)[b]
  OBVIOUS
<1>e. PICK e : e = ChainOf(sup)[d]
  OBVIOUS
<1>p. PICK p : p = Meeting(SubSeq(q, i, Len(q)), e)
  OBVIOUS
<1>u. PICK up : up = SubSeq(q, 1, i - 1 + StatesLeft(p))
  OBVIOUS
<1>d. PICK down : down = Reverse(SubSeq(e, 1, StatesEntered(p)))
  OBVIOUS
<1>i. i \in 1 .. Len(q) - 1
  BY <1>q
<1>1. Path(sup, b, q) /\ Path(sup, d, e)
  BY <1>q, <1>e, ChainsAre DEF Node
<1>2. /\ q \in Seq(Node) /\ e \in Seq(Node) /\ Len(q) \in Nat /\ Len(e) \in Nat
      /\ Len(q) >= 2 /\ Len(e) >= 2
      /\ q[1] = b /\ e[1] = d /\ q[Len(q)] = Top /\ e[Len(e)] = Top
  <2>1. q \in Seq(Node) /\ e \in Seq(Node) /\ Len(q) \in Nat \ {0} /\ Len(e) \in Nat \ {0}
    BY <1>1, Nodes DEF Path
  <2>2. q[1] = b /\ e[1] = d /\ q[Len(q)] = Top /\ e[Len(e)] = Top
    BY <1>1 DEF Path
  <2>3. b # Top /\ d # Top
    BY DEF State, Top
  <2> QED BY <2>1, <2>2, <2>3
<1>3. /\ \A n \in 1 .. Len(q) - 1 : q[n] \in State /\ q[n + 1] = sup[q[n]]
      /\ \A n \in 1 .. Len(e) - 1 : e[n] \in State /\ e[n + 1] = sup[e[n]]
      /\ \A m, n \in 1 .. Len(q) : m < n => q[n] < q[m]
      /\ \A m, n \in 1 .. Len(e) : m < n => e[n] < e[m]
      /\ \A n \in 1 .. Len(q) : q[n] \in Nat /\ q[n] \in Node
      /\ \A n \in 1 .. Len(e) : e[n] \in Nat /\ e[n] \in Node
  <2>1. /\ \A n \in 1 .. Len(q) : q[n] \in Node
        /\ \A n \in 1 .. Len(e) : e[n] \in Node
    <3> HIDE DEF Node
    <3> QED BY <1>2, ElementOfSeq
  <2>2. \A n \in 1 .. Len(q) - 1 : q[n] \in State /\ q[n + 1] = sup[q[n]]
    BY <1>1 DEF Path
  <2>3. \A n \in 1 .. Len(e) - 1 : e[n] \in State /\ e[n + 1] = sup[e[n]]
    BY <1>1 DEF Path
  <2>4. \A m, n \in 1 .. Len(q) : m < n => q[n] < q[m]
    BY <1>1 DEF Path
  <2>5. \A m, n \in 1 .. Len(e) : m < n => e[n] < e[m]
    BY <1>1 DEF Path
  <2>6. Node \subseteq Nat
    BY Nodes
  <2> HIDE DEF Node, State
  <2> QED BY <2>1, <2>2, <2>3, <2>4, <2>5, <2>6
<1> DEFINE x == SubSeq(q, i, Len(q))
<1>4. x \in Seq(Node) /\ Len(x) = Len(q) - i + 1 /\ Len(x) >= 2
      /\ \A n \in 1 .. Len(x) : x[n] = q[i + n - 1] /\ i + n - 1 \in 1 .. Len(q)
  <2>1. \A n \in i .. Len(q) : q[n] \in Node
    BY <1>3
  <2>2. i \in Int /\ Len(q) \in Int /\ i <= Len(q)
    BY <1>2, <1>i
  <2>3. x \in Seq(Node) /\ Len(x) = Len(q) - i + 1 /\ \A n \in 1 .. Len(q) - i + 1 : x[n] = q[i + n - 1]
    <3> HIDE DEF Node
    <3> QED BY <2>1, <2>2, SubSeqProperties
  <2>4. Len(q) \in Nat /\ i \in Nat /\ 1 <= i /\ i + 1 <= Len(q)
    BY <1>2, <1>i
  <2>5. Len(x) >= 2
    BY <2>3, <2>4
  <2>6. \A n \in 1 .. Len(x) : i + n - 1 \in 1 .. Len(q)
    BY <2>3, <2>4
  <2> QED BY <2>3, <2>5, <2>6
<1> HIDE DEF x
<1>5. PICK j \in 1 .. Len(x), k \in 1 .. Len(e) :
          /\ p = <<j, k>> /\ Meets(x, e, j, k)
          /\ \A m \in 1 .. Len(x), n \in 1 .. Len(e) :
                Meets(x, e, m, n) => SearchRank(j, k) <= SearchRank(m, n)
  <2>1. x[Len(x)] = e[Len(e)]
    <3>1. Len(x) \in 1 .. Len(x) /\ i + Len(x) - 1 = Len(q)
      BY <1>2, <1>4
    <3> QED BY <1>2, <1>4, <3>1
  <2>2. p = Meeting(x, e)
    BY <1>p DEF x
  <2> HIDE DEF Node
  <2>3. \E m \in 1 .. Len(x), n \in 1 .. Len(e) :
            /\ Meeting(x, e) = <<m, n>> /\ Meets(x, e, m, n)
            /\ \A m2 \in 1 .. Len(x), n2 \in 1 .. Len(e) :
                  Meets(x, e, m2, n2) => SearchRank(m, n) <= SearchRank(m2, n2)
    BY <1>2, <1>4, <2>1, MeetingIs
  <2> QED BY <2>2, <2>3
<1>6. j \in Nat \ {0} /\ k \in Nat \ {0} /\ Len(x) \in Nat /\ i \in Nat \ {0}
      /\ i \in 1 .. Len(q) - 1 /\ j <= Len(x) /\ k <= Len(e)
  BY <1>2, <1>4, <1>5, <1>i
<1>r. \A m, n \in Nat \ {0} :
          SearchRank(m, n) = IF m > 2 \/ n > 2 THEN 4 + m ELSE IF m = 1 THEN n ELSE 5 - n
  BY RankIs
(* What is below the meeting is around the destination only if it is the destination. *)
<1>7. \A m \in 1 .. j - 1, n \in 2 .. Len(e) : x[m] # e[n]
  <2> SUFFICES ASSUME NEW m \in 1 .. j - 1, NEW n \in 2 .. Len(e), x[m] = e[n] PROVE FALSE
    OBVIOUS
  <2>1. m \in 1 .. Len(x) /\ n \in 1 .. Len(e) /\ m \in Nat \ {0} /\ n \in Nat \ {0} /\ m < j /\ n > 1
    BY <1>2, <1>6
  <2>2. Meets(x, e, m, n)
    BY <2>1 DEF Meets
  <2>3. SearchRank(j, k) <= SearchRank(m, n)
    BY <1>5, <2>1, <2>2
  <2>4. j = 2 /\ m = 1 /\ n > 2 /\ k <= 2
    <3>1. SearchRank(j, k) = IF j > 2 \/ k > 2 THEN 4 + j ELSE IF j = 1 THEN k ELSE 5 - k
      BY <1>6, <1>r
    <3>2. SearchRank(m, n) = IF m > 2 \/ n > 2 THEN 4 + m ELSE IF m = 1 THEN n ELSE 5 - n
      BY <2>1, <1>r
    <3> QED BY <1>6, <2>1, <2>3, <3>1, <3>2
  <2>5. x[2] = e[k] /\ x[2] = q[i + 1] /\ x[1] = q[i]
    <3>1. x[2] = e[k]
      BY <1>5, <2>4 DEF Meets
    <3>2. x[2] = q[i + 2 - 1] /\ x[1] = q[i + 1 - 1]
      BY <1>4
    <3> QED BY <1>6, <3>1, <3>2
  <2>6. q[i + 1] = sup[q[i]] /\ q[i] \in State
    BY <1>3, <1>6
  <2>7. n # Len(e)
    BY <1>2, <2>4, <2>5, <2>6 DEF State, Top
  <2>8. n \in 1 .. Len(e) - 1 /\ n + 1 \in 1 .. Len(e) /\ e[n + 1] = sup[e[n]]
    BY <1>2, <1>3, <2>1, <2>7
  <2>9. e[n + 1] = e[k]
    BY <2>4, <2>5, <2>6, <2>8
  <2>10. k < n + 1
    BY <1>6, <2>1, <2>4
  <2>11. e[n + 1] < e[k] /\ e[k] \in Nat
    BY <1>3, <1>5, <2>8, <2>10
  <2> QED BY <2>9, <2>11
<1> DEFINE M == i - 1 + StatesLeft(p)
           E == StatesEntered(p)
<1>8. M = i - 1 + (IF j = 1 /\ k = 1 THEN 1 ELSE j - 1) /\ E = (IF j = 1 /\ k = 1 THEN 1 ELSE k - 1)
  BY <1>5 DEF StatesLeft, StatesEntered
<1>9. up = SubSeq(q, 1, M) /\ down = Reverse(SubSeq(e, 1, E))
  BY <1>u, <1>d
<1> HIDE DEF M, E
<1>10. M \in 0 .. Len(q) - 1 /\ E \in 0 .. Len(e) - 1
  <2>1. Len(q) \in Nat /\ Len(e) \in Nat /\ Len(x) = Len(q) - i + 1 /\ Len(e) >= 2 /\ Len(x) >= 2
    BY <1>2, <1>4
  <2>2. CASE j = 1 /\ k = 1
    <3>1. M = i /\ E = 1
      BY <1>6, <1>8, <2>2
    <3> QED BY <1>6, <2>1, <3>1
  <2>3. CASE ~(j = 1 /\ k = 1)
    <3>1. M = i + j - 2 /\ E = k - 1
      BY <1>6, <1>8, <2>3
    <3> QED BY <1>6, <2>1, <3>1
  <2> QED BY <2>2, <2>3
<1>11. q[M + 1] = e[E + 1]
  <2>1. CASE j = 1 /\ k = 1
    <3>1. x[1] = e[1] /\ x[1] = q[i]
      <4>1. x[1] = e[1]
        BY <1>5, <2>1 DEF Meets
      <4>2. x[1] = q[i + 1 - 1]
        BY <1>4
      <4> QED BY <1>6, <4>1, <4>2
    <3>2. q[i + 1] = sup[q[i]] /\ e[1 + 1] = sup[e[1]]
      <4>1. 1 \in 1 .. Len(e) - 1
        BY <1>2
      <4> QED BY <1>3, <1>6, <4>1
    <3> QED BY <1>6, <1>8, <2>1, <3>1, <3>2
  <2>2. CASE ~(j = 1 /\ k = 1)
    <3>1. M + 1 = i + j - 1 /\ E + 1 = k
      BY <1>6, <1>8, <2>2
    <3> QED BY <1>4, <1>5, <3>1 DEF Meets
  <2> QED BY <2>1, <2>2
<1> DEFINE y == q[M + 1]
<1>12. y \in Node /\ M + 1 \in 1 .. Len(q) /\ E + 1 \in 1 .. Len(e)
  BY <1>2, <1>3, <1>10
<1>13. up \in Seq(State) /\ Len(up) = M /\ \A n \in 1 .. M : up[n] = q[n]
  <2>1. \A n \in 1 .. M : q[n] \in State
    BY <1>3, <1>10
  <2>2. up \in Seq(State) /\ Len(up) = (IF 1 <= M THEN M - 1 + 1 ELSE 0)
        /\ \A n \in 1 .. M - 1 + 1 : up[n] = q[1 + n - 1]
    <3> HIDE DEF State
    <3>1. 1 \in Int /\ M \in Int
      BY <1>10
    <3> QED BY <1>9, <2>1, <3>1, SubSeqProperties
  <2> QED BY <1>10, <2>2
<1>14. down \in Seq(State) /\ Len(down) = E /\ \A n \in 1 .. E : down[n] = e[E - n + 1]
  <2> DEFINE f == SubSeq(e, 1, E)
  <2>1. \A n \in 1 .. E : e[n] \in State
    BY <1>3, <1>10
  <2>2. f \in Seq(State) /\ Len(f) = (IF 1 <= E THEN E - 1 + 1 ELSE 0)
        /\ \A n \in 1 .. E - 1 + 1 : f[n] = e[1 + n - 1]
    <3> HIDE DEF State
    <3>1. 1 \in Int /\ E \in Int
      BY <1>10
    <3> QED BY <2>1, <3>1, SubSeqProperties
  <2>3. Len(f) = E /\ \A n \in 1 .. E : f[n] = e[n]
    BY <1>10, <2>2
  <2>4. down = [n \in 1 .. E |-> f[(E - n) + 1]]
    BY <1>9, <2>3 DEF Reverse
  <2> HIDE DEF f
  <2>5. \A n \in 1 .. E : E - n + 1 \in 1 .. E /\ f[E - n + 1] = e[E - n + 1] /\ f[E - n + 1] \in State
    <3> TAKE n \in 1 .. E
    <3>1. E - n + 1 \in 1 .. E
      BY <1>10
    <3> QED BY <2>1, <2>3, <3>1
  <2>6. down \in [1 .. E -> State] /\ E \in Nat
    BY <1>10, <2>4, <2>5
  <2>7. down \in Seq(State) /\ Len(down) = E
    <3> HIDE DEF State
    <3> QED BY <2>6
  <2> QED BY <2>4, <2>5, <2>7
<1>15. Way(sup, b, y, up)
  <2>1. up = << >> => y = b
    <3>1. up = << >> => M = 0
      BY <1>13
    <3> QED BY <1>2, <3>1
  <2>2. up # << >> => up[1] = b /\ sup[up[Len(up)]] = y
    <3>1. up # << >> => M # 0
      BY <1>13
    <3>2. M # 0 => up[1] = q[1] /\ up[M] = q[M] /\ q[M + 1] = sup[q[M]]
      BY <1>3, <1>10, <1>13
    <3> QED BY <1>2, <1>13, <3>1, <3>2
  <2>3. \A n \in 1 .. Len(up) - 1 : up[n + 1] = sup[up[n]]
    <3> TAKE n \in 1 .. Len(up) - 1
    <3>1. n \in 1 .. M /\ n + 1 \in 1 .. M /\ n \in 1 .. Len(q) - 1
      BY <1>10, <1>13
    <3> QED BY <1>3, <1>13, <3>1
  <2> QED BY <1>13, <2>1, <2>2, <2>3 DEF Way
<1>16. Fall(sup, y, d, down)
  <2>1. down = << >> => y = d
    <3>1. down = << >> => E = 0
      BY <1>14
    <3> QED BY <1>2, <1>11, <3>1
  <2>2. down # << >> => sup[down[1]] = y /\ down[Len(down)] = d
    <3>1. down # << >> => E # 0
      BY <1>14
    <3>2. E # 0 => down[1] = e[E] /\ down[E] = e[1] /\ e[E + 1] = sup[e[E]]
      <4> HAVE E # 0
      <4>1. 1 \in 1 .. E /\ E \in 1 .. E /\ E - 1 + 1 = E /\ E - E + 1 = 1 /\ E \in 1 .. Len(e) - 1
        BY <1>10
      <4> QED BY <1>3, <1>14, <4>1
    <3> QED BY <1>2, <1>11, <1>14, <3>1, <3>2
  <2>3. \A n \in 1 .. Len(down) - 1 : sup[down[n + 1]] = down[n]
    <3> TAKE n \in 1 .. Len(down) - 1
    <3>1. /\ n \in 1 .. E /\ n + 1 \in 1 .. E /\ E - (n + 1) + 1 = E - n
          /\ E - n \in 1 .. Len(e) - 1
      BY <1>10, <1>14
    <3>2. down[n + 1] = e[E - n] /\ down[n] = e[E - n + 1] /\ e[E - n + 1] = sup[e[E - n]]
      BY <1>3, <1>14, <3>1
    <3> QED BY <3>2
  <2> QED BY <1>14, <2>1, <2>2, <2>3 DEF Fall
<1>17. /\ \A n \in 1 .. Len(q) : Inside(sup, q[n]) = {q[m] : m \in n .. Len(q)} \ {Top}
       /\ Inside(sup, b) = {q[m] : m \in 1 .. Len(q)} \ {Top}
       /\ Inside(sup, d) = {e[m] : m \in 1 .. Len(e)} \ {Top}
  <2>1. 1 \in 1 .. Len(q) /\ 1 \in 1 .. Len(e) /\ b \in Node /\ d \in Node
    BY <1>2 DEF Node
  <2>2. \A n \in 1 .. Len(q) : Inside(sup, q[n]) = From(q, n) \ {Top}
    <3> TAKE n \in 1 .. Len(q)
    <3> HIDE DEF Node
    <3>1. Path(sup, b, q)
      BY <1>1
    <3> QED BY <2>1, <3>1, InsidePath, Zenon
  <2>3. \A n \in 1 .. Len(e) : Inside(sup, e[n]) = From(e, n) \ {Top}
    <3> TAKE n \in 1 .. Len(e)
    <3> HIDE DEF Node
    <3>1. Path(sup, d, e)
      BY <1>1
    <3> QED BY <2>1, <3>1, InsidePath
  <2> QED BY <1>2, <2>1, <2>2, <2>3 DEF From
<1>18. q[i] \in State /\ q[i] # Top /\ i \in 1 .. Len(q)
  BY <1>2, <1>3, <1>6 DEF State, Top
<1>19. Enters(sup, d, down)
  <2> SUFFICES ASSUME NEW n \in 1 .. Len(down) PROVE down[n] \in Inside(sup, d)
    BY DEF Enters
  <2>1. n \in 1 .. E /\ E - n + 1 \in 1 .. Len(e) - 1 /\ E - n + 1 \in 1 .. Len(e)
    BY <1>10, <1>14
  <2>2. down[n] = e[E - n + 1] /\ e[E - n + 1] \in State
    BY <1>3, <1>14, <2>1
  <2>3. e[E - n + 1] # Top
    BY <2>2 DEF State, Top
  <2> QED BY <1>17, <2>1, <2>2, <2>3
<1>20. Leaves(sup, q[i], d, up)
  <2> SUFFICES ASSUME NEW n \in 1 .. M, q[n] \in Inside(sup, q[i]), q[n] \in Inside(sup, d), q[n] # d
               PROVE  FALSE
    BY <1>13 DEF Leaves, Shared
  <2>1. PICK m \in i .. Len(q) : q[n] = q[m]
    <3>1. Inside(sup, q[i]) = {q[m] : m \in i .. Len(q)} \ {Top}
      BY <1>17, <1>18
    <3> QED BY <3>1
  <2>2. m \in 1 .. Len(q) /\ n \in 1 .. Len(q) /\ m >= i
    BY <1>2, <1>6, <1>10
  <2>3. n = m
    BY <1>3, <2>1, <2>2
  <2>4. PICK h \in 1 .. Len(e) : q[n] = e[h]
    BY <1>17
  <2>5. h \in 2 .. Len(e)
    BY <1>2, <2>4
  <2>6. PICK g \in 1 .. Len(x) : g = n - i + 1
    BY <1>2, <1>4, <1>6, <2>2, <2>3
  <2>7. x[g] = q[n]
    <3>1. i + g - 1 = n
      BY <1>6, <2>2, <2>6
    <3> QED BY <1>4, <2>6, <3>1
  <2>8. CASE j = 1 /\ k = 1
    <3>1. n = i
      BY <1>6, <1>8, <2>2, <2>3, <2>8
    <3>2. g = 1
      BY <1>6, <2>6, <3>1
    <3>3. x[1] = e[1]
      BY <1>5, <2>8 DEF Meets
    <3> QED BY <1>2, <2>7, <3>2, <3>3
  <2>9. CASE ~(j = 1 /\ k = 1)
    <3>1. g \in 1 .. j - 1
      BY <1>6, <1>8, <2>2, <2>6, <2>9
    <3> QED BY <1>7, <2>4, <2>5, <2>7, <3>1
  <2> QED BY <2>8, <2>9
<1>21. Turns(sup, q[i], d, y)
  <2> SUFFICES ASSUME y # Top PROVE y \in Shared(sup, q[i], d) \/ (y = d /\ d # q[i] /\ d \in Inside(sup, q[i]))
    BY DEF Turns
  <2>1. M + 1 \in i .. Len(q)
    BY <1>6, <1>8, <1>10
  <2>2. y \in Inside(sup, q[i])
    <3>1. Inside(sup, q[i]) = {q[m] : m \in i .. Len(q)} \ {Top}
      BY <1>17, <1>18
    <3> QED BY <2>1, <3>1
  <2>3. y \in Inside(sup, d)
    BY <1>11, <1>12, <1>17
  <2>4. ASSUME y = d PROVE d # q[i]
    <3> SUFFICES ASSUME d = q[i] PROVE FALSE
      OBVIOUS
    <3>1. x[1] = e[1]
      <4>1. x[1] = q[i + 1 - 1] /\ i + 1 - 1 = i
        BY <1>4, <1>6
      <4> QED BY <1>2, <4>1
    <3>2. Meets(x, e, 1, 1) /\ 1 \in 1 .. Len(x) /\ 1 \in 1 .. Len(e)
      BY <1>2, <1>4, <3>1 DEF Meets
    <3>3. SearchRank(j, k) <= SearchRank(1, 1)
      BY <1>5, <3>2
    <3>4. j = 1 /\ k = 1
      <4>1. SearchRank(j, k) = IF j > 2 \/ k > 2 THEN 4 + j ELSE IF j = 1 THEN k ELSE 5 - k
        BY <1>6, <1>r
      <4>2. SearchRank(1, 1) = 1
        BY <1>r
      <4> QED BY <1>6, <3>3, <4>1, <4>2
    <3>5. M + 1 = i + 1
      BY <1>6, <1>8, <3>4
    <3>6. q[i + 1] < q[i] /\ q[i] \in Nat
      <4>1. i + 1 \in 1 .. Len(q) /\ i < i + 1
        BY <1>2, <1>6
      <4> QED BY <1>3, <1>18, <4>1
    <3> QED BY <2>4, <3>5, <3>6
  <2> QED BY <2>2, <2>3, <2>4 DEF Shared
<1>22. q[i] \in Inside(sup, b)
  BY <1>17, <1>18
<1>23. /\ i - 1 + ExitUsed(p) <= Len(q) /\ i - 1 + ExitUsed(p) \in Nat
       /\ EntryUsed(p, e) <= Len(e) /\ EntryUsed(p, e) \in Nat
  <2>1. /\ ExitUsed(p) = (IF j = 1 /\ k <= 2 THEN 1 ELSE IF j <= 2 THEN 2 ELSE j)
        /\ EntryUsed(p, e) = (IF j = 1 /\ k = 1 THEN 1 ELSE IF j <= 2 /\ k <= 2 THEN 2
                              ELSE IF j = 1 THEN k ELSE Len(e))
    BY <1>5 DEF ExitUsed, EntryUsed
  <2>2. ExitUsed(p) \in Nat /\ ExitUsed(p) <= Len(x) /\ EntryUsed(p, e) \in Nat /\ EntryUsed(p, e) <= Len(e)
    BY <2>1, <1>2, <1>4, <1>6
  <2>3. PICK a \in Nat : a = ExitUsed(p) /\ a <= Len(x)
    BY <2>2
  <2>4. Len(x) = Len(q) - i + 1 /\ Len(q) \in Nat
    BY <1>2, <1>4
  <2>5. i - 1 + a <= Len(q) /\ i - 1 + a \in Nat
    BY <1>6, <2>4, <2>3
  <2> QED BY <2>2, <2>3, <2>5
<1>24. /\ q[i] \in Inside(sup, b) /\ q[i] \in State
       /\ \E y_ \in Node : /\ Way(sup, b, y_, up) /\ Fall(sup, y_, d, down)
                           /\ Leaves(sup, q[i], d, up) /\ Turns(sup, q[i], d, y_)
                           /\ Enters(sup, d, down)
       /\ i - 1 + ExitUsed(p) <= Len(q) /\ EntryUsed(p, e) <= Len(e)
       /\ i - 1 + ExitUsed(p) \in Nat /\ EntryUsed(p, e) \in Nat
  BY <1>12, <1>15, <1>16, <1>18, <1>19, <1>20, <1>21, <1>22, <1>23
<1> QED BY <1>24, <1>q, <1>e, <1>p, <1>u, <1>d, Zenon

--------------------------------------------------------------------------------
(* Where the machine stands while it is on its way *)
Leaving(x, y) ==
    /\ active = Inside(super, x)
    /\ Way(super, x, y, exits) /\ Fall(super, y, target, enters)
    /\ Leaves(super, source, target, exits) /\ Turns(super, source, target, y)
    /\ Enters(super, target, enters)
Entering(y) ==
    /\ active = Inside(super, y)
    /\ Fall(super, y, target, enters) /\ Enters(super, target, enters)

(* The inductive invariant: active holds the states around one state, and   *)
(* what is left of the two paths leads from it to the target.              *)
MachineInv ==
    /\ type \in {"hsm", "fsm"} /\ Hierarchy(super)
    /\ type = "fsm" => \A s \in State : super[s] = Top
    /\ state \in State /\ source \in State /\ target \in State
    /\ pc \in {"rest", "exit", "enter"}
    /\ exits \in Seq(State) /\ enters \in Seq(State)
    /\ used \in Nat
    /\ pc = "rest" => active = Inside(super, state)
    /\ pc = "exit" => \E x, y \in Node : Leaving(x, y)
    /\ pc = "enter" => \E y \in Node : Entering(y)

(* The invariant holds before the first event. *)
LEMMA InitMachine == Init => MachineInv
<1> SUFFICES ASSUME Init PROVE MachineInv
  OBVIOUS
<1>1. Hierarchy(super)
  BY DEF Init, Hierarchy, Node
<1>2. Inside(super, state) = {state}
  BY <1>1, InsideIs DEF Init
<1> QED BY <1>1, <1>2 DEF Init, MachineInv

(* A transition is begun in the state b, by the i-th state of its chain. *)
LEMMA SetPathsLeads ==
    ASSUME MachineInv, NEW b \in State, active = Inside(super, b), NEW d \in State,
           NEW i \in 1 .. Len(Chain(b)) - 1, SetPaths(Chain(b), i, d),
           UNCHANGED <<type, super, state, active>>
    PROVE  /\ MachineInv' /\ source' \in Inside(super, b) /\ target' = d /\ pc' = "exit"
           /\ used' \in Nat
           /\ used' <= Len(Chain(b)) \/ used' <= Len(Chain(d))
<1> DEFINE q == ChainOf(super)[b]
           e == ChainOf(super)[d]
           p == Meeting(SubSeq(q, i, Len(q)), e)
           up == SubSeq(q, 1, i - 1 + StatesLeft(p))
           down == Reverse(SubSeq(e, 1, StatesEntered(p)))
<1>1. Chain(b) = q /\ Chain(d) = e
  BY ChainIs
<1>2. Hierarchy(super) /\ i \in 1 .. Len(q) - 1
  BY <1>1 DEF MachineInv
<1>3. /\ exits' = up /\ enters' = down /\ source' = q[i] /\ target' = d /\ pc' = "exit"
      /\ used' = Larger(i - 1 + ExitUsed(p), EntryUsed(p, e))
  BY <1>1 DEF SetPaths
<1>4. /\ q[i] \in Inside(super, b) /\ q[i] \in State
      /\ \E y \in Node : /\ Way(super, b, y, up) /\ Fall(super, y, d, down)
                         /\ Leaves(super, q[i], d, up) /\ Turns(super, q[i], d, y)
                         /\ Enters(super, d, down)
      /\ i - 1 + ExitUsed(p) <= Len(q) /\ EntryUsed(p, e) <= Len(e)
      /\ i - 1 + ExitUsed(p) \in Nat /\ EntryUsed(p, e) \in Nat
  BY <1>2, PathsBuilt
<1> HIDE DEF q, e, p, up, down
<1>5. used' \in Nat /\ (used' <= Len(q) \/ used' <= Len(e))
  BY <1>3, <1>4 DEF Larger
<1>6. PICK y \in Node : /\ Way(super, b, y, up) /\ Fall(super, y, d, down)
                        /\ Leaves(super, q[i], d, up) /\ Turns(super, q[i], d, y)
                        /\ Enters(super, d, down)
  BY <1>4
<1>7. Leaving(b, y)'
  BY <1>3, <1>6 DEF Leaving
<1>8. exits' \in Seq(State) /\ enters' \in Seq(State)
  BY <1>3, <1>6 DEF Way, Fall
<1>9. b \in Node
  BY DEF Node
<1>10. MachineInv'
  BY <1>3, <1>4, <1>5, <1>7, <1>8, <1>9 DEF MachineInv
<1> QED BY <1>1, <1>3, <1>4, <1>5, <1>10

(* When the paths have been walked the machine is in the target. *)
LEMMA Arrived ==
    ASSUME MachineInv, pc = "enter", enters = << >>
    PROVE  active = Inside(super, target)
<1>1. PICK y \in Node : Entering(y)
  BY DEF MachineInv
<1>2. y = target
  BY <1>1 DEF Entering, Fall
<1> QED BY <1>1, <1>2 DEF Entering

(* The first state of a chain is not its last. *)
LEMMA ChainLong ==
    ASSUME Hierarchy(super), NEW b \in State
    PROVE  1 \in 1 .. Len(Chain(b)) - 1 /\ Len(Chain(b)) \in Nat /\ Chain(b)[1] = b
<1>1. Path(super, b, Chain(b))
  BY ChainsAre, ChainIs DEF Node
<1>2. Chain(b)[1] = b /\ Chain(b)[Len(Chain(b))] = Top /\ Len(Chain(b)) \in 1 .. b + 1
  BY <1>1 DEF Path
<1>3. b # Top /\ b \in Nat
  BY DEF State, Top
<1> QED BY <1>2, <1>3

(* A transition of a flat machine *)
LEMMA FsmTransitLeads ==
    ASSUME MachineInv, NEW d \in State, FsmTransit(d)
    PROVE  MachineInv' /\ active = Inside(super, source') /\ target' = d /\ pc' = "exit"
<1>0. \A s \in State : super[s] = Top /\ s # Top
  BY DEF MachineInv, FsmTransit, State, Top
<1>1. source' \in State /\ active = Inside(super, source')
  BY Arrived DEF MachineInv, FsmTransit
<1>2. Hierarchy(super) /\ UNCHANGED <<type, super, state, active, used>>
      /\ exits' = <<source'>> /\ enters' = <<d>> /\ target' = d /\ pc' = "exit"
  BY DEF FsmTransit, MachineInv
<1>3. \A s \in State : Inside(super, s) = {s}
  BY <1>0, <1>2, InsideIs
<1>4. PICK z : z = source'
  OBVIOUS
<1>5. Way(super, z, Top, <<z>>) /\ Fall(super, Top, d, <<d>>)
  BY <1>0, <1>1, <1>4 DEF Way, Fall
<1>6. Leaves(super, z, d, <<z>>)
  BY <1>1, <1>3, <1>4 DEF Leaves, Shared
<1>7. Turns(super, z, d, Top) /\ Enters(super, d, <<d>>)
  BY <1>3 DEF Turns, Enters
<1>8. Leaving(z, Top)'
  BY <1>1, <1>2, <1>4, <1>5, <1>6, <1>7 DEF Leaving
<1>9. exits' \in Seq(State) /\ enters' \in Seq(State)
  BY <1>1, <1>2, <1>4, <1>5 DEF Way, Fall
<1>10. MachineInv'
  BY <1>1, <1>2, <1>4, <1>8, <1>9 DEF MachineInv, Node
<1> QED BY <1>1, <1>2, <1>10

(* The innermost state is left. *)
LEMMA ExitStateLeads ==
    ASSUME MachineInv, ExitState
    PROVE  /\ MachineInv'
           /\ \E x \in State : /\ active = Inside(super, x) /\ x \notin Shared(super, source, target)
                               /\ active' = Inside(super, super[x])
<1>1. PICK x \in Node, y \in Node : Leaving(x, y)
  BY DEF MachineInv, ExitState
<1>2. /\ Head(exits) = x /\ x \in State /\ Way(super, super[x], y, Tail(exits))
      /\ Hierarchy(super) /\ super[x] \in Node
  BY <1>1, WayTail DEF ExitState, Leaving, MachineInv, Hierarchy
<1>3. active' = Inside(super, super[x])
  <2>1. Inside(super, x) = {x} \cup Inside(super, super[x]) /\ x \notin Inside(super, super[x])
    <3>1. super[x] < x /\ x \in Nat /\ super[x] \in Nat
      BY <1>2, Nodes DEF Hierarchy
    <3> QED BY <1>2, <3>1, InsideIs
  <2> QED BY <1>1, <1>2, <2>1 DEF ExitState, Leaving
<1>4. /\ exits # << >> /\ exits \in Seq(State) /\ Len(exits) \in Nat \ {0}
      /\ Tail(exits) \in Seq(State) /\ Len(Tail(exits)) = Len(exits) - 1
      /\ \A i \in 1 .. Len(exits) - 1 : Tail(exits)[i] = exits[i + 1]
      /\ Head(exits) = exits[1]
  BY TailIs DEF MachineInv, ExitState
<1>5. Leaves(super, source, target, Tail(exits)) /\ x \notin Shared(super, source, target)
  BY <1>1, <1>2, <1>4 DEF Leaving, Leaves
<1>6. Leaving(super[x], y)'
  <2>1. exits' = Tail(exits) /\ UNCHANGED <<super, source, target, enters>>
    BY DEF ExitState
  <2> QED BY <1>1, <1>2, <1>3, <1>5, <2>1 DEF Leaving
<1>7. MachineInv'
  BY <1>2, <1>4, <1>6 DEF MachineInv, ExitState
<1> QED BY <1>1, <1>2, <1>3, <1>5, <1>7 DEF Leaving

(* The way up has been walked. *)
LEMMA ExitsDoneLeads ==
    ASSUME MachineInv, ExitsDone
    PROVE  /\ MachineInv'
           /\ \E y \in Node : active = Inside(super, y) /\ Turns(super, source, target, y)
<1>1. PICK x \in Node, y \in Node : Leaving(x, y)
  BY DEF MachineInv, ExitsDone
<1>2. x = y
  BY <1>1 DEF Leaving, Way, ExitsDone
<1>3. Entering(y)'
  BY <1>1, <1>2 DEF Leaving, Entering, ExitsDone
<1>4. MachineInv'
  BY <1>3 DEF MachineInv, ExitsDone
<1> QED BY <1>1, <1>2, <1>4 DEF Leaving

(* The next state is entered. *)
LEMMA EnterStateLeads ==
    ASSUME MachineInv, EnterState
    PROVE  /\ MachineInv'
           /\ \E s \in State : /\ active = Inside(super, super[s]) /\ s \in Inside(super, target)
                               /\ active' = Inside(super, s)
<1>1. PICK y \in Node : Entering(y)
  BY DEF MachineInv, EnterState
<1>2. PICK s \in State : s = Head(enters) /\ super[s] = y /\ Fall(super, s, target, Tail(enters))
  BY <1>1, FallTail DEF EnterState, Entering
<1>3. active' = Inside(super, s)
  BY <1>1, <1>2, InsideIs DEF EnterState, Entering, MachineInv
<1>4. /\ enters # << >> /\ enters \in Seq(State) /\ Len(enters) \in Nat \ {0}
      /\ Tail(enters) \in Seq(State) /\ Len(Tail(enters)) = Len(enters) - 1
      /\ \A i \in 1 .. Len(enters) - 1 : Tail(enters)[i] = enters[i + 1]
      /\ Head(enters) = enters[1]
  BY TailIs DEF MachineInv, EnterState
<1>5. Enters(super, target, Tail(enters)) /\ s \in Inside(super, target)
  BY <1>1, <1>2, <1>4 DEF Entering, Enters
<1>6. Entering(s)'
  <2>1. enters' = Tail(enters) /\ UNCHANGED <<super, target>>
    BY DEF EnterState
  <2> QED BY <1>2, <1>3, <1>5, <2>1 DEF Entering
<1>7. MachineInv'
  BY <1>2, <1>4, <1>6 DEF MachineInv, EnterState, Node
<1> QED BY <1>1, <1>2, <1>3, <1>5, <1>7 DEF Entering

(* The dispatch ends in the target. *)
LEMMA DispatchEndLeads ==
    ASSUME MachineInv, DispatchEnd
    PROVE  MachineInv' /\ active = Inside(super, target)
<1>1. active = Inside(super, target)
  BY Arrived DEF DispatchEnd
<1>2. MachineInv'
  BY <1>1 DEF MachineInv, DispatchEnd
<1> QED BY <1>1, <1>2

(* No step of the dispatcher breaks the inductive invariant: a call of a   *)
(* state function by hsm_path_exit or hsm_path_enter shortens the way, and *)
(* hsm_build_path makes one that leads to the destination.                 *)
THEOREM NextKeepsMachineInv == MachineInv /\ [Next]_vars => MachineInv'
<1> SUFFICES ASSUME MachineInv, [Next]_vars PROVE MachineInv'
  OBVIOUS
<1>0. Hierarchy(super)
  BY DEF MachineInv
<1>1. ASSUME NEW i \in 1 .. N + 1, HsmHandle(i) PROVE MachineInv'
  <2>1. i \in Nat
    BY Nodes
  <2> QED BY <1>1, <2>1 DEF HsmHandle, MachineInv, Leaving, Entering
<1>2. ASSUME NEW i \in 1 .. N, NEW d \in State, HsmTransit(i, d) PROVE MachineInv'
  BY <1>2, SetPathsLeads DEF HsmTransit, MachineInv
<1>3. ASSUME NEW d \in State, FsmTransit(d) PROVE MachineInv'
  BY <1>3, FsmTransitLeads
<1>4. ASSUME NEW d \in State, InitTransit(d) PROVE MachineInv'
  <2>1. active = Inside(super, target) /\ target \in State
    BY <1>4, Arrived DEF InitTransit, MachineInv
  <2> QED BY <1>0, <1>4, <2>1, ChainLong, SetPathsLeads DEF InitTransit
<1>5. CASE ExitState \/ ExitsDone \/ EnterState \/ DispatchEnd
  BY <1>5, ExitStateLeads, ExitsDoneLeads, EnterStateLeads, DispatchEndLeads
<1>6. CASE UNCHANGED vars
  BY <1>6 DEF vars, MachineInv, Leaving, Entering
<1> QED BY <1>1, <1>2, <1>3, <1>4, <1>5, <1>6 DEF Next

(* Between two events the application is in the state nsm.state and in all *)
(* states around it, and in no other: n_sm_hsm_dispatch and                *)
(* n_sm_fsm_dispatch make every exit and every entry once.                 *)
THEOREM RestsInTheState == Spec => []RestsInState
<1>1. MachineInv => RestsInState
  BY ChainIs, Zenon DEF MachineInv, RestsInState, Within, Inside
<1> QED BY <1>1, InitMachine, NextKeepsMachineInv, PTL DEF Spec

(* The variables keep their types: hsm_build_path puts only states of the  *)
(* machine on its paths, never ntop_state.                                 *)
THEOREM MachineTypes == Spec => []TypeOK
<1>1. MachineInv => TypeOK
  <2> SUFFICES ASSUME MachineInv PROVE TypeOK
    OBVIOUS
  <2>1. active \subseteq State
    <3>1. \A x \in Node : Inside(super, x) \subseteq State
      BY InsideIs DEF MachineInv
    <3>2. state \in Node
      BY DEF MachineInv, Node
    <3> QED BY <3>1, <3>2 DEF MachineInv, Leaving, Entering
  <2> QED BY <2>1 DEF MachineInv, TypeOK, Hierarchy, Node
<1> QED BY <1>1, InitMachine, NextKeepsMachineInv, PTL DEF Spec

--------------------------------------------------------------------------------
(* No state nests deeper than the path buffers have room for. *)
NestsWithin == \A s \in State : Len(Chain(s)) <= PathDepth

FitInv == MachineInv /\ NestsWithin /\ PathFits

(* No step writes a path buffer further than the chain of a state is long. *)
LEMMA NextKeepsFit == FitInv /\ [Next]_vars => FitInv'
<1> SUFFICES ASSUME FitInv, [Next]_vars PROVE FitInv'
  OBVIOUS
<1>0. MachineInv /\ NestsWithin /\ PathFits /\ Hierarchy(super)
  BY DEF FitInv, MachineInv
<1>1. super' = super
  BY DEF Next, vars, HsmHandle, HsmTransit, FsmTransit, InitTransit, ExitState, ExitsDone,
         EnterState, DispatchEnd
<1>2. MachineInv'
  BY <1>0, NextKeepsMachineInv
<1>3. NestsWithin'
  <2>1. \A s : (Chain(s))' = ChainOf(super')[s]
    BY Zenon DEF Chain, ChainOf, IsChain
  <2> QED BY <1>0, <1>1, <2>1, ChainIs DEF NestsWithin
<1>4. \A s \in State : Len(Chain(s)) \in Nat
  BY <1>0, ChainLong
<1>5. PathDepth \in Nat
  BY StateMachineAssumption
<1>6. PathFits'
  <2>1. ASSUME NEW i \in 1 .. N + 1, HsmHandle(i) PROVE PathFits'
    <3>1. state \in State /\ used' = i /\ i \in 1 .. Len(Chain(state))
      BY <1>0, <2>1 DEF HsmHandle, MachineInv
    <3>2. Len(Chain(state)) <= PathDepth /\ Len(Chain(state)) \in Nat
      BY <1>0, <1>4, <3>1 DEF NestsWithin
    <3> QED BY <1>5, <3>1, <3>2 DEF PathFits
  <2>2. ASSUME NEW b \in State, NEW d \in State, used' \in Nat,
               used' <= Len(Chain(b)) \/ used' <= Len(Chain(d))
        PROVE  PathFits'
    <3>1. Len(Chain(b)) <= PathDepth /\ Len(Chain(d)) <= PathDepth
      BY <1>0 DEF NestsWithin
    <3>2. Len(Chain(b)) \in Nat /\ Len(Chain(d)) \in Nat
      BY <1>4
    <3> QED BY <1>5, <2>2, <3>1, <3>2 DEF PathFits
  <2>3. ASSUME NEW i \in 1 .. N, NEW d \in State, HsmTransit(i, d) PROVE PathFits'
    <3>1. state \in State /\ active = Inside(super, state)
      BY <1>0, <2>3 DEF HsmTransit, MachineInv
    <3>2. used' \in Nat /\ (used' <= Len(Chain(state)) \/ used' <= Len(Chain(d)))
      BY <1>0, <2>3, <3>1, SetPathsLeads DEF HsmTransit
    <3> QED BY <2>2, <3>1, <3>2
  <2>4. ASSUME NEW d \in State, InitTransit(d) PROVE PathFits'
    <3>1. active = Inside(super, target) /\ target \in State
      BY <1>0, <2>4, Arrived DEF InitTransit, MachineInv
    <3>2. used' \in Nat /\ (used' <= Len(Chain(target)) \/ used' <= Len(Chain(d)))
      BY <1>0, <2>4, <3>1, ChainLong, SetPathsLeads DEF InitTransit
    <3> QED BY <2>2, <3>1, <3>2
  <2>5. ASSUME used' = used PROVE PathFits'
    BY <1>0, <2>5 DEF PathFits
  <2> QED BY <2>1, <2>3, <2>4, <2>5
          DEF Next, vars, FsmTransit, ExitState, ExitsDone, EnterState, DispatchEnd
<1> QED BY <1>2, <1>3, <1>6 DEF FitInv

(* hsm_build_path never writes beyond exit.buff or entry.buff when no      *)
(* chain of super states, ntop_state included, is longer than              *)
(* CONFIG_SMP_HSM_PATH_DEPTH.                                              *)
THEOREM PathsFitTheirBuffers == Spec /\ NestsWithin => []PathFits
<1>1. Init /\ NestsWithin => FitInv
  BY InitMachine, StateMachineAssumption DEF FitInv, PathFits, Init
<1>2. FitInv => PathFits
  BY DEF FitInv
<1> QED BY <1>1, <1>2, NextKeepsFit, PTL DEF Spec

(* In particular hsm_build_path stays in its buffers when there are fewer  *)
(* states than CONFIG_SMP_HSM_PATH_DEPTH.                                  *)
THEOREM DeepPathsFit == ASSUME PathDepth > N PROVE Spec => []PathFits
<1>1. Init => NestsWithin
  <2> SUFFICES ASSUME Init, NEW s \in State PROVE Len(Chain(s)) <= PathDepth
    BY DEF NestsWithin
  <2>1. Hierarchy(super)
    BY InitMachine DEF MachineInv
  <2>2. Path(super, s, Chain(s))
    BY <2>1, ChainsAre, ChainIs DEF Node
  <2>3. Len(Chain(s)) \in 1 .. s + 1 /\ s \in 1 .. N
    BY <2>2 DEF Path, State
  <2> QED BY <2>3, StateMachineAssumption
<1> QED BY <1>1, PathsFitTheirBuffers, PTL DEF Spec

--------------------------------------------------------------------------------
(* The state that active tells *)
LeafOf(sup, act) ==
    IF \E s \in State \cup {Top} : act = Inside(sup, s)
    THEN CHOOSE s \in State \cup {Top} : act = Inside(sup, s) ELSE -1
Leaf ==
    IF \E s \in State \cup {Top} : active = Within(s)
    THEN CHOOSE s \in State \cup {Top} : active = Within(s) ELSE -1

(* The state is told rightly, before a step and after it. *)
LEMMA LeafIs ==
    ASSUME Hierarchy(super), NEW x \in Node
    PROVE  /\ active = Inside(super, x) => Leaf = x
           /\ super' = super /\ active' = Inside(super, x) => Leaf' = x
<1>1. LeafOf(super, Inside(super, x)) = x
  BY InsideTells DEF LeafOf, Node
<1>2. Leaf = LeafOf(super, active)
  <2>1. \A s : Within(s) = Inside(super, s)
    BY ChainIs, Zenon DEF Within, Inside
  <2> QED BY <2>1, Zenon DEF Leaf, LeafOf
<1>3. Leaf' = LeafOf(super', active')
  <2>1. \A s : (Chain(s))' = ChainOf(super')[s]
    BY Zenon DEF Chain, ChainOf, IsChain
  <2>2. \A s : (Within(s))' = Inside(super', s)
    BY <2>1, Zenon DEF Within, Inside
  <2> QED BY <2>2, Zenon DEF Leaf, LeafOf
<1> QED BY <1>1, <1>2, <1>3

(* Around of StateChart, as an equation *)
IsAround(f, sup) == f = [x \in State \cup {Top} |-> IF x = Top THEN {} ELSE {x} \cup f[sup[x]]]

(* The states around a state are the same in StateChart. *)
LEMMA AroundIs ==
    ASSUME Hierarchy(super), NEW s \in Node
    PROVE  Chart!Around(s) = Inside(super, s)
<1> DEFINE g == CHOOSE f : IsAround(f, super)
<1>1. \A x : Chart!Around(x) = g[x]
  BY Zenon DEF Chart!Around, IsAround
<1>2. /\ Inside(super, Top) = {}
      /\ \A x \in State : Inside(super, x) = {x} \cup Inside(super, super[x])
  BY InsideIs
<1>3. \A x \in State : super[x] \in Node /\ super[x] < x /\ x # Top
  BY DEF Hierarchy, State, Top
<1>4. IsAround([x \in Node |-> Inside(super, x)], super)
  BY <1>2, <1>3 DEF IsAround, Node
<1>5. IsAround(g, super)
  BY <1>4
<1> HIDE DEF g
<1>6. g[Top] = {} /\ \A x \in State : g[x] = {x} \cup g[super[x]]
  <2>1. \A f : IsAround(f, super) => f[Top] = {} /\ \A x \in State : f[x] = {x} \cup f[super[x]]
    BY <1>3 DEF IsAround
  <2> QED BY <1>5, <2>1
<1> DEFINE T == {m \in Nat : \A x \in Node : x <= m => g[x] = Inside(super, x)}
<1>7. 0 \in T
  <2>1. \A x \in Node : x <= 0 => x = Top
    BY Nodes DEF Top
  <2> QED BY <1>2, <1>6, <2>1
<1>8. ASSUME NEW m \in Nat, m \in T PROVE m + 1 \in T
  <2> SUFFICES ASSUME NEW x \in Node, x <= m + 1 PROVE g[x] = Inside(super, x)
    OBVIOUS
  <2>1. CASE x = Top
    BY <1>2, <1>6, <2>1
  <2>2. CASE x \in State
    <3>1. super[x] \in Node /\ super[x] <= m
      <4>1. super[x] \in Node /\ super[x] < x /\ super[x] \in Nat /\ x \in Nat
        BY <1>3, <2>2, Nodes
      <4> QED BY <4>1
    <3>2. g[super[x]] = Inside(super, super[x])
      BY <1>8, <3>1
    <3> QED BY <1>2, <1>6, <2>2, <3>2
  <2> QED BY <2>1, <2>2 DEF Node
<1> HIDE DEF T
<1>9. Nat \subseteq T
  BY <1>7, <1>8, SetInduction
<1>10. s \in T /\ s <= s
  BY <1>9, Nodes
<1> QED BY <1>1, <1>10 DEF T

(* So are those that a transition keeps. *)
LEMMA KeptIs ==
    ASSUME MachineInv
    PROVE  /\ Chart!Kept = Shared(super, source, target)
           /\ Chart!Contains(target, source) <=> target # source /\ target \in Inside(super, source)
<1>1. /\ Chart!Around(source) = Inside(super, source)
      /\ Chart!Around(target) = Inside(super, target)
  BY AroundIs DEF MachineInv, Node
<1> QED BY <1>1 DEF Chart!Kept, Chart!Contains, Shared

--------------------------------------------------------------------------------
(* The phase of StateChart *)
Phase == IF pc = "exit" THEN "out" ELSE IF pc = "enter" THEN "in" ELSE "rest"

(* The steps of StateChart, by what this module says of them: Begin *)
LEMMA ChartBegins ==
    ASSUME NEW s \in State, NEW t \in State,
           \/ Phase = "rest" /\ s \in Chart!Around(Leaf)
           \/ Phase = "in" /\ Leaf = target /\ s = target,
           source' = s, target' = t, Phase' = "out", super' = super, Leaf' = Leaf
    PROVE  Chart!Next
<1>1. Chart!Begin(s, t)
  BY Zenon DEF Chart!Begin, Leaf, Phase
<1> QED BY <1>1, Zenon DEF Chart!Next

(* Leave *)
LEMMA ChartLeaves ==
    ASSUME Phase = "out", Leaf \in State \ Chart!Kept, Leaf' = super[Leaf],
           UNCHANGED <<super, source, target, Phase>>
    PROVE  Chart!Next
<1>1. Chart!Leave
  BY Zenon DEF Chart!Leave, Leaf, Phase
<1> QED BY <1>1, Zenon DEF Chart!Next

(* Turn *)
LEMMA ChartTurns ==
    ASSUME Phase = "out",
           Leaf \in Chart!Kept \cup {Top} \/ (Leaf = target /\ Chart!Contains(target, source)),
           Phase' = "in", UNCHANGED <<super, Leaf, source, target>>
    PROVE  Chart!Next
<1>1. Chart!Turn
  BY Zenon DEF Chart!Turn, Leaf, Phase
<1> QED BY <1>1, Zenon DEF Chart!Next

(* Enter *)
LEMMA ChartEnters ==
    ASSUME NEW s \in State, Phase = "in", super[s] = Leaf, s \in Chart!Around(target),
           Leaf' = s, UNCHANGED <<super, source, target, Phase>>
    PROVE  Chart!Next
<1>1. Chart!Enter(s)
  BY Zenon DEF Chart!Enter, Leaf, Phase
<1> QED BY <1>1, Zenon DEF Chart!Next

(* Rest *)
LEMMA ChartRests ==
    ASSUME Phase = "in", Leaf = target, Phase' = "rest",
           UNCHANGED <<super, Leaf, source, target>>
    PROVE  Chart!Next
<1>1. Chart!Rest
  BY Zenon DEF Chart!Rest, Leaf, Phase
<1> QED BY <1>1, Zenon DEF Chart!Next

(* What StateChart does not see *)
LEMMA ChartWaits ==
    ASSUME UNCHANGED <<super, active, source, target, pc>>
    PROVE  UNCHANGED Chart!vars
<1>1. Leaf' = Leaf /\ Phase' = Phase
  <2>1. \A s : (Chain(s))' = Chain(s)
    BY Zenon DEF Chain
  <2>2. \A s : (Within(s))' = Within(s)
    BY <2>1, Zenon DEF Within
  <2> QED BY <2>2, Zenon DEF Leaf, Phase
<1> QED BY <1>1, Zenon DEF Chart!vars, Leaf, Phase

(* A transition that a state of the active ones asks for *)
LEMMA TransitionBegins ==
    ASSUME MachineInv, NEW b \in State, active = Inside(super, b),
           pc = "rest" \/ (pc = "enter" /\ b = target /\ source' = target),
           source' \in Inside(super, b), NEW d \in State, target' = d, pc' = "exit",
           UNCHANGED <<super, active>>
    PROVE  Chart!Next
<1>1. Hierarchy(super) /\ b \in Node
  BY DEF MachineInv, Node
<1>2. Leaf = b /\ Leaf' = b
  BY <1>1, LeafIs
<1>3. Chart!Around(b) = Inside(super, b)
  BY <1>1, AroundIs
<1>4. PICK s : s = source'
  OBVIOUS
<1>5. s \in State
  BY <1>1, <1>4, InsideIs
<1>6. \/ Phase = "rest" /\ s \in Chart!Around(Leaf)
      \/ Phase = "in" /\ Leaf = target /\ s = target
  BY <1>2, <1>3, <1>4 DEF Phase
<1>7. Phase' = "out"
  BY DEF Phase
<1> QED BY <1>2, <1>4, <1>5, <1>6, <1>7, ChartBegins

--------------------------------------------------------------------------------
(* The dispatcher implements the state chart: hsm_path_exit leaves from the *)
(* inside out, hsm_path_enter enters from the outside in, and a state that *)
(* contains both ends of a transition is neither left nor entered.         *)
THEOREM DispatcherIsChart == Spec => ImplementsChart
<1>1. Init => Chart!Init
  <2> SUFFICES ASSUME Init PROVE Chart!Init
    OBVIOUS
  <2>1. MachineInv /\ Hierarchy(super)
    BY InitMachine DEF MachineInv
  <2>2. active = Inside(super, state) /\ state \in Node
    BY <2>1 DEF Init, MachineInv, Node
  <2>3. Leaf = state
    BY <2>1, <2>2, LeafIs
  <2> QED BY <2>3 DEF Chart!Init, Init, Leaf
<1>2. MachineInv /\ [Next]_vars => [Chart!Next]_(Chart!vars)
  <2> SUFFICES ASSUME MachineInv, [Next]_vars PROVE Chart!Next \/ UNCHANGED Chart!vars
    OBVIOUS
  <2>h. Hierarchy(super) /\ source \in State /\ target \in State /\ source \in Node /\ target \in Node
        /\ \A s \in State : super[s] \in Node /\ s \in Node
    BY DEF MachineInv, Hierarchy, Node
  <2>i. \A s \in State : s \in Inside(super, s)
    BY <2>h, InsideIs
  <2>1. ASSUME NEW i \in 1 .. N + 1, HsmHandle(i) PROVE UNCHANGED Chart!vars
    BY <2>1, ChartWaits DEF HsmHandle
  <2>2. ASSUME NEW i \in 1 .. N, NEW d \in State, HsmTransit(i, d) PROVE Chart!Next
    <3>1. /\ pc = "rest" /\ i \in 1 .. Len(Chain(state)) - 1 /\ SetPaths(Chain(state), i, d)
          /\ UNCHANGED <<type, super, state, active>>
      BY <2>2 DEF HsmTransit
    <3>2. state \in State /\ active = Inside(super, state)
      BY <3>1 DEF MachineInv
    <3>3. source' \in Inside(super, state) /\ target' = d /\ pc' = "exit"
      BY <3>1, <3>2, SetPathsLeads
    <3> QED BY <3>1, <3>2, <3>3, TransitionBegins
  <2>3. ASSUME NEW d \in State, FsmTransit(d) PROVE Chart!Next
    <3>1. MachineInv' /\ active = Inside(super, source') /\ target' = d /\ pc' = "exit"
      BY <2>3, FsmTransitLeads
    <3>2. PICK b \in State : b = source'
      BY <3>1 DEF MachineInv
    <3>3. CASE pc = "rest"
      BY <2>3, <2>i, <3>1, <3>2, <3>3, TransitionBegins DEF FsmTransit
    <3>4. CASE pc # "rest"
      <4>1. pc = "enter" /\ b = target /\ source' = target
        BY <2>3, <3>2, <3>4 DEF FsmTransit
      <4> QED BY <2>3, <2>i, <3>1, <3>2, <4>1, TransitionBegins DEF FsmTransit
    <3> QED BY <3>3, <3>4
  <2>4. ASSUME NEW d \in State, InitTransit(d) PROVE Chart!Next
    <3>1. /\ pc = "enter" /\ enters = << >> /\ SetPaths(Chain(target), 1, d)
          /\ UNCHANGED <<type, super, state, active>>
      BY <2>4 DEF InitTransit
    <3>2. active = Inside(super, target)
      BY <3>1, Arrived
    <3>3. 1 \in 1 .. Len(Chain(target)) - 1 /\ Chain(target)[1] = target
      BY <2>h, ChainLong
    <3>4. source' \in Inside(super, target) /\ target' = d /\ pc' = "exit"
      BY <2>h, <3>1, <3>2, <3>3, SetPathsLeads
    <3>5. source' = target
      BY <3>1, <3>3 DEF SetPaths
    <3> QED BY <2>h, <3>1, <3>2, <3>4, <3>5, TransitionBegins
  <2>5. CASE ExitState
    <3>1. PICK x \in State : /\ active = Inside(super, x) /\ x \notin Shared(super, source, target)
                             /\ active' = Inside(super, super[x])
      BY <2>5, ExitStateLeads
    <3>2. pc = "exit" /\ UNCHANGED <<super, source, target, pc>>
      BY <2>5 DEF ExitState
    <3>3. Leaf = x /\ Leaf' = super[x]
      BY <2>h, <3>1, <3>2, LeafIs
    <3>4. Phase = "out" /\ Phase' = Phase
      BY <3>2 DEF Phase
    <3>5. Leaf \in State \ Chart!Kept
      BY <3>1, <3>3, KeptIs
    <3> QED BY <3>2, <3>3, <3>4, <3>5, ChartLeaves
  <2>6. CASE ExitsDone
    <3>1. PICK y \in Node : active = Inside(super, y) /\ Turns(super, source, target, y)
      BY <2>6, ExitsDoneLeads
    <3>2. pc = "exit" /\ pc' = "enter" /\ UNCHANGED <<super, source, target, active>>
      BY <2>6 DEF ExitsDone
    <3>3. Leaf = y /\ Leaf' = y
      BY <2>h, <3>1, <3>2, LeafIs
    <3>4. Phase = "out" /\ Phase' = "in"
      BY <3>2 DEF Phase
    <3>5. Leaf \in Chart!Kept \cup {Top} \/ (Leaf = target /\ Chart!Contains(target, source))
      BY <3>1, <3>3, KeptIs DEF Turns
    <3> QED BY <3>2, <3>3, <3>4, <3>5, ChartTurns
  <2>7. CASE EnterState
    <3>1. PICK s \in State : /\ active = Inside(super, super[s]) /\ s \in Inside(super, target)
                             /\ active' = Inside(super, s)
      BY <2>7, EnterStateLeads
    <3>2. pc = "enter" /\ UNCHANGED <<super, source, target, pc>>
      BY <2>7 DEF EnterState
    <3>3. Leaf = super[s] /\ Leaf' = s
      BY <2>h, <3>1, <3>2, LeafIs
    <3>4. Phase = "in" /\ Phase' = Phase
      BY <3>2 DEF Phase
    <3>5. s \in Chart!Around(target)
      BY <2>h, <3>1, AroundIs
    <3> QED BY <3>2, <3>3, <3>4, <3>5, ChartEnters
  <2>8. CASE DispatchEnd
    <3>1. active = Inside(super, target)
      BY <2>8, DispatchEndLeads
    <3>2. pc = "enter" /\ pc' = "rest" /\ UNCHANGED <<super, source, target, active>>
      BY <2>8 DEF DispatchEnd
    <3>3. Leaf = target /\ Leaf' = target
      BY <2>h, <3>1, <3>2, LeafIs
    <3>4. Phase = "in" /\ Phase' = "rest"
      BY <3>2 DEF Phase
    <3> QED BY <3>2, <3>3, <3>4, ChartRests
  <2>9. CASE UNCHANGED vars
    BY <2>9, ChartWaits DEF vars
  <2> QED BY <2>1, <2>2, <2>3, <2>4, <2>5, <2>6, <2>7, <2>8, <2>9 DEF Next
<1> QED BY <1>1, <1>2, InitMachine, NextKeepsMachineInv, PTL DEF Spec, ImplementsChart, Chart!Spec
================================================================================
