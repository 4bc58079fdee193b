--------------------------------- MODULE DList ---------------------------------
(***************************************************************************)
(* The circular doubly linked list of include/base/dlist.h, as operators   *)
(* on the links l of all nodes: l.next and l.prev.  A node that is on no   *)
(* list points to itself; ndlist_remove leaves its prev as it was.         *)
(***************************************************************************)
EXTENDS Integers

(* ndlist_init *)
ListInit(l, n) == [next |-> [l.next EXCEPT ![n] = n], prev |-> [l.prev EXCEPT ![n] = n]]

(* ndlist_add_before *)
AddBefore(l, c, n) ==
    [next |-> [[l.next EXCEPT ![n] = c] EXCEPT ![l.prev[c]] = n],
     prev |-> [[l.prev EXCEPT ![n] = l.prev[c]] EXCEPT ![c] = n]]

(* ndlist_add_after: the links of the new node, then those of its          *)
(* successor, then those of c.                                             *)
LinkNode(l, c, n) ==
    [next |-> [l.next EXCEPT ![n] = l.next[c]], prev |-> [l.prev EXCEPT ![n] = c]]
LinkNext(l, c, n) == [l EXCEPT !.prev[l.next[c]] = n]
LinkCurrent(l, c, n) == [l EXCEPT !.next[c] = n]

AddAfter(l, c, n) == LinkCurrent(LinkNext(LinkNode(l, c, n), c, n), c, n)

(* ndlist_remove *)
Remove(l, n) ==
    [next |-> [[l.next EXCEPT ![l.prev[n]] = l.next[n]] EXCEPT ![n] = n],
     prev |-> [l.prev EXCEPT ![l.next[n]] = l.prev[n]]]

(* ndlist_is_empty *)
IsEmpty(l, n) == l.next[n] = n

(* ndlist_rotate_left *)
RotateLeft(l, n) ==
    IF IsEmpty(l, n) THEN l ELSE AddBefore(Remove(l, l.next[n]), n, l.next[n])

--------------------------------------------------------------------------------
(* The nodes reached from head in n steps, and those of its list: on an    *)
(* intact list a walk over all Nodes comes back to head.                   *)
Walk(l, head, n) ==
    LET walk[i \in 0 .. n] == IF i = 0 THEN head ELSE l.next[walk[i - 1]] IN walk

Members(l, head, n) == {Walk(l, head, n)[i] : i \in 0 .. n} \ {head}

(* The links of nodes N agree: every node of N is the predecessor of its   *)
(* successor, and no link leaves N.                                        *)
WellLinked(l, N) ==
    \A n \in N :
        /\ l.next[n] \in N
        /\ ~IsEmpty(l, n) => l.prev[l.next[n]] = n
================================================================================
