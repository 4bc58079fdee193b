------------------------------- MODULE StateChart -------------------------------
(***************************************************************************)
(* What a hierarchical state machine promises its states: it is always in  *)
(* one innermost state and in all the states around it.  A transition goes *)
(* out state by state, innermost first, then in state by state, outermost  *)
(* first, and does not leave a state that contains both its ends.          *)
(***************************************************************************)
EXTENDS Integers

CONSTANTS State, Top

VARIABLES
    super,      \* super[s]: the state around s, Top for the outermost ones
    leaf,       \* the innermost state the machine is in, Top if in none
    source,     \* the state whose transition is being made
    target,     \* the state it leads to
    phase       \* "rest", going "out" or going "in"

vars == <<super, leaf, source, target, phase>>

(* The states around s, s included. *)
Around(s) ==
    LET path[x \in State \cup {Top}] == IF x = Top THEN {} ELSE {x} \cup path[super[x]]
    IN  path[s]

Contains(s, t) == s # t /\ s \in Around(t)

(* States around both ends of the transition.  If one end is the target it *)
(* may be left and entered again, or not, when it contains the source.     *)
Kept == (Around(source) \cap Around(target)) \ {target}

Init ==
    /\ super \in [State -> State \cup {Top}]
    /\ leaf \in State /\ super[leaf] = Top
    /\ source = leaf /\ target = leaf
    /\ phase = "rest"

(* Any state that the machine is in may ask for a transition, and so may   *)
(* the target of one when it has been entered.                             *)
Begin(s, t) ==
    /\ \/ phase = "rest" /\ s \in Around(leaf)
       \/ phase = "in" /\ leaf = target /\ s = target
    /\ source' = s /\ target' = t
    /\ phase' = "out"
    /\ UNCHANGED <<super, leaf>>

Leave ==
    /\ phase = "out" /\ leaf \in State \ Kept
    /\ leaf' = super[leaf]
    /\ UNCHANGED <<super, source, target, phase>>

Turn ==
    /\ phase = "out"
    /\ leaf \in Kept \cup {Top} \/ (leaf = target /\ Contains(target, source))
    /\ phase' = "in"
    /\ UNCHANGED <<super, leaf, source, target>>

Enter(s) ==
    /\ phase = "in" /\ super[s] = leaf /\ s \in Around(target)
    /\ leaf' = s
    /\ UNCHANGED <<super, source, target, phase>>

Rest ==
    /\ phase = "in" /\ leaf = target
    /\ phase' = "rest"
    /\ UNCHANGED <<super, leaf, source, target>>

Next ==
    \/ \E s, t \in State : Begin(s, t)
    \/ Leave \/ Turn \/ \E s \in State : Enter(s)
    \/ Rest

Spec == Init /\ [][Next]_vars
================================================================================
