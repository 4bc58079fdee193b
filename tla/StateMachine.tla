------------------------------ MODULE StateMachine ------------------------------
(***************************************************************************)
(* The state machine processor (source/smp.c).  An application gives a     *)
(* state machine functions for its states, which name their super state,   *)
(* and the dispatcher calls them: with the event, then with NSM_EXIT and   *)
(* NSM_ENTRY along the paths of a transition, then with NSM_INIT.          *)
(*                                                                         *)
(* Each call of a state function is a step.  active records which states   *)
(* have been entered and not left, as the application sees it.  A state    *)
(* machine has one dispatcher at a time, so nothing comes between steps.   *)
(***************************************************************************)
EXTENDS Integers, SequencesExt

CONSTANTS
    N,              \* number of states: 1 .. N, a state's super state is lower
    PathDepth       \* CONFIG_SMP_HSM_PATH_DEPTH, the size of the path buffers

ASSUME StateMachineAssumption == N \in Nat \ {0} /\ PathDepth \in Nat

VARIABLES
    type,       \* "hsm" or "fsm", the dispatcher in nsm.vf_dispatch
    super,      \* super[s]: the state whose function is asked after that of s
    state,      \* nsm.state between two dispatches
    active,     \* the states the application is in
    pc,         \* "rest", or calling the states on the paths: "exit", "enter"
    exits,      \* exit.buff, what is left of it to be called
    enters,     \* entry.buff in the order of the calls, likewise
    source,     \* the last state of exit.buff: it answered with a transition
    target,     \* entry.buff[0]: it named this one
    used        \* entries of a path buffer that this dispatch has written

vars == <<type, super, state, active, pc, exits, enters, source, target, used>>

State == 1 .. N
Top == 0        \* ntop_state

TypeOK ==
    /\ type \in {"hsm", "fsm"}
    /\ super \in [State -> State \cup {Top}]
    /\ state \in State /\ source \in State /\ target \in State
    /\ active \subseteq State
    /\ pc \in {"rest", "exit", "enter"}
    /\ exits \in Seq(State) /\ enters \in Seq(State)
    /\ used \in Nat

(* Any hierarchy; the states of a flat machine have no super state.  The   *)
(* machine begins in an outermost state, whose NSM_INIT is dispatched by   *)
(* epa_init_i.                                                             *)
Init ==
    /\ type \in {"hsm", "fsm"}
    /\ super \in [State -> State \cup {Top}]
    /\ \A s \in State : super[s] < s /\ (type = "fsm" => super[s] = Top)
    /\ state \in State /\ super[state] = Top
    /\ active = {state}
    /\ pc = "rest"
    /\ exits = << >> /\ enters = << >>
    /\ source = state /\ target = state
    /\ used = 0

--------------------------------------------------------------------------------
(* The states that hsm_get_state_super finds from s on, s and Top included. *)
Chain(s) ==
    LET chain[x \in State \cup {Top}] ==
            IF x = Top THEN <<Top>> ELSE <<x>> \o chain[super[x]]
    IN  chain[s]

(* Variant for sensitivity: the source is not looked for around the        *)
(* destination until everything else has been tried.                       *)
SearchRankSourceLast(j, k) ==
    IF j > 2 \/ k > 2 THEN (IF j = 1 THEN N + 9 ELSE 4 + j)
    ELSE CHOOSE r \in 1 .. 4 : <<j, k>> = << <<1, 1>>, <<1, 2>>, <<2, 2>>, <<2, 1>> >>[r]

(* When hsm_build_path compares the j-th state of the source's chain with  *)
(* the k-th of the destination's: its paths a to d, then e, f and g.       *)
SearchRank(j, k) ==
    IF j > 2 \/ k > 2 THEN 4 + j
    ELSE CHOOSE r \in 1 .. 4 : <<j, k>> = << <<1, 1>>, <<1, 2>>, <<2, 2>>, <<2, 1>> >>[r]

(* The first comparison that finds the same state in both chains.  From    *)
(* the third state of the source's on, the destination itself is skipped.  *)
Meeting(x, e) ==
    LET equal == {p \in (1 .. Len(x)) \X (1 .. Len(e)) :
                     x[p[1]] = e[p[2]] /\ (p[1] > 2 => p[2] > 1)}
    IN  CHOOSE p \in equal :
            \A q \in equal : SearchRank(p[1], p[2]) <= SearchRank(q[1], q[2])

(* exit->index and entry->index at the return of hsm_build_path: how many  *)
(* states of the source's and the destination's chain are to be called.    *)
StatesLeft(p) == IF p = <<1, 1>> THEN 1 ELSE p[1] - 1
StatesEntered(p) == IF p = <<1, 1>> THEN 1 ELSE p[2] - 1

(* The entries of the two buffers that are written on the way to p.        *)
ExitUsed(p) == IF p[1] = 1 /\ p[2] <= 2 THEN 1 ELSE IF p[1] <= 2 THEN 2 ELSE p[1]
EntryUsed(p, e) ==
    IF p = <<1, 1>> THEN 1 ELSE IF p[1] <= 2 /\ p[2] <= 2 THEN 2
    ELSE IF p[1] = 1 THEN p[2] ELSE Len(e)

Larger(a, b) == IF a > b THEN a ELSE b

(* Both paths of a transition from the i-th state of chain x to state d:   *)
(* the states below the i-th are left in any case.                         *)
SetPaths(x, i, d) ==
    LET source_ == SubSeq(x, i, Len(x))
        p == Meeting(source_, Chain(d))
    IN  /\ exits' = SubSeq(x, 1, i - 1 + StatesLeft(p))
        /\ enters' = Reverse(SubSeq(Chain(d), 1, StatesEntered(p)))
        /\ used' = Larger(i - 1 + ExitUsed(p), EntryUsed(p, Chain(d)))
        /\ source' = x[i] /\ target' = d
        /\ pc' = "exit"

--------------------------------------------------------------------------------
(* n_sm_hsm_dispatch: the event goes up the chain to the first state that  *)
(* does not return NACTION_SUPER.  It is handled, or ignored by ntop_state *)
(* at the latest, and nsm.state is restored ...                            *)
HsmHandle(i) ==
    /\ type = "hsm" /\ pc = "rest"
    /\ i \in 1 .. Len(Chain(state))
    /\ used' = i
    /\ UNCHANGED <<type, super, state, active, pc, exits, enters, source, target>>

(* ... or the state names another one to transit to. *)
HsmTransit(i, d) ==
    /\ type = "hsm" /\ pc = "rest"
    /\ i \in 1 .. Len(Chain(state)) - 1
    /\ SetPaths(Chain(state), i, d)
    /\ UNCHANGED <<type, super, state, active>>

(* n_sm_fsm_dispatch: the only state is left, the next one is entered.     *)
FsmTransit(d) ==
    /\ type = "fsm"
    /\ \/ pc = "rest" /\ source' = state
       \/ pc = "enter" /\ enters = << >> /\ source' = target
    /\ exits' = <<source'>> /\ enters' = <<d>>
    /\ target' = d
    /\ pc' = "exit"
    /\ UNCHANGED <<type, super, state, active, used>>

(* hsm_path_exit, the calls with NSM_EXIT *)
ExitState ==
    /\ pc = "exit" /\ exits # << >>
    /\ active' = active \ {Head(exits)}
    /\ exits' = Tail(exits)
    /\ UNCHANGED <<type, super, state, pc, enters, source, target, used>>

ExitsDone ==
    /\ pc = "exit" /\ exits = << >>
    /\ pc' = "enter"
    /\ UNCHANGED <<type, super, state, active, exits, enters, source, target, used>>

(* hsm_path_enter, the calls with NSM_ENTRY *)
EnterState ==
    /\ pc = "enter" /\ enters # << >>
    /\ active' = active \cup {Head(enters)}
    /\ enters' = Tail(enters)
    /\ UNCHANGED <<type, super, state, pc, exits, source, target, used>>

(* Variant for sensitivity: exit.index is not set to one. *)
InitTransitKeepsIndex(d) ==
    /\ type = "hsm" /\ pc = "enter" /\ enters = << >>
    /\ LET p == Meeting(Chain(target), Chain(d))
       IN  /\ exits' = SubSeq(Chain(target), 1, StatesLeft(p))
           /\ enters' = Reverse(SubSeq(Chain(d), 1, StatesEntered(p)))
           /\ used' = used + ExitUsed(p)
    /\ source' = target /\ target' = d
    /\ pc' = "exit"
    /\ UNCHANGED <<type, super, state, active>>

(* The state entered is called with NSM_INIT and may name another one ...  *)
InitTransit(d) ==
    /\ type = "hsm" /\ pc = "enter" /\ enters = << >>
    /\ SetPaths(Chain(target), 1, d)
    /\ UNCHANGED <<type, super, state, active>>

(* Variant for sensitivity: nsm.state is not updated. *)
DispatchEndKeepsState ==
    /\ pc = "enter" /\ enters = << >>
    /\ pc' = "rest"
    /\ UNCHANGED <<type, super, state, active, exits, enters, source, target, used>>

(* ... or not, and the dispatch ends. *)
DispatchEnd ==
    /\ pc = "enter" /\ enters = << >>
    /\ state' = target
    /\ pc' = "rest"
    /\ UNCHANGED <<type, super, active, exits, enters, source, target, used>>

Next ==
    \/ \E i \in 1 .. N + 1 : HsmHandle(i)
    \/ \E i \in 1 .. N, d \in State : HsmTransit(i, d)
    \/ \E d \in State : FsmTransit(d) \/ InitTransit(d)
    \/ ExitState \/ ExitsDone \/ EnterState \/ DispatchEnd

Spec == Init /\ [][Next]_vars

--------------------------------------------------------------------------------
(* Between two events the application is in the state that nsm.state says  *)
(* and in all states around it, and in no other: no entry or exit is       *)
(* missed or made twice, whichever path a transition and the initial       *)
(* transitions that follow it have taken.                                  *)
Within(s) == ToSet(Chain(s)) \ {Top}
RestsInState == pc = "rest" => active = Within(state)

(* No path buffer is written beyond its end while states nest less deep    *)
(* than CONFIG_SMP_HSM_PATH_DEPTH.                                         *)
PathFits == used <= PathDepth

(* The dispatcher implements a state chart: states are left from the       *)
(* inside out and entered from the outside in, and one that contains both  *)
(* ends of a transition is neither left nor entered.                       *)
Chart == INSTANCE StateChart WITH
    leaf <- (IF \E s \in State \cup {Top} : active = Within(s)
             THEN CHOOSE s \in State \cup {Top} : active = Within(s) ELSE -1),
    phase <- (IF pc = "exit" THEN "out" ELSE IF pc = "enter" THEN "in" ELSE "rest")
ImplementsChart == Chart!Spec
================================================================================
