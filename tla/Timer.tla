--------------------------------- MODULE Timer ---------------------------------
(***************************************************************************)
(* Virtual timers (source/timer.c): a list ordered by expiry in which each *)
(* timer keeps the ticks it expires after its predecessor, so that a tick  *)
(* of the core timer touches only the first one.  The list is modelled     *)
(* without its sentinel; rtick and itick are unsigned counters of a word.  *)
(*                                                                         *)
(* ncore_timer_isr holds the kernel lock, so nothing but the callbacks it  *)
(* calls comes between its steps.  isr says where it stands:               *)
(*                                                                         *)
(*   "off"    not running                                                  *)
(*   "loop"   about to test current->rtick                                 *)
(*   "call"   in the callback of timer expired                             *)
(*   "wild"   has unlinked a timer that was not linked                     *)
(***************************************************************************)
EXTENDS Integers, Sequences

CONSTANTS
    Timer,          \* the timers
    Sentinel,       \* g_timer_sentinel
    MaxTick,        \* bound: the longest time a timer is started for
    WordSize,       \* 2^32: values of a uint32_t
    Starts,         \* Starts[t]: timers the callback of t may start
    Cancels         \* Cancels[t]: timers the callback of t may cancel

ASSUME TimerAssumption ==
    /\ Sentinel \notin Timer
    /\ MaxTick \in Nat /\ WordSize \in Nat /\ MaxTick < WordSize
    /\ Starts \in [Timer -> SUBSET Timer] /\ Cancels \in [Timer -> SUBSET Timer]

VARIABLES
    list,       \* running timers in the order of expiry
    rtick,      \* ntimer.rtick
    itick,      \* ntimer.itick
    isr,        \* where ncore_timer_isr stands
    current,    \* its pointer to the timer to test next, when it runs
    expired     \* its pointer tmp to the timer whose callback runs, in one

vars == <<list, rtick, itick, isr, current, expired>>

Value == 0 .. WordSize - 1

TypeOK ==
    /\ list \in Seq(Timer)
    /\ rtick \in [Timer -> Value] /\ itick \in [Timer -> Value]
    /\ isr \in {"off", "loop", "call", "wild"}
    /\ current \in Timer \cup {Sentinel}
    /\ expired \in Timer \cup {Sentinel}

Init ==
    /\ list = << >>
    /\ rtick = [t \in Timer |-> 0]
    /\ itick = [t \in Timer |-> 0]
    /\ isr = "off"
    /\ current = Sentinel
    /\ expired = Sentinel

--------------------------------------------------------------------------------
(* ntimer_is_running_i *)
Running(t) == \E i \in 1 .. Len(list) : list[i] = t

First(l) == IF l = << >> THEN Sentinel ELSE Head(l)

(* before[k]: the sum of the relative ticks of the first k timers of l.    *)
TicksBefore(l, r) ==
    LET before[k \in 0 .. Len(l)] == IF k = 0 THEN 0 ELSE before[k - 1] + r[l[k]]
    IN  before

(* ntimer_remaining *)
Remaining(t) ==
    IF Running(t)
    THEN TicksBefore(list, rtick)[CHOOSE i \in 1 .. Len(list) : list[i] = t] % WordSize
    ELSE 0

(* Variant for sensitivity: the successor keeps its ticks. *)
InsertTimerAlone(l, r, t) ==
    LET before == TicksBefore(l, r)
        i == CHOOSE k \in 1 .. Len(l) + 1 :
               /\ k = Len(l) + 1 \/ r[l[k]] >= r[t] - before[k - 1]
               /\ \A j \in 1 .. k - 1 : r[l[j]] < r[t] - before[j - 1]
    IN  [list |-> SubSeq(l, 1, i - 1) \o <<t>> \o SubSeq(l, i, Len(l)),
         rtick |-> [r EXCEPT ![t] = r[t] - before[i - 1]]]

(* insert_timer: the walk goes on while the timer at hand expires earlier, *)
(* taking its ticks off; the successor then counts from the new timer.     *)
InsertTimer(l, r, t) ==
    LET before == TicksBefore(l, r)
        i == CHOOSE k \in 1 .. Len(l) + 1 :
               /\ k = Len(l) + 1 \/ r[l[k]] >= r[t] - before[k - 1]
               /\ \A j \in 1 .. k - 1 : r[l[j]] < r[t] - before[j - 1]
        own == r[t] - before[i - 1]
    IN  [list |-> SubSeq(l, 1, i - 1) \o <<t>> \o SubSeq(l, i, Len(l)),
         rtick |-> [u \in Timer |->
                      IF u = t THEN own
                      ELSE IF i <= Len(l) /\ u = l[i] THEN r[u] - own ELSE r[u]]]

(* remove_timer; Expire says what becomes of a timer that is not linked. *)
Without(l, t) ==
    LET at == {i \in 1 .. Len(l) : l[i] = t}
        i == CHOOSE k \in at : TRUE
    IN  IF at = {} THEN l ELSE SubSeq(l, 1, i - 1) \o SubSeq(l, i + 1, Len(l))

--------------------------------------------------------------------------------
(* Variant for sensitivity: the lock is released around the callback loop. *)
MayCallUnlocked(t, touches) == isr \in {"off", "loop"}

(* The API is called with the kernel lock free, or by the callback of a    *)
(* timer that touches t: ncore_timer_isr runs under the lock.              *)
MayCall(t, touches) == isr = "off" \/ (isr = "call" /\ t \in touches[expired])

(* ntimer_cancel_i: the ticks of a running timer go to the next one. *)
Cancelled(t) ==
    LET after == {k \in 2 .. Len(list) : list[k - 1] = t}
    IN  [list |-> Without(list, t),
         rtick |-> [u \in Timer |-> IF \E k \in after : list[k] = u
                                    THEN (rtick[u] + rtick[t]) % WordSize ELSE rtick[u]]]

(* ntimer_start_i with the timers as in old *)
StartIn(old, t, tick, repeat) ==
    LET n == (tick + 1) % WordSize
        new == InsertTimer(old.list, [old.rtick EXCEPT ![t] = n], t)
    IN  /\ list' = new.list /\ rtick' = new.rtick
        /\ itick' = [itick EXCEPT ![t] = IF repeat THEN n ELSE 0]
        /\ UNCHANGED <<isr, current, expired>>

(* ntimer_start, of a timer that is not running *)
StartTimer(t, tick, repeat) ==
    /\ MayCall(t, Starts) /\ ~Running(t)
    /\ StartIn([list |-> list, rtick |-> rtick], t, tick, repeat)

(* ntimer_cancel, of a timer that is running *)
CancelTimer(t) ==
    /\ MayCall(t, Cancels) /\ Running(t)
    /\ list' = Cancelled(t).list /\ rtick' = Cancelled(t).rtick
    /\ UNCHANGED <<itick, isr, current, expired>>

(* ntimer_cancel_i and ntimer_start_i in one locked section *)
RestartTimer(t, tick, repeat) ==
    /\ isr = "off" /\ Running(t)
    /\ StartIn(Cancelled(t), t, tick, repeat)

(* ncore_timer_isr up to its loop *)
TimerIsr ==
    /\ isr = "off" /\ list # << >>
    /\ rtick' = [rtick EXCEPT ![Head(list)] = (@ - 1) % WordSize]
    /\ current' = Head(list)
    /\ isr' = "loop"
    /\ UNCHANGED <<list, itick, expired>>

Due == current # Sentinel /\ rtick[current] = 0

(* One turn of its loop up to the callback: the timer leaves the list, a   *)
(* repeating one is inserted again, and the next one to test is fetched.   *)
(* If it was cancelled since it was fetched it is unlinked a second time,  *)
(* which corrupts the list, and called.                                    *)
Expire ==
    /\ isr = "loop" /\ Due
    /\ LET rest == Without(list, current)
           new == IF itick[current] # 0
                  THEN InsertTimer(rest, [rtick EXCEPT ![current] = itick[current]], current)
                  ELSE [list |-> rest, rtick |-> rtick]
       IN  /\ list' = new.list /\ rtick' = new.rtick
           /\ current' = First(new.list)
    /\ expired' = current
    /\ isr' = IF Running(current) THEN "call" ELSE "wild"
    /\ UNCHANGED itick

CallbackReturn ==
    /\ isr = "call"
    /\ isr' = "loop" /\ expired' = Sentinel
    /\ UNCHANGED <<list, rtick, itick, current>>

IsrEnd ==
    /\ isr = "loop" /\ ~Due
    /\ isr' = "off" /\ current' = Sentinel
    /\ UNCHANGED <<list, rtick, itick, expired>>

IsrStep == TimerIsr \/ Expire \/ CallbackReturn \/ IsrEnd

Next ==
    \/ \E t \in Timer :
         \/ \E n \in 1 .. MaxTick, repeat \in BOOLEAN :
              StartTimer(t, n, repeat) \/ RestartTimer(t, n, repeat)
         \/ CancelTimer(t)
    \/ IsrStep

Spec == Init /\ [][Next]_vars

--------------------------------------------------------------------------------
(* The list with relative ticks implements timers that each count down on  *)
(* their own: every timer expires in its tick, in no other, and no timer   *)
(* that is due is left behind.  The period of a repeating timer is a tick  *)
(* longer than the number it was started with: ntimer_start_i counts the   *)
(* tick in which it is called, and the handler, which starts it again at a *)
(* tick, counts that one too.                                              *)
Service == INSTANCE TimerService WITH
    Late <- 1,
    left <- [t \in Timer |-> Remaining(t)],
    period <- [t \in Timer |-> IF Running(t) THEN itick[t] ELSE 0],
    active <- {t \in Timer : Running(t)},
    phase <- isr
ExpiresInItsTick == Service!Spec

(* timer.h:177 calls the argument tick of ntimer_start_i the "Number of    *)
(* ticks to run": a repeating timer would expire every so many ticks.      *)
Documented == INSTANCE TimerService WITH
    Late <- 0,
    left <- [t \in Timer |-> Remaining(t)],
    period <- [t \in Timer |-> IF Running(t) /\ itick[t] # 0 THEN itick[t] - 1 ELSE 0],
    active <- {t \in Timer : Running(t)},
    phase <- isr
RepeatsAsDocumented == Documented!Spec

(* timer.h:93-94 "the timer will fire up until it is explicitly stopped    *)
(* with ntimer_cancel()": a callback is called for a running timer only.   *)
CancelledStaysQuiet ==
    [][ isr = "loop" /\ isr' # "loop" /\ isr' # "off" => Running(current) ]_vars
================================================================================
