---------------------------- MODULE LinuxPortProofs ----------------------------
(* Proofs about LinuxPort: the two threads exclude each other, however      *)
(* initialisation, ticks, nested sections and termination interleave.       *)
EXTENDS LinuxPort, TLAPS

(* The owner of the kernel lock is the thread in a locked section, and its *)
(* depth the number of sections that thread is in, from lock_init until    *)
(* ncore_term has destroyed the lock; there is no tick before lock_init.   *)
OwnerIsInside ==
    /\ owner = "main" <=> main \in Sections
    /\ owner = "timer" <=> timer \in {"isr", "nested"}
    /\ depth = IF owner = "nobody" THEN 0
                      ELSE IF timer = "nested" THEN 2 ELSE 1

LockInv ==
    /\ ThreadsTyped
    /\ main = "off" => kernel = "static" /\ owner = "nobody" /\ timer = "none"
    /\ main = "locks" => timer = "none"
    /\ main \notin {"off", "done"} => kernel = "live"
    /\ kernel # "gone" => OwnerIsInside

LEMMA LockInvInit == Init => LockInv
BY DEF Init, LockInv, OwnerIsInside, ThreadsTyped, Sections

LEMMA MainKeepsLock == LockInv /\ MainSteps => LockInv'
<1> SUFFICES ASSUME LockInv, MainSteps PROVE LockInv'
  OBVIOUS
<1> USE DEF LockInv, OwnerIsInside, ThreadsTyped, Sections, global
<1>1. CASE InitLocks
  BY <1>1 DEF InitLocks, LockInit
<1>2. CASE InitTimer
  BY <1>2 DEF InitTimer
<1>3. CASE TimerEnable \/ TimerDisable
  BY <1>3 DEF TimerEnable, TimerDisable
<1>4. CASE SectionEnter
  BY <1>4 DEF SectionEnter, LockEnter, MayEnter
<1>5. CASE SectionExit
  BY <1>5 DEF SectionExit, LockExit, OsReady
<1>6. CASE LoopEnter
  BY <1>6 DEF LoopEnter, LockEnter, MayEnter
<1>7. CASE Schedule
  BY <1>7 DEF Schedule, LockExit
<1>8. CASE TaskReturn \/ IdleReturn
  BY <1>8 DEF TaskReturn, IdleReturn
<1>9. CASE TermTry \/ TermRetry \/ TermIdle \/ TermTimer
  BY <1>9 DEF TermTry, TermRetry, TermIdle, TermTimer, OsReady
<1>10. CASE TermLock
  BY <1>10 DEF TermLock, LockTerm
<1> QED
  BY <1>1, <1>2, <1>3, <1>4, <1>5, <1>6, <1>7, <1>8, <1>9, <1>10
     DEF MainSteps, InitSteps, TermSteps

LEMMA TimerKeepsLock == LockInv /\ TimerSteps => LockInv'
<1> SUFFICES ASSUME LockInv, TimerSteps PROVE LockInv'
  OBVIOUS
<1> USE DEF LockInv, OwnerIsInside, ThreadsTyped, Sections, global
<1>1. CASE TickTaken
  BY <1>1 DEF TickTaken
<1>2. CASE IsrEnter
  BY <1>2 DEF IsrEnter, LockEnter, MayEnter
<1>3. CASE NestedEnter
  BY <1>3 DEF NestedEnter, LockEnter, MayEnter
<1>4. CASE NestedExit
  BY <1>4 DEF NestedExit, LockExit, OsReady
<1>5. CASE IsrExit
  BY <1>5 DEF IsrExit, LockExit
<1> QED
  BY <1>1, <1>2, <1>3, <1>4, <1>5 DEF TimerSteps

LEMMA LockInvNext == LockInv /\ [Next]_vars => LockInv'
<1> SUFFICES ASSUME LockInv, [Next]_vars PROVE LockInv'
  OBVIOUS
<1>1. CASE MainSteps
  BY <1>1, MainKeepsLock
<1>2. CASE TimerSteps
  BY <1>2, TimerKeepsLock
<1>3. CASE OsExit \/ Alarm \/ TimerHandler
  BY <1>3 DEF OsExit, Alarm, TimerHandler, global, LockInv, OwnerIsInside, ThreadsTyped, Sections
<1>4. CASE UNCHANGED vars
  BY <1>4 DEF vars, global, LockInv, OwnerIsInside, ThreadsTyped, Sections
<1> QED
  BY <1>1, <1>2, <1>3, <1>4 DEF Next

(* The kernel lock of the Linux port: the locked sections of the two       *)
(* threads never overlap, also while ncore_init or ncore_term runs.        *)
THEOREM LinuxLockExcludes == Spec => []SectionsExclude
<1>1. LockInv => SectionsExclude
  BY DEF LockInv, OwnerIsInside, SectionsExclude, ThreadsTyped, Sections
<1> QED
  BY <1>1, LockInvInit, LockInvNext, PTL DEF Spec

--------------------------------------------------------------------------------
(* The other variables: the flags are set to truth values and the two      *)
(* mutexes without owner are locked, unlocked and destroyed.               *)
FlagsTyped == armed \in BOOLEAN /\ pending \in BOOLEAN /\ ready \in BOOLEAN /\ exit \in BOOLEAN
MutexesTyped == idle \in {"free", "held", "gone"} /\ tick \in {"free", "held"}

LEMMA FlagsKeepType == FlagsTyped /\ [Next]_vars => FlagsTyped'
BY Zenon DEF FlagsTyped, vars, Next, MainSteps, TimerSteps, InitSteps, TermSteps, OsExit, Alarm,
   TimerHandler, InitLocks, InitTimer, TimerEnable, TimerDisable, SectionEnter, SectionExit,
   LoopEnter, Schedule, TaskReturn, IdleReturn, TermTry, TermRetry, TermIdle, TermTimer, TermLock,
   TickTaken, IsrEnter, NestedEnter, NestedExit, IsrExit

LEMMA MutexesKeepType == MutexesTyped /\ [Next]_vars => MutexesTyped'
BY Zenon DEF MutexesTyped, vars, Next, MainSteps, TimerSteps, InitSteps, TermSteps, OsExit, Alarm,
   TimerHandler, InitLocks, InitTimer, TimerEnable, TimerDisable, SectionEnter, SectionExit,
   LoopEnter, Schedule, TaskReturn, IdleReturn, TermTry, TermRetry, TermIdle, TermTimer, TermLock,
   TickTaken, IsrEnter, NestedEnter, NestedExit, IsrExit, OsReady

(* Every variable of the port keeps its type. *)
THEOREM LinuxTyped == Spec => []TypeOK
<1>1. Init => FlagsTyped /\ MutexesTyped
  BY Zenon DEF Init, FlagsTyped, MutexesTyped
<1>2. LockInv /\ FlagsTyped /\ MutexesTyped => TypeOK
  BY Zenon DEF LockInv, FlagsTyped, MutexesTyped, TypeOK
<1> QED
  BY <1>1, <1>2, LockInvInit, LockInvNext, FlagsKeepType, MutexesKeepType, PTL DEF Spec
================================================================================
