--------------------------- MODULE DeferredWorkProofs ---------------------------
(***************************************************************************)
(* Proofs about DeferredWork: the kernel lock keeps the handlers out and   *)
(* gives the core back as it was, the lists of jobs stay intact, and       *)
(* deferred work implements WorkQueue, for every configuration whose level *)
(* masks at all, sections nested to any depth where the port restores what *)
(* it found, any finite set of jobs, activated with the lock held by the   *)
(* thread, and any StatusRest; and a tick that has come stands, in every   *)
(* configuration.                                                          *)
(***************************************************************************)
EXTENDS DeferredWork, SequenceTheorems, FiniteSetTheorems, WellFoundedInduction, TLAPS

Configuration == [port : {"gcc", "arm", "pic32"}, level : 0 .. 255, timer : {"SysTick", "TIM"}]

(* The lock keeps a handler of the kernel out of an idle core. *)
Masks(c) == ~Admits(LockEnter(Reset, c), c)

(* Leaving a section restores what its entry found.  On the PIC32 at level *)
(* 255 it enables interrupts if any field of Status was set.               *)
Restores(c) == ~(c.port = "pic32" /\ c.level = 255 /\ StatusRest # 0)

(* What LockExcludes and its like rest on *)
LocksWork ==
    /\ \A c \in Configs : Masks(c)
    /\ \A c \in Configs \cap Nests : Restores(c)

(* Core k stands as an idle core does inside a locked section. *)
Taken(k, c) == k.mask = LockEnter(Reset, c).mask /\ k.off = LockEnter(Reset, c).off
Open(k) == k.mask = 0 /\ k.off = 0

--------------------------------------------------------------------------------
(* The configurations whose lock masks: on the Cortex-M with the GNU port  *)
(* levels below 240 and 255, with the ARM port 255 only, on the PIC32 all. *)
THEOREM WhichMask ==
    ASSUME NEW c \in Configuration
    PROVE  Masks(c) <=> \/ c.port = "gcc" /\ (c.level < 240 \/ c.level = 255)
                        \/ c.port = "arm" /\ c.level = 255
                        \/ c.port = "pic32"
<1>1. CASE c.port = "gcc"
  BY <1>1, SMTT(30) DEF Configuration, Masks, Admits, CortexAdmits, Basepri, CortexCode, LockEnter,
     GccLockEnter, Reset
<1>2. CASE c.port = "arm"
  BY <1>2, SMTT(30) DEF Configuration, Masks, Admits, CortexAdmits, Basepri, CortexCode, LockEnter,
     ArmLockEnter, Reset
<1>3. CASE c.port = "pic32"
  BY <1>3, SMTT(30) DEF Configuration, Masks, Admits, PicAdmits, PicCode, LockEnter, PicLockEnter, Reset
<1>4. c.port = "gcc" \/ c.port = "arm" \/ c.port = "pic32"
  BY DEF Configuration
<1> QED BY <1>1, <1>2, <1>3, <1>4, Zenon

(* ncore_lock_exit gives back the mask that ncore_lock_enter found on the  *)
(* core, whatever it was, in exactly the configurations that Restores      *)
(* names: an inner section leaves the outer one locked there only.         *)
THEOREM WhichRestore ==
    ASSUME NEW c \in Configuration
    PROVE  Restores(c) <=>
               \A k \in Core : LET x == LockExit(LockEnter(k, c), c, SavedLevel(k, c))
                               IN  x.mask = k.mask /\ x.off = k.off
<1> DEFINE X(k) == LockExit(LockEnter(k, c), c, SavedLevel(k, c))
<1>1. ASSUME c.port = "gcc", NEW k \in Core PROVE X(k).mask = k.mask /\ X(k).off = k.off
  BY <1>1 DEF Core, LockExit, LockEnter, SavedLevel, GccLockExit, GccLockEnter
<1>2. ASSUME c.port = "arm", NEW k \in Core PROVE X(k).mask = k.mask /\ X(k).off = k.off
  BY <1>2 DEF Core, LockExit, LockEnter, SavedLevel, ArmLockExit, ArmLockEnter
<1>3. ASSUME c.port = "pic32", c.level # 255, NEW k \in Core
      PROVE  X(k).mask = k.mask /\ X(k).off = k.off
  BY <1>3 DEF Core, LockExit, LockEnter, SavedLevel, PicLockExit, PicLockEnter
<1>4. ASSUME c.port = "pic32", c.level = 255, StatusRest = 0, NEW k \in Core
      PROVE  X(k).mask = k.mask /\ X(k).off = k.off
  BY <1>4 DEF Core, LockExit, LockEnter, SavedLevel, PicLockExit, PicLockEnter
<1>5. ASSUME c.port = "pic32", c.level = 255, StatusRest # 0
      PROVE  \E k \in Core : X(k).off # k.off
  <2> DEFINE k == [mask |-> 0, off |-> 1, locked |-> FALSE, pendsv |-> FALSE, run |-> FALSE,
                   irq |-> FALSE, clock |-> FALSE, flag |-> FALSE, latch |-> FALSE]
  <2>1. k \in Core /\ k.off = 1
    BY DEF Core
  <2> HIDE DEF k
  <2>2. SavedLevel(k, c) # 0
    <3>1. SavedLevel(k, c) = 2 * StatusRest + 1 - k.off
      BY <1>5, Zenon DEF SavedLevel
    <3>2. 2 * StatusRest + 1 - 1 # 0
      BY <1>5, StatusAssumption
    <3> QED BY <2>1, <3>1, <3>2
  <2>3. X(k).off = 0
    BY <1>5, <2>1, <2>2 DEF Core, LockExit, LockEnter, PicLockExit, PicLockEnter
  <2> QED BY <2>1, <2>3
<1>6. c.port \in {"gcc", "arm", "pic32"}
  BY DEF Configuration
<1> HIDE DEF X
<1>7. Restores(c) <=> \A k \in Core : X(k).mask = k.mask /\ X(k).off = k.off
  BY <1>1, <1>2, <1>3, <1>4, <1>5, <1>6 DEF Restores
<1> QED BY <1>7 DEF X

LEMMA ResetIsCore == Reset \in Core /\ Open(Reset)
BY DEF Reset, Core, Open

LEMMA SetLocked ==
    ASSUME NEW k \in Core, NEW b \in BOOLEAN
    PROVE  [k EXCEPT !.locked = b] \in Core
BY DEF Core

(* The outermost ncore_lock_enter *)
LEMMA EnterOpen ==
    ASSUME NEW c \in Configuration, NEW k \in Core, Open(k)
    PROVE  /\ LockEnter(k, c) \in Core /\ Taken(LockEnter(k, c), c)
           /\ SavedLevel(k, c) = SavedLevel(Reset, c) /\ SavedLevel(k, c) \in Nat
<1>1. /\ CortexCode(c.level) * 16 \in 0 .. 255 /\ CortexCode(c.level) \in 0 .. 255
      /\ PicCode(c.level) \in 0 .. 255
  BY SMTT(30) DEF Configuration, CortexCode, PicCode
<1>2. CASE c.port = "gcc"
  <2>1. ASSUME c.level # 255 PROVE LockEnter(k, c) \in Core
    <3>1. LockEnter(k, c) = [[k EXCEPT !.mask = CortexCode(c.level) * 16] EXCEPT !.locked = TRUE]
      BY <2>1, <1>2 DEF LockEnter, GccLockEnter
    <3>2. [k EXCEPT !.mask = CortexCode(c.level) * 16] \in Core
      BY <1>1 DEF Core
    <3> QED BY <3>1, <3>2, SetLocked
  <2>2. ASSUME c.level = 255 PROVE LockEnter(k, c) \in Core
    <3>1. LockEnter(k, c) = [[k EXCEPT !.off = 1] EXCEPT !.locked = TRUE]
      BY <2>2, <1>2 DEF LockEnter, GccLockEnter
    <3>2. [k EXCEPT !.off = 1] \in Core
      BY DEF Core
    <3> QED BY <3>1, <3>2, SetLocked
  <2> QED BY <2>1, <2>2, <1>2 DEF LockEnter, GccLockEnter, Core, Taken, Reset, Open, SavedLevel
<1>3. CASE c.port = "arm"
  BY <1>1, <1>3 DEF LockEnter, ArmLockEnter, Core, Taken, Reset, Open, SavedLevel
<1>4. CASE c.port = "pic32"
  BY <1>1, <1>4, StatusAssumption DEF LockEnter, PicLockEnter, Core, Taken, Reset, Open, SavedLevel
<1> QED BY <1>2, <1>3, <1>4 DEF Configuration

(* The level saved by an inner ncore_lock_enter *)
InnerSaved(c) == SavedLevel(LockEnter(Reset, c), c)

(* An inner ncore_lock_enter changes nothing but saves the raised level. *)
LEMMA EnterTaken ==
    ASSUME NEW c \in Configuration, NEW k \in Core, Taken(k, c)
    PROVE  /\ LockEnter(k, c) \in Core /\ Taken(LockEnter(k, c), c)
           /\ SavedLevel(k, c) = InnerSaved(c) /\ SavedLevel(k, c) \in Nat
<1>0. /\ CortexCode(c.level) * 16 \in 0 .. 255 /\ CortexCode(c.level) \in 0 .. 255
      /\ PicCode(c.level) \in 0 .. 255
  BY SMTT(30) DEF Configuration, CortexCode, PicCode
<1>1. CASE c.port = "gcc"
  <2>1. ASSUME c.level # 255 PROVE LockEnter(k, c) \in Core
    <3>1. LockEnter(k, c) = [[k EXCEPT !.mask = CortexCode(c.level) * 16] EXCEPT !.locked = TRUE]
      BY <1>1, <2>1 DEF LockEnter, GccLockEnter
    <3>2. [k EXCEPT !.mask = CortexCode(c.level) * 16] \in Core
      BY <1>0 DEF Core
    <3> QED BY <3>1, <3>2, SetLocked
  <2>2. ASSUME c.level = 255 PROVE LockEnter(k, c) \in Core
    <3>1. LockEnter(k, c) = [[k EXCEPT !.off = 1] EXCEPT !.locked = TRUE]
      BY <1>1, <2>2 DEF LockEnter, GccLockEnter
    <3>2. [k EXCEPT !.off = 1] \in Core
      BY DEF Core
    <3> QED BY <3>1, <3>2, SetLocked
  <2> QED BY <1>1, <2>1, <2>2
          DEF LockEnter, GccLockEnter, Core, Taken, Reset, SavedLevel, InnerSaved
<1>2. CASE c.port = "arm"
  BY <1>0, <1>2 DEF LockEnter, ArmLockEnter, Core, Taken, Reset, SavedLevel, InnerSaved
<1>3. CASE c.port = "pic32"
  BY <1>0, <1>3, StatusAssumption
  DEF LockEnter, PicLockEnter, Core, Taken, Reset, SavedLevel, InnerSaved
<1> QED BY <1>1, <1>2, <1>3 DEF Configuration

LEMMA InnerIsLevel ==
    ASSUME NEW c \in Configuration
    PROVE  InnerSaved(c) \in Nat
<1>1. LockEnter(Reset, c) \in Core /\ Taken(LockEnter(Reset, c), c)
  BY ResetIsCore, EnterOpen
<1> QED BY <1>1, EnterTaken DEF InnerSaved

(* The outermost ncore_lock_exit opens the core again. *)
LEMMA ExitOpens ==
    ASSUME NEW c \in Configuration, NEW k \in Core, Taken(k, c)
    PROVE  LET x == LockExit(k, c, SavedLevel(Reset, c)) IN x \in Core /\ Open(x)
<1> DEFINE s == SavedLevel(Reset, c)
<1>1. CASE c.port = "gcc"
  <2>1. ASSUME c.level # 255 PROVE LockExit(k, c, s) \in Core
    <3>1. LockExit(k, c, s) = [[k EXCEPT !.mask = 0] EXCEPT !.locked = FALSE]
      BY <2>1, <1>1 DEF LockExit, GccLockExit, SavedLevel, Reset
    <3>2. [k EXCEPT !.mask = 0] \in Core
      BY DEF Core
    <3> QED BY <3>1, <3>2, SetLocked
  <2>2. ASSUME c.level = 255 PROVE LockExit(k, c, s) \in Core
    <3>1. LockExit(k, c, s) = [[k EXCEPT !.off = 0] EXCEPT !.locked = FALSE]
      BY <2>2, <1>1 DEF LockExit, GccLockExit, SavedLevel, Reset
    <3>2. [k EXCEPT !.off = 0] \in Core
      BY DEF Core
    <3> QED BY <3>1, <3>2, SetLocked
  <2>3. Open(LockExit(k, c, s))
    BY <1>1 DEF LockExit, GccLockExit, LockEnter, GccLockEnter, Core, Taken, Reset, Open, SavedLevel
  <2> QED BY <2>1, <2>2, <2>3
<1>2. CASE c.port = "arm"
  BY <1>2 DEF LockExit, ArmLockExit, LockEnter, ArmLockEnter, Core, Taken, Reset, Open, SavedLevel
<1>3. CASE c.port = "pic32"
  BY <1>3, StatusAssumption
  DEF LockExit, PicLockExit, LockEnter, PicLockEnter, Core, Taken, Reset, Open, SavedLevel
<1> QED BY <1>1, <1>2, <1>3 DEF Configuration

(* An inner ncore_lock_exit leaves the core as it was, where it restores. *)
LEMMA ExitKeepsTaken ==
    ASSUME NEW c \in Configuration, Restores(c), NEW k \in Core, Taken(k, c)
    PROVE  LET x == LockExit(k, c, InnerSaved(c)) IN x \in Core /\ Taken(x, c)
<1> DEFINE s == InnerSaved(c)
<1>0. /\ CortexCode(c.level) * 16 \in 0 .. 255 /\ CortexCode(c.level) \in 0 .. 255
      /\ PicCode(c.level) \in 0 .. 255
  BY SMTT(30) DEF Configuration, CortexCode, PicCode
<1>1. CASE c.port = "gcc"
  <2>1. s \in 0 .. 255 /\ (c.level = 255 => s \in {0, 1})
    BY <1>0, <1>1 DEF InnerSaved, SavedLevel, LockEnter, GccLockEnter, Reset
  <2> HIDE DEF s
  <2>2. ASSUME c.level # 255 PROVE LockExit(k, c, s) \in Core
    <3>1. LockExit(k, c, s) = [[k EXCEPT !.mask = s] EXCEPT !.locked = FALSE]
      BY <1>1, <2>2 DEF LockExit, GccLockExit
    <3>2. [k EXCEPT !.mask = s] \in Core
      BY <2>1 DEF Core
    <3> QED BY <3>1, <3>2, SetLocked
  <2>3. ASSUME c.level = 255 PROVE LockExit(k, c, s) \in Core
    <3>1. LockExit(k, c, s) = [[k EXCEPT !.off = s] EXCEPT !.locked = FALSE]
      BY <1>1, <2>3 DEF LockExit, GccLockExit
    <3>2. [k EXCEPT !.off = s] \in Core
      BY <2>1, <2>3 DEF Core
    <3> QED BY <3>1, <3>2, SetLocked
  <2>4. Taken(LockExit(k, c, s), c)
    BY <1>1 DEF s, InnerSaved, LockExit, GccLockExit, LockEnter, GccLockEnter, Core, Taken, Reset,
                SavedLevel
  <2> QED BY <2>2, <2>3, <2>4 DEF s
<1>2. CASE c.port = "arm"
  BY <1>0, <1>2
  DEF InnerSaved, LockExit, ArmLockExit, LockEnter, ArmLockEnter, Core, Taken, Reset, SavedLevel
<1>3. CASE c.port = "pic32"
  BY <1>0, <1>3, StatusAssumption
  DEF Restores, InnerSaved, LockExit, PicLockExit, LockEnter, PicLockEnter, Core, Taken, Reset,
      SavedLevel
<1> QED BY <1>1, <1>2, <1>3 DEF Configuration

(* The mask keeps the handlers out, and so does lock_term. *)
LEMMA TakenAdmitsNone ==
    ASSUME NEW c \in Configuration, Masks(c), NEW k \in Core, Taken(k, c)
    PROVE  ~Admits(k, c)
BY DEF Masks, Taken, Admits, CortexAdmits, PicAdmits, Basepri

LEMMA OffAdmitsNone ==
    ASSUME NEW c \in Configuration, NEW k \in Core, k.off = 1
    PROVE  ~Admits(k, c)
BY DEF Admits, CortexAdmits, PicAdmits

(* Neither the timer nor PendSV touches the mask. *)
SameMask(k, x) == x \in Core /\ x.mask = k.mask /\ x.off = k.off

LEMMA FieldsKeepMask ==
    ASSUME NEW k \in Core, NEW b \in BOOLEAN
    PROVE  /\ SameMask(k, [k EXCEPT !.run = b]) /\ SameMask(k, [k EXCEPT !.irq = b])
           /\ SameMask(k, [k EXCEPT !.clock = b]) /\ SameMask(k, [k EXCEPT !.flag = b])
           /\ SameMask(k, [k EXCEPT !.latch = b]) /\ SameMask(k, [k EXCEPT !.pendsv = b])
<1>1. SameMask(k, [k EXCEPT !.run = b])
  BY DEF Core, SameMask
<1>2. SameMask(k, [k EXCEPT !.irq = b])
  BY DEF Core, SameMask
<1>3. SameMask(k, [k EXCEPT !.clock = b])
  BY DEF Core, SameMask
<1>4. SameMask(k, [k EXCEPT !.flag = b])
  BY DEF Core, SameMask
<1>5. SameMask(k, [k EXCEPT !.latch = b])
  BY DEF Core, SameMask
<1>6. SameMask(k, [k EXCEPT !.pendsv = b])
  BY DEF Core, SameMask
<1> QED BY <1>1, <1>2, <1>3, <1>4, <1>5, <1>6

LEMMA FieldsKeepToo ==
    ASSUME NEW k \in Core, NEW x, SameMask(k, x), NEW b \in BOOLEAN
    PROVE  /\ SameMask(k, [x EXCEPT !.run = b]) /\ SameMask(k, [x EXCEPT !.irq = b])
           /\ SameMask(k, [x EXCEPT !.clock = b]) /\ SameMask(k, [x EXCEPT !.flag = b])
           /\ SameMask(k, [x EXCEPT !.latch = b])
<1>1. x \in Core
  BY DEF SameMask
<1>2. /\ SameMask(x, [x EXCEPT !.run = b]) /\ SameMask(x, [x EXCEPT !.irq = b])
      /\ SameMask(x, [x EXCEPT !.clock = b]) /\ SameMask(x, [x EXCEPT !.flag = b])
      /\ SameMask(x, [x EXCEPT !.latch = b])
  BY <1>1, FieldsKeepMask
<1> QED BY <1>2 DEF SameMask

LEMMA TimerKeepsMask ==
    ASSUME NEW k \in Core, NEW c \in Configuration
    PROVE  /\ SameMask(k, TimerInit(k, c)) /\ SameMask(k, TimerEnable(k, c))
           /\ SameMask(k, TimerDisable(k, c)) /\ SameMask(k, TimerTerm(k, c))
<1> DEFINE stop == [[k EXCEPT !.run = FALSE] EXCEPT !.irq = FALSE]
           go == [[k EXCEPT !.run = TRUE] EXCEPT !.irq = TRUE]
<1>1. TRUE \in BOOLEAN /\ FALSE \in BOOLEAN
  OBVIOUS
<1>2. SameMask(k, [k EXCEPT !.run = FALSE]) /\ SameMask(k, [k EXCEPT !.run = TRUE])
  BY <1>1, FieldsKeepMask, Zenon
<1>3. SameMask(k, stop) /\ SameMask(k, go)
  BY <1>1, <1>2, FieldsKeepToo, Zenon
<1> HIDE DEF stop, go
<1>4. /\ SameMask(k, SysTickInit(k)) /\ SameMask(k, SysTickStop(k))
      /\ SameMask(k, SysTickTerm(k)) /\ SameMask(k, SysTickEnable(k))
  <2>1. SameMask(k, [stop EXCEPT !.latch = FALSE])
    BY <1>1, <1>3, FieldsKeepToo, Zenon
  <2> QED BY <1>3, <2>1 DEF stop, go, SysTickInit, SysTickStop, SysTickTerm, SysTickEnable
<1>5. SameMask(k, TimStop(k)) /\ SameMask(k, TimTerm(k)) /\ SameMask(k, TimInit(k))
  <2>1. SameMask(k, [stop EXCEPT !.clock = FALSE])
    BY <1>1, <1>3, FieldsKeepToo, Zenon
  <2>2. SameMask(k, TimStop(k))
    BY <2>1 DEF stop, TimStop
  <2>3. SameMask(k, [TimStop(k) EXCEPT !.latch = FALSE])
    BY <1>1, <2>2, FieldsKeepToo, Zenon
  <2>4. SameMask(k, [stop EXCEPT !.flag = TRUE])
    BY <1>1, <1>3, FieldsKeepToo, Zenon
  <2>5. SameMask(k, [[stop EXCEPT !.flag = TRUE] EXCEPT !.latch = FALSE])
    BY <1>1, <2>4, FieldsKeepToo, Zenon
  <2>6. SameMask(k, [[[stop EXCEPT !.flag = TRUE] EXCEPT !.latch = FALSE] EXCEPT !.clock = FALSE])
    BY <1>1, <2>5, FieldsKeepToo, Zenon
  <2>7. SameMask(k, TimInit(k))
    BY <2>6 DEF stop, TimInit
  <2> QED BY <2>2, <2>3, <2>7 DEF TimTerm
<1>6. SameMask(k, TimEnable(k))
  <2> DEFINE x == [go EXCEPT !.clock = TRUE]
  <2>1. SameMask(k, x)
    BY <1>1, <1>3, FieldsKeepToo, Zenon
  <2> HIDE DEF x
  <2>2. (x.latch \/ k.flag) \in BOOLEAN
    OBVIOUS
  <2>3. SameMask(k, [x EXCEPT !.latch = x.latch \/ k.flag])
    BY <2>1, <2>2, FieldsKeepToo, Zenon
  <2> QED BY <2>3 DEF x, go, TimEnable
<1>7. /\ SameMask(k, PicTimerInit(k)) /\ SameMask(k, PicTimerStop(k))
      /\ SameMask(k, PicTimerTerm(k)) /\ SameMask(k, PicTimerEnable(k))
  <2>1. SameMask(k, [go EXCEPT !.flag = FALSE])
    BY <1>1, <1>3, FieldsKeepToo, Zenon
  <2> QED BY <1>3, <2>1 DEF stop, go, PicTimerInit, PicTimerStop, PicTimerTerm, PicTimerEnable
<1> QED
  BY <1>4, <1>5, <1>6, <1>7, Zenon DEF TimerInit, TimerEnable, TimerDisable, TimerTerm
(* The rest of ncore_init, ncore_term and deferred work *)
LEMMA OthersKeepMask ==
    ASSUME NEW k \in Core
    PROVE  /\ SameMask(k, k) /\ SameMask(k, DeferredInit(k)) /\ SameMask(k, DeferredDo(k))
           /\ SameMask(k, PendSVEntry(k)) /\ LockTerm(k) \in Core /\ LockTerm(k).off = 1
<1>1. TRUE \in BOOLEAN /\ FALSE \in BOOLEAN
  OBVIOUS
<1>2. SameMask(k, [k EXCEPT !.pendsv = FALSE]) /\ SameMask(k, [k EXCEPT !.pendsv = TRUE])
  BY <1>1, FieldsKeepMask, Zenon
<1>3. SameMask(k, k)
  BY DEF SameMask
<1>4. LockTerm(k) \in Core /\ LockTerm(k).off = 1
  BY DEF LockTerm, Core
<1> QED BY <1>2, <1>3, <1>4 DEF DeferredInit, DeferredDo, PendSVEntry

LEMMA CoreInitOpens ==
    ASSUME NEW c \in Configuration
    PROVE  CoreInit(c) \in Core /\ Open(CoreInit(c))
<1>1. LockInit(Reset) \in Core /\ Open(LockInit(Reset))
  BY ResetIsCore DEF LockInit, Open, Core
<1>2. SameMask(LockInit(Reset), CoreInit(c))
  BY <1>1, TimerKeepsMask DEF CoreInit
<1> QED BY <1>1, <1>2 DEF SameMask, Open

(* The thread holds the lock, also while it links a job. *)
HoldsAt == {"locked", "node", "next", "current", "pend"}

(* The levels a context can have saved: that of an open core outermost and *)
(* those of a locked one inside.                                           *)
Levels(c) ==
    {s \in Seq(Nat) :
        /\ \A i \in 1 .. Len(s) : s[i] = IF i = 1 THEN SavedLevel(Reset, c) ELSE InnerSaved(c)
        /\ Len(s) > 1 => Restores(c)}

(* The inductive invariant: the mask is raised exactly while a context     *)
(* holds the lock, and then what it saved is what will lower it.           *)
LockInv ==
    /\ config \in Configs /\ core \in Core
    /\ handler \in {"none", "timer", "pendsv"}
    /\ saved \in [Context -> Levels(config)]
    /\ Locked("thread") => at \in HoldsAt
    /\ ~Unlocked /\ at \in HoldsAt => Locked("thread")
    /\ Locked("handler") => handler = "timer" \/ running # NoJob
    /\ running # NoJob => handler = "pendsv"
    /\ handler # "none" => ~Locked("thread")
    /\ at = "halted" => handler = "none" /\ core.off = 1
    /\ at # "halted" => IF Locked("thread") \/ Locked("handler")
                        THEN Taken(core, config) ELSE Open(core)

(* What taking the lock saves, and what leaving it finds and leaves saved *)
LEMMA PushLevel ==
    ASSUME NEW c \in Configuration, NEW s \in Levels(c)
    PROVE  /\ s = << >> => /\ Append(s, SavedLevel(Reset, c)) \in Levels(c)
                           /\ Append(s, SavedLevel(Reset, c)) # << >>
           /\ s # << >> /\ Restores(c) => /\ Append(s, InnerSaved(c)) \in Levels(c)
                                          /\ Append(s, InnerSaved(c)) # << >>
<1> DEFINE a == SavedLevel(Reset, c)
           b == InnerSaved(c)
<1>1. a \in Nat /\ b \in Nat
  BY ResetIsCore, EnterOpen, InnerIsLevel
<1>2. /\ s \in Seq(Nat) /\ Len(s) \in Nat /\ (s = << >> <=> Len(s) = 0)
      /\ \A i \in 1 .. Len(s) : s[i] = IF i = 1 THEN a ELSE b
  BY DEF Levels
<1> HIDE DEF a, b
<1>3. ASSUME s = << >> PROVE Append(s, a) \in Levels(c) /\ Append(s, a) # << >>
  <2> DEFINE t == Append(s, a)
  <2>1. t \in Seq(Nat) /\ Len(t) = 1 /\ t[1] = a
    BY <1>1, <1>2, <1>3, AppendProperties
  <2> HIDE DEF t
  <2>2. t # << >>
    BY <2>1
  <2>3. \A i \in 1 .. Len(t) : t[i] = IF i = 1 THEN a ELSE b
    BY <2>1
  <2>4. t \in Levels(c)
    BY <2>1, <2>3 DEF Levels, a, b
  <2> QED BY <2>2, <2>4 DEF t
<1>4. ASSUME s # << >>, Restores(c) PROVE Append(s, b) \in Levels(c) /\ Append(s, b) # << >>
  <2> DEFINE t == Append(s, b)
  <2>1. /\ t \in Seq(Nat) /\ Len(t) = Len(s) + 1 /\ t[Len(s) + 1] = b
        /\ \A i \in 1 .. Len(s) : t[i] = s[i]
    BY <1>1, <1>2, AppendProperties
  <2> HIDE DEF t
  <2>2. t # << >>
    BY <1>2, <2>1
  <2>3. \A i \in 1 .. Len(t) : t[i] = IF i = 1 THEN a ELSE b
    <3> SUFFICES ASSUME NEW i \in 1 .. Len(t) PROVE t[i] = IF i = 1 THEN a ELSE b
      OBVIOUS
    <3>1. i \in 1 .. Len(s) \/ (i = Len(s) + 1 /\ i # 1)
      BY <1>2, <1>4, <2>1
    <3> QED BY <1>2, <2>1, <3>1
  <2>4. t \in Levels(c)
    BY <1>4, <2>1, <2>3 DEF Levels, a, b
  <2> QED BY <2>2, <2>4 DEF t
<1> QED BY <1>3, <1>4 DEF a, b

LEMMA PopLevel ==
    ASSUME NEW c \in Configuration, NEW s \in Levels(c), s # << >>
    PROVE  /\ SubSeq(s, 1, Len(s) - 1) \in Levels(c)
           /\ Len(s) = 1 => /\ s[Len(s)] = SavedLevel(Reset, c)
                            /\ SubSeq(s, 1, Len(s) - 1) = << >>
           /\ Len(s) # 1 => /\ s[Len(s)] = InnerSaved(c) /\ Restores(c)
                            /\ SubSeq(s, 1, Len(s) - 1) # << >>
<1> DEFINE a == SavedLevel(Reset, c)
           b == InnerSaved(c)
           t == SubSeq(s, 1, Len(s) - 1)
<1>1. /\ s \in Seq(Nat) /\ Len(s) \in Nat /\ Len(s) # 0 /\ (Len(s) > 1 => Restores(c))
      /\ \A i \in 1 .. Len(s) : s[i] = IF i = 1 THEN a ELSE b
  BY DEF Levels
<1>2. t \in Seq(Nat) /\ Len(t) = Len(s) - 1 /\ \A i \in 1 .. Len(s) - 1 : t[i] = s[i]
  <2> DEFINE m == Len(s) - 1
  <2>1. m \in Nat /\ m + 1 = Len(s)
    BY <1>1
  <2>2. \A i \in 1 .. m : s[i] \in Nat
    BY <1>1, <2>1, ElementOfSeq
  <2>3. /\ SubSeq(s, 1, m) \in Seq(Nat) /\ Len(SubSeq(s, 1, m)) = IF 1 <= m THEN m - 1 + 1 ELSE 0
        /\ \A i \in 1 .. m - 1 + 1 : SubSeq(s, 1, m)[i] = s[1 + i - 1]
    <3> HIDE DEF m
    <3> QED BY <2>1, <2>2, SubSeqProperties
  <2> HIDE DEF m
  <2>4. SubSeq(s, 1, m) \in Seq(Nat) /\ Len(SubSeq(s, 1, m)) = m
    BY <2>1, <2>3
  <2>5. \A i \in 1 .. m : SubSeq(s, 1, m)[i] = s[i]
    <3> SUFFICES ASSUME NEW i \in 1 .. m PROVE SubSeq(s, 1, m)[i] = s[i]
      OBVIOUS
    <3>1. i \in 1 .. m - 1 + 1 /\ 1 + i - 1 = i
      BY <2>1
    <3> QED BY <2>3, <3>1
  <2> QED BY <2>4, <2>5 DEF m
<1> HIDE DEF a, b, t
<1>3. t \in Levels(c)
  <2>1. \A i \in 1 .. Len(t) : t[i] = IF i = 1 THEN a ELSE b
    BY <1>1, <1>2
  <2>2. Len(t) > 1 => Restores(c)
    BY <1>1, <1>2
  <2> QED BY <1>2, <2>1, <2>2 DEF Levels, a, b
<1>4. Len(s) = 1 => s[Len(s)] = a /\ t = << >>
  BY <1>1, <1>2
<1>5. Len(s) # 1 => s[Len(s)] = b /\ Restores(c) /\ t # << >>
  BY <1>1, <1>2
<1> QED BY <1>3, <1>4, <1>5 DEF a, b, t

--------------------------------------------------------------------------------
THEOREM InitLockInv == Init => LockInv
<1> SUFFICES ASSUME Init PROVE LockInv
  OBVIOUS
<1>1. config \in Configuration /\ config \in Configs
  BY WorkAssumption DEF Init, Configuration
<1>2. core \in Core /\ Open(core)
  BY <1>1, CoreInitOpens DEF Init
<1>3. saved \in [Context -> Levels(config)] /\ \A c \in Context : saved[c] = << >>
  BY DEF Init, Levels
<1>4. "thread" \in Context /\ "handler" \in Context
  BY DEF Context
<1>5. ~Locked("thread") /\ ~Locked("handler")
  BY <1>3, <1>4 DEF Locked
<1> QED BY <1>1, <1>2, <1>3, <1>5 DEF Init, LockInv, HoldsAt

(* A step that neither takes nor leaves the lock, nor ends the program *)
LEMMA QuietStep ==
    ASSUME LockInv, config' = config, saved' = saved, SameMask(core, core'),
           Locked("thread") => at' \in HoldsAt,
           ~Unlocked /\ at' \in HoldsAt => Locked("thread"), at' = "halted" <=> at = "halted",
           handler' \in {"none", "timer", "pendsv"},
           running' # NoJob => handler' = "pendsv",
           Locked("handler") => handler' = "timer" \/ running' # NoJob,
           handler' # "none" => ~Locked("thread"),
           at = "halted" => handler' = "none"
    PROVE  LockInv'
<1>1. core' \in Core /\ core'.mask = core.mask /\ core'.off = core.off
  BY DEF SameMask
<1>2. (Locked("thread")' <=> Locked("thread")) /\ (Locked("handler")' <=> Locked("handler"))
  BY DEF Locked
<1>3. (Taken(core, config)' <=> Taken(core, config)) /\ (Open(core)' <=> Open(core))
  BY <1>1 DEF Taken, Open
<1>4. config' \in Configs /\ saved' \in [Context -> Levels(config')]
  BY DEF LockInv
<1> QED BY <1>1, <1>2, <1>3, <1>4 DEF LockInv

(* What a locked section rests on, for the context that runs *)
LEMMA RunsAlone ==
    ASSUME LockInv, NEW c \in Context, InCode(c)
    PROVE  /\ \A d \in Context : d # c => ~Locked(d)
           /\ at # "halted" /\ config \in Configuration
           /\ saved[c] \in Levels(config)
<1>1. config \in Configuration /\ saved[c] \in Levels(config)
  BY WorkAssumption DEF LockInv, Configuration
<1>2. CASE c = "thread"
  <2>1. handler = "none" /\ at # "halted"
    BY <1>2 DEF InCode, Runs
  <2>2. ~Locked("handler")
    BY <2>1 DEF LockInv
  <2> QED BY <1>1, <1>2, <2>1, <2>2 DEF Context
<1>3. CASE c = "handler"
  <2>1. handler # "none"
    BY <1>3 DEF InCode, Runs
  <2> QED BY <1>1, <1>3, <2>1 DEF Context, LockInv
<1> QED BY <1>2, <1>3 DEF Context

(* The lock is taken, by ncore_lock_enter or an atomic operation. *)
LEMMA TakeKeeps ==
    ASSUME LocksWork, LockInv, NEW c \in Context, EnterLock(c) \/ EnterAtomic(c)
    PROVE  LockInv'
<1>1. /\ \A d \in Context : d # c => ~Locked(d)
      /\ at # "halted" /\ config \in Configuration /\ saved[c] \in Levels(config)
  BY RunsAlone DEF EnterLock, EnterAtomic
<1>2. Locked(c) => Restores(config)
  BY DEF EnterLock, EnterAtomic, LocksWork, LockInv, Restores
<1>3. /\ saved' = [saved EXCEPT ![c] = Append(@, SavedLevel(core, config))]
      /\ core' = LockEnter(core, config)
      /\ config' = config /\ handler' = handler /\ running' = running
  BY DEF EnterLock, EnterAtomic
<1>4. core \in Core /\ IF Locked(c) THEN Taken(core, config) ELSE Open(core)
  BY <1>1 DEF LockInv, Context
<1>5. core' \in Core /\ Taken(core', config)
  BY <1>1, <1>3, <1>4, EnterOpen, EnterTaken
<1>6. /\ Append(saved[c], SavedLevel(core, config)) \in Levels(config)
      /\ Append(saved[c], SavedLevel(core, config)) # << >>
  <2>1. CASE Locked(c)
    <3>1. SavedLevel(core, config) = InnerSaved(config)
      BY <1>1, <1>4, <2>1, EnterTaken
    <3> QED BY <1>1, <1>2, <2>1, <3>1, PushLevel DEF Locked
  <2>2. CASE ~Locked(c)
    <3>1. SavedLevel(core, config) = SavedLevel(Reset, config)
      BY <1>1, <1>4, <2>2, EnterOpen
    <3> QED BY <1>1, <2>2, <3>1, PushLevel DEF Locked
  <2> QED BY <2>1, <2>2
<1>7. /\ saved' \in [Context -> Levels(config)] /\ Locked(c)'
      /\ \A d \in Context : d # c => ~Locked(d)'
  BY <1>1, <1>3, <1>6 DEF Locked, LockInv
<1>8. CASE c = "thread"
  <2>1. handler = "none" /\ at' \in HoldsAt
    BY <1>8 DEF EnterLock, EnterAtomic, InCode, Runs, HoldsAt, thread, LockInv
  <2>2. at' # "halted"
    BY <2>1 DEF HoldsAt
  <2> QED BY <1>3, <1>5, <1>7, <1>8, <2>1, <2>2 DEF LockInv, Context, Taken
<1>9. CASE c = "handler"
  <2>1. at' = at /\ (handler = "timer" \/ running # NoJob)
    BY <1>9 DEF EnterLock, EnterAtomic, InCode, thread
  <2> QED BY <1>1, <1>3, <1>5, <1>7, <1>9, <2>1 DEF LockInv, Context, HoldsAt, Taken
<1> QED BY <1>8, <1>9 DEF Context

LEMMA ExitLockKeeps ==
    ASSUME LockInv, NEW c \in Context, ExitLock(c)
    PROVE  LockInv'
<1>1. /\ \A d \in Context : d # c => ~Locked(d)
      /\ at # "halted" /\ config \in Configuration /\ saved[c] \in Levels(config)
  BY RunsAlone DEF ExitLock
<1>2. Taken(core, config) /\ core \in Core
  BY <1>1 DEF LockInv, Context, ExitLock
<1>3. config' = config /\ handler' = handler /\ running' = running
  BY DEF ExitLock
<1>4. CASE Len(saved[c]) = 1
  <2>1. /\ saved[c][Len(saved[c])] = SavedLevel(Reset, config)
        /\ SubSeq(saved[c], 1, Len(saved[c]) - 1) = << >> /\ << >> \in Levels(config)
    BY <1>1, <1>4, PopLevel DEF ExitLock, Locked
  <2>2. core' \in Core /\ Open(core')
    BY <1>1, <1>2, <2>1, ExitOpens DEF ExitLock
  <2>3. saved' = [saved EXCEPT ![c] = << >>] /\ << >> \in Levels(config)
    BY <2>1 DEF ExitLock
  <2>4. saved' \in [Context -> Levels(config)] /\ \A d \in Context : ~Locked(d)'
    BY <1>1, <2>3 DEF Locked, LockInv
  <2>5. (~Unlocked => at' \notin HoldsAt) /\ at' # "halted"
    <3>1. CASE c = "thread"
      BY <3>1, <1>4 DEF ExitLock, HoldsAt
    <3>2. CASE c = "handler"
      BY <3>2, <1>1 DEF ExitLock, LockInv, Context
    <3> QED BY <3>1, <3>2 DEF Context
  <2> QED BY <1>3, <2>2, <2>4, <2>5 DEF LockInv, Context, Open
<1>5. CASE Len(saved[c]) # 1
  <2> DEFINE t == SubSeq(saved[c], 1, Len(saved[c]) - 1)
  <2>1. saved[c][Len(saved[c])] = InnerSaved(config) /\ Restores(config)
    BY <1>1, <1>5, PopLevel DEF ExitLock, Locked
  <2>2. core' \in Core /\ Taken(core', config)
    BY <1>1, <1>2, <2>1, ExitKeepsTaken DEF ExitLock
  <2>3. saved' = [saved EXCEPT ![c] = t] /\ t \in Levels(config) /\ t # << >>
    BY <1>1, <1>5, PopLevel DEF ExitLock, Locked
  <2> HIDE DEF t
  <2>4. /\ saved' \in [Context -> Levels(config)] /\ Locked(c)'
        /\ \A d \in Context : d # c => ~Locked(d)'
    BY <1>1, <2>3 DEF Locked, LockInv
  <2>5. at' = at /\ Locked(c)
    BY <1>5 DEF ExitLock
  <2> QED BY <1>1, <1>3, <2>2, <2>4, <2>5 DEF LockInv, Context, Taken
<1> QED BY <1>4, <1>5

(* The steps of the thread *)
LEMMA ThreadKeeps ==
    ASSUME LocksWork, LockInv, ThreadNext
    PROVE  LockInv'
<1>0. config \in Configuration /\ core \in Core /\ "thread" \in Context
  BY WorkAssumption DEF LockInv, Configuration, Context
<1>1. CASE EnterLock("thread") \/ EnterAtomic("thread") \/ ExitLock("thread")
  BY <1>0, <1>1, TakeKeeps, ExitLockKeeps
<1>2. ASSUME NEW j \in Job, InitJob(j) PROVE LockInv'
  <2>1. SameMask(core, core')
    BY <1>0, <1>2, OthersKeepMask DEF InitJob
  <2> QED BY <1>2, <2>1, QuietStep DEF InitJob, thread, LockInv
<1>3. ASSUME NEW j \in Job, DoJob(j) PROVE LockInv'
  <2>1. SameMask(core, core')
    BY <1>0, <1>3, OthersKeepMask DEF DoJob
  <2>2. at' \in HoldsAt /\ (~Unlocked => Locked("thread"))
    BY <1>3 DEF DoJob, HoldsAt
  <2>3. at # "halted" /\ at' # "halted"
    BY <1>3, <2>2 DEF HoldsAt, DoJob, InCode
  <2> QED BY <1>3, <2>1, <2>2, <2>3, QuietStep DEF DoJob, lists, LockInv
<1>4. CASE LinkStep
  <2>1. SameMask(core, core')
    BY <1>0, <1>4, OthersKeepMask DEF LinkStep
  <2>2. at \in HoldsAt /\ at' \in HoldsAt
    BY <1>4 DEF LinkStep, HoldsAt
  <2>3. at # "halted" /\ at' # "halted"
    BY <2>2 DEF HoldsAt
  <2> QED BY <1>4, <2>1, <2>2, <2>3, QuietStep DEF LinkStep, LockInv
<1>5. CASE PendWork
  <2>1. SameMask(core, core')
    BY <1>0, <1>5, OthersKeepMask DEF PendWork
  <2>2. at' = IF Locked("thread") THEN "locked" ELSE "idle"
    BY <1>5 DEF PendWork
  <2>3. at # "halted" /\ at' # "halted" /\ (at' \in HoldsAt <=> Locked("thread"))
    BY <1>5, <2>2 DEF HoldsAt, PendWork
  <2> QED BY <1>5, <2>1, <2>2, <2>3, QuietStep DEF PendWork, lists, LockInv
<1>6. CASE EnableTimer \/ DisableTimer
  <2>1. SameMask(core, core')
    BY <1>0, <1>6, TimerKeepsMask DEF EnableTimer, DisableTimer
  <2> QED BY <1>6, <2>1, QuietStep DEF EnableTimer, DisableTimer, thread, LockInv
<1>7. CASE TermTimer
  <2>1. SameMask(core, core')
    BY <1>0, <1>7, TimerKeepsMask DEF TermTimer
  <2>2. at \notin HoldsAt /\ at' \notin HoldsAt /\ at # "halted" /\ at' # "halted"
    BY <1>7 DEF TermTimer, HoldsAt
  <2> QED BY <1>7, <2>1, <2>2, QuietStep DEF TermTimer, LockInv
<1>8. CASE TermLock
  <2>1. core' \in Core /\ core'.off = 1
    BY <1>0, <1>8, OthersKeepMask DEF TermLock
  <2>2. handler = "none" /\ at \notin HoldsAt /\ at' = "halted" /\ at' \notin HoldsAt
    BY <1>8 DEF TermLock, Runs, HoldsAt
  <2>3. ~Locked("thread") /\ ~Locked("handler")
    BY <2>2 DEF LockInv
  <2>4. ~Locked("thread")' /\ ~Locked("handler")'
    BY <1>8, <2>3 DEF TermLock, Locked
  <2> QED BY <1>8, <2>1, <2>2, <2>4 DEF TermLock, LockInv
<1>9. CASE TermLoop
  <2>1. SameMask(core, core')
    BY <1>0, <1>9, OthersKeepMask DEF TermLoop, vars
  <2> QED BY <1>9, <2>1, QuietStep DEF TermLoop, vars, thread, LockInv
<1> QED
  BY <1>1, <1>2, <1>3, <1>4, <1>5, <1>6, <1>7, <1>8, <1>9 DEF ThreadNext
(* The steps of the handlers *)
LEMMA HandlerKeeps ==
    ASSUME LocksWork, LockInv, HandlerNext
    PROVE  LockInv'
<1>0. config \in Configuration /\ core \in Core /\ "handler" \in Context
  BY WorkAssumption DEF LockInv, Configuration, Context
<1>1. CASE EnterLock("handler") \/ EnterAtomic("handler") \/ ExitLock("handler")
  BY <1>0, <1>1, TakeKeeps, ExitLockKeeps
<1>2. ASSUME NEW j \in Job, HandlerDoJob(j) PROVE LockInv'
  <2>1. SameMask(core, core')
    BY <1>0, <1>2, OthersKeepMask DEF HandlerDoJob
  <2> QED BY <1>2, <2>1, QuietStep DEF HandlerDoJob, thread, LockInv
<1>3. CASE RunJob
  <2>1. SameMask(core, core')
    BY <1>0, <1>3, OthersKeepMask DEF RunJob
  <2>2. ~Locked("handler")
    BY <1>3 DEF RunJob, LockInv
  <2> QED BY <1>3, <2>1, <2>2, QuietStep DEF RunJob, thread, LockInv
<1>4. CASE JobReturn
  <2>1. SameMask(core, core')
    BY <1>0, <1>4, OthersKeepMask DEF JobReturn
  <2> QED BY <1>4, <2>1, QuietStep DEF JobReturn, thread, LockInv
<1>5. CASE TimerReturn
  <2>1. SameMask(core, core') /\ running = NoJob
    BY <1>0, <1>5, OthersKeepMask DEF TimerReturn, LockInv
  <2> QED BY <1>5, <2>1, QuietStep DEF TimerReturn, thread, LockInv
<1>6. CASE PendSVReturn
  <2>1. SameMask(core, core') /\ ~Locked("handler")
    BY <1>0, <1>6, OthersKeepMask DEF PendSVReturn, LockInv
  <2> QED BY <1>6, <2>1, QuietStep DEF PendSVReturn, thread, LockInv
<1> QED BY <1>1, <1>2, <1>3, <1>4, <1>5, <1>6 DEF HandlerNext

(* An interrupt is taken with the core open: outside every locked section *)
(* and before the program has ended.                                       *)
LEMMA InterruptedOpen ==
    ASSUME LockInv, MayInterrupt, Masks(config)
    PROVE  ~Locked("thread") /\ ~Locked("handler") /\ at # "halted"
<1>0. config \in Configuration /\ core \in Core
  BY WorkAssumption DEF LockInv, Configuration
<1>1. at # "halted"
  BY <1>0, OffAdmitsNone DEF LockInv, MayInterrupt
<1>2. ~Taken(core, config)
  BY <1>0, TakenAdmitsNone DEF MayInterrupt
<1> QED BY <1>1, <1>2 DEF LockInv

LEMMA InterruptKeeps ==
    ASSUME LockInv, Masks(config), TimerInterrupt \/ PendSVInterrupt
    PROVE  LockInv'
<1>0. core \in Core /\ FALSE \in BOOLEAN
  BY DEF LockInv
<1>1. ~Locked("thread") /\ ~Locked("handler") /\ at # "halted" /\ running = NoJob
  BY InterruptedOpen DEF TimerInterrupt, PendSVInterrupt, MayInterrupt, LockInv
<1>2. SameMask(core, core')
  <2>1. SameMask(core, [core EXCEPT !.latch = FALSE])
    BY <1>0, FieldsKeepMask, Zenon
  <2>2. CASE TimerInterrupt /\ TimHandler
    <3> DEFINE seen == core.flag /\ core.clock
               x == [core EXCEPT !.latch = FALSE]
    <3>1. (x.flag /\ ~seen) \in BOOLEAN
      OBVIOUS
    <3>2. SameMask(core, [x EXCEPT !.flag = x.flag /\ ~seen])
      <4> HIDE DEF x, seen
      <4> QED BY <1>0, <2>1, <3>1, FieldsKeepToo, Zenon DEF x
    <3> QED BY <2>2, <3>2 DEF TimHandler
  <2>3. CASE TimerInterrupt /\ ~TimHandler
    BY <1>0, <2>1, <2>3, OthersKeepMask
    DEF TimerInterrupt, SysTickHandler, CoreTimerHandler
  <2>4. CASE PendSVInterrupt
    BY <1>0, <2>4, OthersKeepMask DEF PendSVInterrupt
  <2> QED BY <2>2, <2>3, <2>4
<1>3. CASE TimerInterrupt
  <2>1. handler' \in {"none", "timer"}
    BY <1>3 DEF TimerInterrupt, SysTickHandler, TimHandler, CoreTimerHandler
  <2> QED BY <1>1, <1>2, <1>3, <2>1, QuietStep DEF TimerInterrupt, thread, LockInv
<1>4. CASE PendSVInterrupt
  BY <1>1, <1>2, <1>4, QuietStep DEF PendSVInterrupt, thread, LockInv
<1> QED BY <1>3, <1>4

LEMMA ExpireKeeps ==
    ASSUME LockInv, Expire
    PROVE  LockInv'
<1>0. core \in Core /\ TRUE \in BOOLEAN
  BY DEF LockInv
<1>1. SameMask(core, core')
  <2>1. SameMask(core, [core EXCEPT !.flag = TRUE])
    BY <1>0, FieldsKeepMask, Zenon
  <2> DEFINE b == config.timer = "TIM"
             x == [core EXCEPT !.flag = b]
  <2>2. SameMask(core, x)
    <3> HIDE DEF b
    <3>1. b \in BOOLEAN
      BY DEF b
    <3> QED BY <1>0, <3>1, FieldsKeepMask, Zenon
  <2>3. (x.latch \/ core.irq) \in BOOLEAN
    OBVIOUS
  <2>4. SameMask(core, [x EXCEPT !.latch = x.latch \/ core.irq])
    <3> HIDE DEF x
    <3> QED BY <1>0, <2>2, <2>3, FieldsKeepToo, Zenon
  <2>5. core' = [core EXCEPT !.flag = TRUE] \/ core' = [x EXCEPT !.latch = x.latch \/ core.irq]
    BY DEF Expire, x
  <2> QED BY <2>1, <2>4, <2>5
<1> QED BY <1>1, QuietStep DEF Expire, thread, LockInv

--------------------------------------------------------------------------------
(* Every step keeps the invariant.                                         *)
THEOREM NextKeepsLockInv ==
    ASSUME LocksWork, LockInv, [Next]_vars
    PROVE  LockInv'
<1>1. Masks(config)
  BY DEF LockInv, LocksWork
<1>2. CASE Next
  BY <1>1, <1>2, ThreadKeeps, HandlerKeeps, InterruptKeeps, ExpireKeeps DEF Next
<1>3. CASE UNCHANGED vars
  BY <1>3 DEF vars, thread, LockInv, Locked, Taken, Open
<1> QED BY <1>2, <1>3

(* The kernel lock works: with every configuration that masks at all, and  *)
(* sections within each other only where leaving restores, the program     *)
(* never has a handler of the kernel between two steps of a locked section *)
(* of the thread (ncore_lock_enter and ncore_lock_exit of every port).     *)
THEOREM LockExcludes ==
    ASSUME LocksWork
    PROVE  Spec => []KernelExclusion
<1>1. LockInv => KernelExclusion
  BY DEF LockInv, KernelExclusion
<1> QED BY <1>1, InitLockInv, NextKeepsLockInv, PTL DEF Spec

(* And it is given back: outside every locked section, nested ones as well, *)
(* the core is as open as after ncore_init (ncore_lock_exit).              *)
THEOREM LockRestores ==
    ASSUME LocksWork
    PROVE  Spec => []MaskRestored
<1>1. LockInv => MaskRestored
  BY DEF LockInv, MaskRestored, Context, Open
<1> QED BY <1>1, InitLockInv, NextKeepsLockInv, PTL DEF Spec

--------------------------------------------------------------------------------
(* The links of the nodes, and what ndlist_add_after and ndlist_remove      *)
(* make of them                                                             *)
Links == [next : [Node -> Node], prev : [Node -> Node]]

(* A link leads from a node on a list to a node on a list. *)
Closed(l) == \A n \in Node : ~IsEmpty(l, n) => ~IsEmpty(l, l.next[n])

(* The ring s[0], ..., s[k] of the list h *)
Ring(l, h, k, s) ==
    /\ s[0] = h
    /\ \A i, j \in 0 .. k : s[i] = s[j] => i = j
    /\ \A i \in 0 .. k : l.next[s[i]] = IF i = k THEN h ELSE s[i + 1]

(* Rings of two lists that share no node and leave out no listed job *)
TwoRings(l, g, h, k, s, m, t) ==
    /\ Ring(l, g, k, s) /\ Ring(l, h, m, t)
    /\ \A i \in 0 .. k, j \in 0 .. m : s[i] # t[j]
    /\ \A j \in Job : ~IsEmpty(l, j) =>
          (\E i \in 0 .. k : s[i] = j) \/ (\E i \in 0 .. m : t[i] = j)

Ringed(l, g, h) ==
    \E k, m \in Nat : \E s \in [0 .. k -> Node], t \in [0 .. m -> Node] :
        TwoRings(l, g, h, k, s, m, t)

Shape(l, g, h) ==
    /\ l \in Links /\ WellLinked(l, Node) /\ Closed(l) /\ Ringed(l, g, h)

LEMMA AddAfterLinks ==
    ASSUME NEW l \in Links, NEW c \in Node, NEW n \in Node, c # n
    PROVE  /\ AddAfter(l, c, n) \in Links
           /\ \A m \in Node :
                 /\ AddAfter(l, c, n).next[m] =
                        IF m = c THEN n ELSE IF m = n THEN l.next[c] ELSE l.next[m]
                 /\ AddAfter(l, c, n).prev[m] =
                        IF m = l.next[c] THEN n ELSE IF m = n THEN c ELSE l.prev[m]
<1> DEFINE x == LinkNode(l, c, n)
           y == LinkNext(x, c, n)
           z == LinkCurrent(y, c, n)
<1>1. x \in Links /\ \A m \in Node : /\ x.next[m] = IF m = n THEN l.next[c] ELSE l.next[m]
                                     /\ x.prev[m] = IF m = n THEN c ELSE l.prev[m]
  BY DEF LinkNode, Links
<1> HIDE DEF x
<1>2. y \in Links /\ y.next = x.next
      /\ \A m \in Node : y.prev[m] = IF m = x.next[c] THEN n ELSE x.prev[m]
  BY <1>1 DEF LinkNext, Links
<1> HIDE DEF y
<1>3. z \in Links /\ z.prev = y.prev
      /\ \A m \in Node : z.next[m] = IF m = c THEN n ELSE y.next[m]
  BY <1>2 DEF LinkCurrent, Links
<1> HIDE DEF z
<1>4. AddAfter(l, c, n) = z
  BY DEF AddAfter, x, y, z
<1> QED BY <1>1, <1>2, <1>3, <1>4

LEMMA RemoveLinks ==
    ASSUME NEW l \in Links, NEW n \in Node
    PROVE  /\ Remove(l, n) \in Links
           /\ \A m \in Node :
                 /\ Remove(l, n).next[m] =
                        IF m = n THEN n ELSE IF m = l.prev[n] THEN l.next[n] ELSE l.next[m]
                 /\ Remove(l, n).prev[m] = IF m = l.next[n] THEN l.prev[n] ELSE l.prev[m]
BY DEF Remove, Links

(* A new ring of two lists *)
LEMMA RingedBy ==
    ASSUME NEW l, NEW g, NEW h, NEW k \in Nat, NEW m \in Nat,
           NEW s \in [0 .. k -> Node], NEW t \in [0 .. m -> Node],
           TwoRings(l, g, h, k, s, m, t)
    PROVE  Ringed(l, g, h)
BY DEF Ringed

(* ndlist_add_after of a job that is on no list keeps the lists intact. *)
LEMMA AddAfterKeeps ==
    ASSUME NEW g \in {A, B}, NEW h \in {A, B}, g # h, NEW l, Shape(l, g, h),
           NEW j \in Job, IsEmpty(l, j)
    PROVE  Shape(AddAfter(l, g, j), g, h)
<1> DEFINE x == AddAfter(l, g, j)
<1>0. l \in Links /\ g \in Node /\ h \in Node /\ j \in Node /\ g # j /\ h # j
  BY WorkAssumption DEF Shape, Node
<1>1. x \in Links /\ \A n \in Node :
          /\ x.next[n] = IF n = g THEN j ELSE IF n = j THEN l.next[g] ELSE l.next[n]
          /\ x.prev[n] = IF n = l.next[g] THEN j ELSE IF n = j THEN g ELSE l.prev[n]
  BY <1>0, AddAfterLinks
<1> HIDE DEF x
<1>2. \A n \in Node : /\ l.next[n] \in Node
                      /\ l.next[n] # n => l.prev[l.next[n]] = n /\ l.next[l.next[n]] # l.next[n]
  BY DEF Shape, WellLinked, Closed, IsEmpty
<1>3. l.next[j] = j /\ \A n \in Node : n # j => l.next[n] # j
  BY <1>0, <1>2 DEF IsEmpty
<1>4. \A n \in Node : l.next[n] = l.next[g] /\ l.next[n] # n => n = g
  BY <1>0, <1>2
<1>5. WellLinked(x, Node)
  BY <1>0, <1>1, <1>2, <1>3, <1>4 DEF WellLinked, IsEmpty
<1>6. Closed(x)
  BY <1>0, <1>1, <1>2, <1>3, <1>4 DEF Closed, IsEmpty
<1>7. Ringed(x, g, h)
  <2>1. PICK k \in Nat, m \in Nat : \E s \in [0 .. k -> Node], t \in [0 .. m -> Node] :
            TwoRings(l, g, h, k, s, m, t)
    BY DEF Shape, Ringed
  <2>2. PICK s \in [0 .. k -> Node], t \in [0 .. m -> Node] : TwoRings(l, g, h, k, s, m, t)
    BY <2>1
  <2>3. /\ s[0] = g /\ t[0] = h
        /\ \A i \in 0 .. k : s[i] # j /\ (s[i] = g => i = 0)
        /\ \A i \in 0 .. m : t[i] # j /\ t[i] # g
    <3>1. \A i \in 0 .. k : s[i] # j
      <4> SUFFICES ASSUME NEW i \in 0 .. k, s[i] = j PROVE FALSE
        OBVIOUS
      <4>1. i # 0
        BY <2>2, <1>0 DEF TwoRings, Ring
      <4>2. i - 1 \in 0 .. k /\ i - 1 # k /\ l.next[s[i - 1]] = j /\ s[i - 1] \in Node
        BY <4>1, <2>2 DEF TwoRings, Ring
      <4>3. s[i - 1] # j
        BY <4>2, <2>2 DEF TwoRings, Ring
      <4> QED BY <4>2, <4>3, <1>3
    <3>2. \A i \in 0 .. m : t[i] # j
      <4> SUFFICES ASSUME NEW i \in 0 .. m, t[i] = j PROVE FALSE
        OBVIOUS
      <4>1. i # 0
        BY <2>2, <1>0 DEF TwoRings, Ring
      <4>2. i - 1 \in 0 .. m /\ i - 1 # m /\ l.next[t[i - 1]] = j /\ t[i - 1] \in Node
        BY <4>1, <2>2 DEF TwoRings, Ring
      <4>3. t[i - 1] # j
        BY <4>2, <2>2 DEF TwoRings, Ring
      <4> QED BY <4>2, <4>3, <1>3
    <3> QED BY <2>2, <3>1, <3>2 DEF TwoRings, Ring
  <2> DEFINE u == [i \in 0 .. k + 1 |-> IF i = 0 THEN g ELSE IF i = 1 THEN j ELSE s[i - 1]]
  <2>4. k + 1 \in Nat /\ u \in [0 .. k + 1 -> Node] /\ u[0] = g /\ u[1] = j
        /\ \A i \in 2 .. k + 1 : u[i] = s[i - 1] /\ i - 1 \in 1 .. k
    BY <1>0
  <2> HIDE DEF u
  <2>5. Ring(x, g, k + 1, u)
    <3>1. \A i, i2 \in 0 .. k + 1 : u[i] = u[i2] => i = i2
      <4> SUFFICES ASSUME NEW i \in 0 .. k + 1, NEW i2 \in 0 .. k + 1, u[i] = u[i2]
                   PROVE  i = i2
        OBVIOUS
      <4>1. \A i3 \in 2 .. k + 1 : u[i3] # g /\ u[i3] # j
        BY <2>3, <2>4
      <4>2. i \in {0, 1} \/ i \in 2 .. k + 1
        OBVIOUS
      <4>3. i2 \in {0, 1} \/ i2 \in 2 .. k + 1
        OBVIOUS
      <4>4. CASE i \in 2 .. k + 1 /\ i2 \in 2 .. k + 1
        <5>1. s[i - 1] = s[i2 - 1] /\ i - 1 \in 0 .. k /\ i2 - 1 \in 0 .. k
          BY <2>4, <4>4
        <5>2. i - 1 = i2 - 1
          BY <5>1, <2>2 DEF TwoRings, Ring
        <5> QED BY <5>2
      <4> QED BY <1>0, <2>4, <4>1, <4>2, <4>3, <4>4
    <3>2. \A i \in 0 .. k + 1 : x.next[u[i]] = IF i = k + 1 THEN g ELSE u[i + 1]
      <4> SUFFICES ASSUME NEW i \in 0 .. k + 1
                   PROVE  x.next[u[i]] = IF i = k + 1 THEN g ELSE u[i + 1]
        OBVIOUS
      <4>0. \A i2 \in 0 .. k : l.next[s[i2]] = IF i2 = k THEN g ELSE s[i2 + 1]
        BY <2>2 DEF TwoRings, Ring
      <4>1. CASE i = 0
        BY <4>1, <1>0, <1>1, <2>4
      <4>2. CASE i = 1
        <5>1. x.next[j] = l.next[g] /\ l.next[g] = IF 0 = k THEN g ELSE s[1]
          BY <1>0, <1>1, <2>3, <4>0
        <5>2. k # 0 => u[2] = s[1]
          BY <2>4
        <5> QED BY <4>2, <5>1, <5>2, <2>4
      <4>3. CASE i \in 2 .. k + 1
        <5>1. u[i] = s[i - 1] /\ i - 1 \in 1 .. k /\ s[i - 1] \in Node
          BY <4>3, <2>4
        <5>2. s[i - 1] # g /\ s[i - 1] # j
          BY <5>1, <2>3
        <5>3. x.next[u[i]] = l.next[s[i - 1]]
          BY <5>1, <5>2, <1>1
        <5>4. l.next[s[i - 1]] = IF i - 1 = k THEN g ELSE s[i]
          BY <5>1, <4>0
        <5>5. i # k + 1 => u[i + 1] = s[i]
          BY <4>3, <2>4
        <5> QED BY <5>1, <5>3, <5>4, <5>5
      <4> QED BY <4>1, <4>2, <4>3
    <3> QED BY <2>4, <3>1, <3>2 DEF Ring
  <2>6. Ring(x, h, m, t)
    <3>1. \A i \in 0 .. m : x.next[t[i]] = l.next[t[i]]
      BY <1>1, <2>3
    <3> QED BY <2>2, <3>1 DEF TwoRings, Ring
  <2>7. \A i \in 0 .. k + 1, i2 \in 0 .. m : u[i] # t[i2]
    <3> SUFFICES ASSUME NEW i \in 0 .. k + 1, NEW i2 \in 0 .. m PROVE u[i] # t[i2]
      OBVIOUS
    <3>1. CASE i \in 2 .. k + 1
      BY <3>1, <2>2, <2>4 DEF TwoRings
    <3>2. CASE i \in {0, 1}
      BY <3>2, <2>3, <2>4
    <3> QED BY <3>1, <3>2
  <2>8. ASSUME NEW n \in Job, x.next[n] # n
        PROVE  (\E i \in 0 .. k + 1 : u[i] = n) \/ (\E i \in 0 .. m : t[i] = n)
    <3>1. CASE n = j
      BY <3>1, <2>4
    <3>2. CASE n # j
      <4>1. l.next[n] # n /\ n # g
        BY <2>8, <3>2, <1>0, <1>1, WorkAssumption DEF Node
      <4>2. (\E i \in 0 .. k : s[i] = n) \/ (\E i \in 0 .. m : t[i] = n)
        BY <4>1, <2>2 DEF TwoRings, IsEmpty
      <4>3. ASSUME NEW i \in 0 .. k, s[i] = n PROVE \E i2 \in 0 .. k + 1 : u[i2] = n
        <5>1. i # 0
          BY <4>1, <4>3, <2>3
        <5>2. i + 1 \in 2 .. k + 1
          BY <5>1
        <5>3. u[i + 1] = s[i]
          BY <5>2, <2>4
        <5> QED BY <4>3, <5>2, <5>3
      <4> QED BY <4>2, <4>3
    <3> QED BY <3>1, <3>2
  <2>9. TwoRings(x, g, h, k + 1, u, m, t)
    BY <2>5, <2>6, <2>7, <2>8 DEF TwoRings, IsEmpty
  <2> QED BY <2>4, <2>9, RingedBy
<1> QED BY <1>1, <1>5, <1>6, <1>7 DEF Shape, x

(* The first job of a list, and the list without it *)
LEMMA RemoveKeeps ==
    ASSUME NEW g \in {A, B}, NEW h \in {A, B}, g # h, NEW l, Shape(l, g, h),
           ~IsEmpty(l, h)
    PROVE  /\ l.next[h] \in Job /\ ~IsEmpty(l, l.next[h]) /\ l.prev[l.next[h]] = h
           /\ Shape(Remove(l, l.next[h]), g, h)
<1>0. l \in Links /\ g \in Node /\ h \in Node
  BY DEF Shape, Node
<1>1. \A n \in Node : /\ l.next[n] \in Node
                      /\ l.next[n] # n => l.prev[l.next[n]] = n /\ l.next[l.next[n]] # l.next[n]
  BY DEF Shape, WellLinked, Closed, IsEmpty
<1>r. PICK r \in Node : r = l.next[h]
  BY <1>0, <1>1
<1> DEFINE x == Remove(l, r)
<1>2. r # h /\ l.prev[r] = h /\ l.next[r] # r
  BY <1>0, <1>1, <1>r DEF IsEmpty
<1>3. x \in Links /\ \A n \in Node :
          /\ x.next[n] = IF n = r THEN r ELSE IF n = h THEN l.next[r] ELSE l.next[n]
          /\ x.prev[n] = IF n = l.next[r] THEN h ELSE l.prev[n]
  <2>1. x \in Links /\ \A n \in Node :
            /\ x.next[n] = IF n = r THEN r ELSE IF n = l.prev[r] THEN l.next[r] ELSE l.next[n]
            /\ x.prev[n] = IF n = l.next[r] THEN l.prev[r] ELSE l.prev[n]
    BY <1>0, RemoveLinks
  <2> QED BY <2>1, <1>2
<1>4. PICK k \in Nat, m \in Nat : \E s \in [0 .. k -> Node], t \in [0 .. m -> Node] :
          TwoRings(l, g, h, k, s, m, t)
  BY DEF Shape, Ringed
<1>5. PICK s \in [0 .. k -> Node], t \in [0 .. m -> Node] : TwoRings(l, g, h, k, s, m, t)
  BY <1>4
<1>6. /\ s[0] = g /\ t[0] = h
      /\ \A i \in 0 .. k : l.next[s[i]] = IF i = k THEN g ELSE s[i + 1]
      /\ \A i \in 0 .. m : l.next[t[i]] = IF i = m THEN h ELSE t[i + 1]
      /\ \A i, i2 \in 0 .. m : t[i] = t[i2] => i = i2
      /\ \A i \in 0 .. k, i2 \in 0 .. m : s[i] # t[i2]
      /\ \A n \in Job : l.next[n] # n => (\E i \in 0 .. k : s[i] = n) \/ (\E i \in 0 .. m : t[i] = n)
  BY <1>5 DEF TwoRings, Ring, IsEmpty
<1>7. m # 0 /\ t[1] = r /\ 1 \in 0 .. m
  BY <1>2, <1>6, <1>r
<1>8. r # g /\ r \in Job
  <2>1. r # g
    BY <1>6, <1>7
  <2> QED BY <1>2, <2>1 DEF Node
<1> HIDE DEF x
<1>9. \A n \in Node : l.next[n] # n => (l.next[n] = r => n = h) /\ (l.next[n] = l.next[r] => n = r)
  BY <1>1, <1>2
<1>10. WellLinked(x, Node)
  BY <1>0, <1>1, <1>2, <1>3, <1>9 DEF WellLinked, IsEmpty
<1>11. Closed(x)
  BY <1>0, <1>1, <1>2, <1>3, <1>9 DEF Closed, IsEmpty
<1>12. Ringed(x, g, h)
  <2> DEFINE u == [i \in 0 .. m - 1 |-> IF i = 0 THEN h ELSE t[i + 1]]
  <2>1. m - 1 \in Nat /\ u \in [0 .. m - 1 -> Node] /\ u[0] = h
        /\ \A i \in 1 .. m - 1 : u[i] = t[i + 1] /\ i + 1 \in 2 .. m
    BY <1>0, <1>7
  <2> HIDE DEF u
  <2>2. \A i \in 2 .. m : t[i] # h /\ t[i] # r /\ t[i] \in Node
    <3>1. ASSUME NEW i \in 2 .. m PROVE t[i] # t[0] /\ t[i] # t[1] /\ t[i] \in Node
      BY <1>6, <1>7
    <3> QED BY <3>1, <1>6, <1>7
  <2>3. Ring(x, h, m - 1, u)
    <3>1. \A i, i2 \in 0 .. m - 1 : u[i] = u[i2] => i = i2
      <4> SUFFICES ASSUME NEW i \in 0 .. m - 1, NEW i2 \in 0 .. m - 1, u[i] = u[i2]
                   PROVE  i = i2
        OBVIOUS
      <4>1. CASE i # 0 /\ i2 # 0
        <5>1. t[i + 1] = t[i2 + 1] /\ i + 1 \in 0 .. m /\ i2 + 1 \in 0 .. m
          BY <4>1, <2>1
        <5>2. i + 1 = i2 + 1
          BY <5>1, <1>6
        <5> QED BY <5>2
      <4>2. \A i3 \in 1 .. m - 1 : u[i3] # h
        BY <2>1, <2>2
      <4> QED BY <2>1, <4>1, <4>2
    <3>2. \A i \in 0 .. m - 1 : x.next[u[i]] = IF i = m - 1 THEN h ELSE u[i + 1]
      <4> SUFFICES ASSUME NEW i \in 0 .. m - 1
                   PROVE  x.next[u[i]] = IF i = m - 1 THEN h ELSE u[i + 1]
        OBVIOUS
      <4>1. CASE i = 0
        <5>1. x.next[h] = l.next[r] /\ l.next[r] = IF 1 = m THEN h ELSE t[2]
          BY <1>0, <1>2, <1>3, <1>6, <1>7
        <5>2. m # 1 => u[1] = t[2]
          BY <1>7, <2>1
        <5> QED BY <4>1, <5>1, <5>2, <2>1
      <4>2. CASE i # 0
        <5>1. u[i] = t[i + 1] /\ i + 1 \in 2 .. m
          BY <4>2, <2>1
        <5>2. x.next[u[i]] = l.next[t[i + 1]]
          BY <5>1, <2>2, <1>3
        <5>3. l.next[t[i + 1]] = IF i + 1 = m THEN h ELSE t[i + 2]
          BY <5>1, <1>6
        <5>4. i # m - 1 => u[i + 1] = t[i + 2]
          BY <4>2, <2>1
        <5> QED BY <5>2, <5>3, <5>4
      <4> QED BY <4>1, <4>2
    <3> QED BY <2>1, <3>1, <3>2 DEF Ring
  <2>4. Ring(x, g, k, s)
    <3>1. \A i \in 0 .. k : s[i] # h /\ s[i] # r /\ s[i] \in Node
      BY <1>6, <1>7
    <3>2. \A i \in 0 .. k : x.next[s[i]] = l.next[s[i]]
      BY <1>3, <3>1
    <3> QED BY <1>5, <3>2 DEF TwoRings, Ring
  <2>5. \A i \in 0 .. k, i2 \in 0 .. m - 1 : s[i] # u[i2]
    <3> SUFFICES ASSUME NEW i \in 0 .. k, NEW i2 \in 0 .. m - 1 PROVE s[i] # u[i2]
      OBVIOUS
    <3>1. CASE i2 = 0
      BY <3>1, <1>6, <2>1
    <3>2. CASE i2 # 0
      BY <3>2, <1>6, <2>1
    <3> QED BY <3>1, <3>2
  <2>6. ASSUME NEW n \in Job, x.next[n] # n
        PROVE  (\E i \in 0 .. k : s[i] = n) \/ (\E i \in 0 .. m - 1 : u[i] = n)
    <3>1. n # h /\ n # r /\ n \in Node
      BY <1>2, <1>3, <2>6, WorkAssumption DEF Node
    <3>2. l.next[n] # n
      BY <3>1, <1>3, <2>6
    <3>3. ASSUME NEW i \in 0 .. m, t[i] = n PROVE \E i2 \in 0 .. m - 1 : u[i2] = n
      <4>1. i # 0 /\ i # 1
        BY <3>1, <3>3, <1>6, <1>7
      <4>2. i - 1 \in 1 .. m - 1 /\ u[i - 1] = t[i]
        BY <4>1, <2>1
      <4> QED BY <3>3, <4>2
    <3> QED BY <3>2, <3>3, <1>6
  <2>7. TwoRings(x, g, h, k, s, m - 1, u)
    BY <2>3, <2>4, <2>5, <2>6 DEF TwoRings, IsEmpty
  <2> QED BY <2>1, <2>7, RingedBy
<1>13. Shape(x, g, h)
  BY <1>3, <1>10, <1>11, <1>12 DEF Shape
<1> QED BY <1>2, <1>8, <1>13, <1>r DEF x, IsEmpty

(* ndlist_init of a node that is on no list *)
LEMMA InitKeeps ==
    ASSUME NEW l, NEW g, NEW h, Shape(l, g, h), NEW n \in Node, IsEmpty(l, n)
    PROVE  Shape(ListInit(l, n), g, h) /\ ListInit(l, n).next = l.next
<1> DEFINE x == ListInit(l, n)
<1>1. x \in Links /\ x.next = l.next
      /\ \A i \in Node : x.prev[i] = IF i = n THEN n ELSE l.prev[i]
  BY DEF Shape, ListInit, Links, IsEmpty
<1> HIDE DEF x
<1>2. WellLinked(x, Node)
  BY <1>1 DEF Shape, WellLinked, Closed, IsEmpty
<1>3. Closed(x)
  BY <1>1 DEF Shape, Closed, IsEmpty
<1>4. Ringed(x, g, h)
  <2>1. \A k, m, s, t : TwoRings(l, g, h, k, s, m, t) => TwoRings(x, g, h, k, s, m, t)
    BY <1>1 DEF TwoRings, Ring, IsEmpty
  <2> QED BY <2>1 DEF Shape, Ringed
<1> QED BY <1>1, <1>2, <1>3, <1>4 DEF Shape, x

(* ncore_deferred_work exchanges the lists. *)
LEMMA ShapeSwaps ==
    ASSUME NEW l, NEW g, NEW h, Shape(l, g, h)
    PROVE  Shape(l, h, g)
<1>1. PICK k \in Nat, m \in Nat : \E s \in [0 .. k -> Node], t \in [0 .. m -> Node] :
          TwoRings(l, g, h, k, s, m, t)
  BY DEF Shape, Ringed
<1>2. PICK s \in [0 .. k -> Node], t \in [0 .. m -> Node] : TwoRings(l, g, h, k, s, m, t)
  BY <1>1
<1>3. TwoRings(l, h, g, m, t, k, s)
  BY <1>2 DEF TwoRings
<1> QED BY <1>3, RingedBy DEF Shape

(* Induction, on a set *)
LEMMA SetInduction ==
    ASSUME NEW T, 0 \in T, \A n \in Nat : n \in T => n + 1 \in T
    PROVE  Nat \subseteq T
<1> DEFINE R == OpToRel(<, Nat)
<1>1. IsWellFoundedOn(R, Nat)
  BY NatLessThanWellFounded
<1>2. \A x, y \in Nat : <<x, y>> \in R <=> x < y
  BY DEF OpToRel
<1> HIDE DEF R
<1> SUFFICES ASSUME Nat \ T # {} PROVE FALSE
  OBVIOUS
<1>3. PICK x \in Nat \ T : \A y \in Nat \ T : ~(<<y, x>> \in R)
  BY <1>1, WFMin
<1>4. x # 0 /\ x - 1 \in Nat /\ x - 1 < x
  BY <1>3
<1>5. x - 1 \in T
  BY <1>2, <1>3, <1>4
<1>6. x \in T
  BY <1>4, <1>5
<1> QED BY <1>3, <1>6

(* What defines Walk: the walk exists, so it is made of the steps it should be. *)
IsWalk(w, f, head, n) == w = [i \in 0 .. n |-> IF i = 0 THEN head ELSE f[w[i - 1]]]

LEMMA WalkExists ==
    ASSUME NEW f, NEW head, NEW n \in Nat
    PROVE  \E w : IsWalk(w, f, head, n)
<1> DEFINE T == {m \in Nat : \E w : IsWalk(w, f, head, m)}
<1>1. 0 \in T
  <2>1. IsWalk([i \in 0 .. 0 |-> head], f, head, 0)
    BY DEF IsWalk
  <2> QED BY <2>1
<1>2. ASSUME NEW m \in Nat, m \in T PROVE m + 1 \in T
  <2>1. PICK w : IsWalk(w, f, head, m)
    BY <1>2
  <2> DEFINE e == [i \in 0 .. m + 1 |-> IF i <= m THEN w[i] ELSE f[w[m]]]
  <2>2. \A i \in 0 .. m + 1 : e[i] = IF i = 0 THEN head ELSE f[e[i - 1]]
    BY <2>1 DEF IsWalk
  <2>3. IsWalk(e, f, head, m + 1)
    BY <2>2 DEF IsWalk
  <2> HIDE DEF e
  <2> QED BY <2>3
<1> HIDE DEF T
<1>3. Nat \subseteq T
  BY <1>1, <1>2, SetInduction
<1> QED BY <1>3 DEF T

LEMMA WalkSteps ==
    ASSUME NEW l, NEW head, NEW n \in Nat
    PROVE  /\ Walk(l, head, n)[0] = head
           /\ \A i \in 1 .. n : Walk(l, head, n)[i] = l.next[Walk(l, head, n)[i - 1]]
<1> DEFINE w == CHOOSE v : IsWalk(v, l.next, head, n)
<1>1. Walk(l, head, n) = w
  BY Zenon DEF Walk, IsWalk
<1>2. IsWalk(w, l.next, head, n)
  BY WalkExists, Zenon
<1> HIDE DEF w
<1>3. \A f : IsWalk(w, f, head, n) => w[0] = head /\ \A i \in 1 .. n : w[i] = f[w[i - 1]]
  BY DEF IsWalk
<1> QED BY <1>1, <1>2, <1>3

(* A ring has no more nodes than there are. *)
LEMMA RingIsShort ==
    ASSUME NEW l, NEW h, NEW k \in Nat, NEW s \in [0 .. k -> Node], Ring(l, h, k, s)
    PROVE  k < Cardinality(Node) /\ Cardinality(Node) \in Nat
<1>1. IsFiniteSet(Node)
  <2>1. IsFiniteSet({A, B})
    <3>1. IsFiniteSet({}) /\ {A, B} = ({} \cup {A}) \cup {B}
      BY FS_EmptySet
    <3>2. IsFiniteSet({} \cup {A})
      BY <3>1, FS_AddElement
    <3>3. IsFiniteSet(({} \cup {A}) \cup {B})
      BY <3>2, FS_AddElement
    <3> QED BY <3>1, <3>3
  <2> QED BY <2>1, FS_Union, WorkAssumption DEF Node
<1>2. s \in Injection(0 .. k, Node)
  BY DEF Ring, Injection, IsInjective
<1>3. Cardinality(0 .. k) <= Cardinality(Node)
  BY <1>1, <1>2, FS_Injection
<1>4. Cardinality(0 .. k) = IF 0 > k THEN 0 ELSE k - 0 + 1
  BY FS_Interval
<1>5. Cardinality(Node) \in Nat
  BY <1>1, FS_CardinalityType
<1> QED BY <1>3, <1>4, <1>5

(* A walk over all nodes finds just the ring it starts on. *)
LEMMA WalkIsRing ==
    ASSUME NEW l, NEW h, NEW k \in Nat, NEW s \in [0 .. k -> Node], Ring(l, h, k, s)
    PROVE  Members(l, h, Cardinality(Node)) = {s[i] : i \in 0 .. k} \ {h}
<1> DEFINE n == Cardinality(Node)
           w == Walk(l, h, n)
<1>1. n \in Nat /\ k < n
  BY RingIsShort
<1>2. w[0] = h /\ \A i \in 1 .. n : w[i] = l.next[w[i - 1]]
  BY <1>1, WalkSteps
<1>3. Members(l, h, n) = {w[i] : i \in 0 .. n} \ {h}
  BY DEF Members
<1> HIDE DEF n, w
<1>4. /\ s[0] = h
      /\ \A i \in 0 .. k : l.next[s[i]] = IF i = k THEN h ELSE s[i + 1]
  BY DEF Ring
<1>5. \A i \in 0 .. n : w[i] \in {s[j] : j \in 0 .. k}
  <2> DEFINE T == {i \in Nat : i <= n => w[i] \in {s[j] : j \in 0 .. k}}
  <2>1. 0 \in T
    BY <1>2, <1>4
  <2>2. ASSUME NEW i \in Nat, i \in T PROVE i + 1 \in T
    <3>1. SUFFICES ASSUME i + 1 <= n PROVE w[i + 1] \in {s[j] : j \in 0 .. k}
      OBVIOUS
    <3>2. PICK j \in 0 .. k : w[i] = s[j]
      BY <1>1, <2>2, <3>1
    <3>3. i + 1 \in 1 .. n
      BY <1>1, <3>1
    <3>4. w[i + 1] = l.next[s[j]]
      BY <1>2, <3>2, <3>3
    <3> QED BY <1>4, <3>4
  <2> HIDE DEF T
  <2>3. Nat \subseteq T
    BY <2>1, <2>2, SetInduction
  <2> QED BY <1>1, <2>3 DEF T
<1>6. \A i \in 0 .. k : w[i] = s[i]
  <2> DEFINE T == {i \in Nat : i <= k => w[i] = s[i]}
  <2>1. 0 \in T
    BY <1>2, <1>4
  <2>2. ASSUME NEW i \in Nat, i \in T PROVE i + 1 \in T
    <3>1. SUFFICES ASSUME i + 1 <= k PROVE w[i + 1] = s[i + 1]
      OBVIOUS
    <3>2. i \in 0 .. k /\ i # k /\ w[i] = s[i] /\ i + 1 \in 1 .. n
      BY <1>1, <2>2, <3>1
    <3> QED BY <1>2, <1>4, <3>2
  <2> HIDE DEF T
  <2>3. Nat \subseteq T
    BY <2>1, <2>2, SetInduction
  <2> QED BY <2>3 DEF T
<1>7. {w[i] : i \in 0 .. n} = {s[i] : i \in 0 .. k}
  <2>1. \A i \in 0 .. k : i \in 0 .. n
    BY <1>1
  <2>2. \A i \in 0 .. k : s[i] \in {w[j] : j \in 0 .. n}
    BY <1>6, <2>1
  <2> QED BY <1>5, <2>2
<1> QED BY <1>3, <1>7 DEF n

(* Which jobs say that they are on a list *)
LEMMA LinkLists ==
    ASSUME NEW g \in {A, B}, NEW h \in {A, B}, g # h, NEW l, Shape(l, g, h),
           NEW j \in Job, IsEmpty(l, j)
    PROVE  /\ AddAfter(l, g, j).next[h] = l.next[h]
           /\ LinkNode(l, g, j).next[h] = l.next[h]
           /\ \A i \in Job : /\ IsEmpty(AddAfter(l, g, j), i) <=> IsEmpty(l, i) /\ i # j
                             /\ IsEmpty(LinkNode(l, g, j), i) <=> IsEmpty(l, i) /\ i # j
<1>0. l \in Links /\ g \in Node /\ h \in Node /\ j \in Node /\ g # j /\ h # j
  BY WorkAssumption DEF Shape, Node
<1>1. l.next[g] # j /\ \A i \in Job : i \in Node /\ i # g /\ i # h
  BY <1>0, WorkAssumption DEF Shape, Closed, IsEmpty, Node
<1>2. \A n \in Node :
          AddAfter(l, g, j).next[n] = IF n = g THEN j ELSE IF n = j THEN l.next[g] ELSE l.next[n]
  BY <1>0, AddAfterLinks
<1>3. \A n \in Node : LinkNode(l, g, j).next[n] = IF n = j THEN l.next[g] ELSE l.next[n]
  BY <1>0 DEF LinkNode, Links
<1> QED BY <1>0, <1>1, <1>2, <1>3 DEF IsEmpty

LEMMA RemoveLists ==
    ASSUME NEW g \in {A, B}, NEW h \in {A, B}, g # h, NEW l, Shape(l, g, h),
           ~IsEmpty(l, h)
    PROVE  \A i \in Job : IsEmpty(Remove(l, l.next[h]), i) <=> IsEmpty(l, i) \/ i = l.next[h]
<1>1. PICK r \in Job : r = l.next[h] /\ l.prev[r] = h
  BY RemoveKeeps
<1>2. l \in Links /\ r \in Node /\ h \in Node /\ \A i \in Job : i \in Node /\ i # h
  BY WorkAssumption DEF Shape, Node
<1>3. \A n \in Node : Remove(l, r).next[n] =
          IF n = r THEN r ELSE IF n = l.prev[r] THEN l.next[r] ELSE l.next[n]
  BY <1>2, RemoveLinks
<1> QED BY <1>1, <1>2, <1>3 DEF IsEmpty
--------------------------------------------------------------------------------
Linking == {"node", "next", "current"}

(* The inductive invariant of the lists: they are rings, also when the      *)
(* thread has written some of the links of a job it adds, if the other      *)
(* links are taken for written.                                             *)
ShapeInv ==
    /\ pending \in {A, B} /\ working \in {A, B} /\ pending # working
    /\ jobs \subseteq Job
    /\ \A j \in Job \ jobs : IsEmpty(links, j)
    /\ running # NoJob => running = links.next[working] /\ ~IsEmpty(links, working)
    /\ at \in Linking => list = pending /\ job \in jobs
    /\ at = "node" => IsEmpty(links, job)
    /\ at \notin {"next", "current"} => Shape(links, pending, working)
    /\ at = "next" => \E l : /\ Shape(l, pending, working) /\ IsEmpty(l, job)
                             /\ links = LinkNode(l, list, job)
    /\ at = "current" => \E l : /\ Shape(l, pending, working) /\ IsEmpty(l, job)
                                /\ links = LinkNext(LinkNode(l, list, job), list, job)

Listed == {j \in Job : ~IsEmpty(links, j)}

LEMMA InitShape == Init => ShapeInv
<1> SUFFICES ASSUME Init PROVE ShapeInv
  OBVIOUS
<1>1. \A n \in Node : links.next[n] = n
  BY DEF Init
<1>2. links \in Links /\ WellLinked(links, Node) /\ Closed(links)
  BY DEF Init, Links, WellLinked, Closed, IsEmpty
<1>3. A \in Node /\ B \in Node /\ A # B /\ \A j \in Job : j \in Node
  BY WorkAssumption DEF Node
<1>4. Ringed(links, A, B)
  <2> DEFINE s == [i \in 0 .. 0 |-> A]
             t == [i \in 0 .. 0 |-> B]
  <2>1. s \in [0 .. 0 -> Node] /\ t \in [0 .. 0 -> Node] /\ s[0] = A /\ t[0] = B
    BY <1>3
  <2> HIDE DEF s, t
  <2>2. \A i \in 0 .. 0 : i = 0
    OBVIOUS
  <2>3. Ring(links, A, 0, s) /\ Ring(links, B, 0, t)
    BY <1>1, <1>3, <2>1, <2>2 DEF Ring
  <2>4. TwoRings(links, A, B, 0, s, 0, t)
    BY <1>1, <1>3, <2>1, <2>2, <2>3 DEF TwoRings, IsEmpty
  <2> QED BY <2>1, <2>4, RingedBy
<1>5. \A j \in Job : IsEmpty(links, j)
  BY <1>1, <1>3 DEF IsEmpty
<1> QED BY <1>2, <1>3, <1>4, <1>5 DEF Init, ShapeInv, Shape, Linking

(* Steps that do not touch the lists *)
LEMMA ListsStay ==
    ASSUME ShapeInv, UNCHANGED <<links, pending, working, jobs, running>>,
           at' \notin Linking, at \notin Linking
    PROVE  ShapeInv'
BY DEF ShapeInv, Shape, Linking

LEMMA ThreadStays ==
    ASSUME ShapeInv, UNCHANGED <<links, pending, working, jobs, running, at, job, list>>
    PROVE  ShapeInv'
<1>1. CASE at \in Linking
  BY <1>1 DEF ShapeInv, Linking
<1>2. CASE at \notin Linking
  BY <1>2, ListsStay
<1> QED BY <1>1, <1>2

(* No handler comes while the thread holds the lock. *)
LEMMA LinksAlone ==
    ASSUME ~Unlocked, LockInv, at \in HoldsAt
    PROVE  handler = "none" /\ running = NoJob
BY DEF LockInv

(* The thread links a job: *)
LEMMA LinkStepKeeps ==
    ASSUME ~Unlocked, LockInv, ShapeInv, LinkStep
    PROVE  /\ ShapeInv' /\ running = NoJob /\ running' = NoJob
           /\ Listed' = Listed \/ (\E j \in Job : Listed' = Listed \cup {j})
<1>0. /\ pending \in {A, B} /\ working \in {A, B} /\ pending # working
      /\ jobs \subseteq Job
      /\ UNCHANGED <<pending, working, jobs, job, list>> /\ running = NoJob /\ running' = NoJob
      /\ list = pending /\ job \in jobs /\ job \in Job
      /\ \A j \in Job \ jobs : IsEmpty(links, j)
  <2>1. at \in Linking /\ at \in HoldsAt
    BY DEF LinkStep, Linking, HoldsAt
  <2> QED BY <2>1, LinksAlone DEF ShapeInv, LinkStep
<1>1. CASE at = "node" /\ links' = LinkNode(links, list, job) /\ at' = "next"
  <2>1. Shape(links, pending, working) /\ IsEmpty(links, job)
    BY <1>1 DEF ShapeInv
  <2>2. \A i \in Job : IsEmpty(links', i) <=> IsEmpty(links, i) /\ i # job
    BY <1>0, <1>1, <2>1, LinkLists
  <2>3. ShapeInv'
    BY <1>0, <1>1, <2>1, <2>2 DEF ShapeInv, Linking
  <2>4. Listed' = Listed \cup {job}
    BY <1>0, <2>2 DEF Listed
  <2> QED BY <1>0, <2>3, <2>4
<1>2. CASE at = "next" /\ links' = LinkNext(links, list, job) /\ at' = "current"
  <2>1. PICK l : Shape(l, pending, working) /\ IsEmpty(l, job) /\ links = LinkNode(l, list, job)
    BY <1>2 DEF ShapeInv
  <2>2. links'.next = links.next
    BY <1>2, <2>1 DEF LinkNext, LinkNode
  <2>3. ShapeInv'
    BY <1>0, <1>2, <2>1, <2>2 DEF ShapeInv, Linking, IsEmpty
  <2>4. Listed' = Listed
    BY <2>2 DEF Listed, IsEmpty
  <2> QED BY <1>0, <2>3, <2>4
<1>3. CASE at = "current" /\ links' = LinkCurrent(links, list, job) /\ at' = "pend"
  <2>1. PICK l : /\ Shape(l, pending, working) /\ IsEmpty(l, job)
                 /\ links = LinkNext(LinkNode(l, list, job), list, job)
    BY <1>3 DEF ShapeInv
  <2>2. links' = AddAfter(l, pending, job)
    BY <1>0, <1>3, <2>1 DEF AddAfter
  <2>3. links.next = LinkNode(l, pending, job).next
    BY <1>0, <2>1 DEF LinkNext, LinkNode
  <2>4. \A i \in Job : /\ IsEmpty(AddAfter(l, pending, job), i) <=> IsEmpty(l, i) /\ i # job
                       /\ IsEmpty(LinkNode(l, pending, job), i) <=> IsEmpty(l, i) /\ i # job
    BY <1>0, <2>1, LinkLists
  <2>5. \A i \in Job : IsEmpty(links', i) <=> IsEmpty(links, i)
    BY <2>2, <2>3, <2>4 DEF IsEmpty
  <2>6. Shape(AddAfter(l, pending, job), pending, working)
    BY <1>0, <2>1, AddAfterKeeps
  <2>7. ShapeInv'
    <3>1. Shape(links, pending, working)'
      BY <1>0, <2>2, <2>6 DEF Shape
    <3> QED BY <1>0, <1>3, <2>5, <3>1 DEF ShapeInv, Linking
  <2>8. Listed' = Listed
    BY <2>5 DEF Listed
  <2> QED BY <1>0, <2>7, <2>8
<1> QED BY <1>1, <1>2, <1>3 DEF LinkStep

(* InitJob changes no next link, and the lists stay where they are. *)
LEMMA InitJobKeeps ==
    ASSUME ShapeInv, NEW j \in Job, InitJob(j), running = NoJob
    PROVE  ShapeInv' /\ Listed' = Listed /\ running' = running
<1>0. at \notin Linking /\ at' = at /\ running' = running
  BY DEF InitJob, InCode, thread, Linking
<1>1. IsEmpty(links, j) /\ Shape(links, pending, working) /\ j \in Node
  BY <1>0 DEF InitJob, ShapeInv, Linking, Node
<1>2. CASE jobs # {}
  <2>1. links' = ListInit(links, j) /\ pending' = pending /\ working' = working
    BY <1>2 DEF InitJob
  <2>2. Shape(links', pending, working) /\ links'.next = links.next
    BY <1>1, <2>1, InitKeeps
  <2>3. Listed' = Listed
    BY <2>2 DEF Listed, IsEmpty
  <2>4. Shape(links, pending, working)'
    BY <2>1, <2>2 DEF Shape
  <2> QED BY <1>0, <2>1, <2>2, <2>3, <2>4 DEF ShapeInv, InitJob, Linking, IsEmpty
<1>3. CASE jobs = {}
  <2>1. \A i \in Job : IsEmpty(links, i)
    BY <1>3 DEF ShapeInv
  <2>2. A \in Node /\ B \in Node /\ A # B
    BY WorkAssumption DEF Node
  <2>3. IsEmpty(links, A) /\ IsEmpty(links, B)
    <3>1. Shape(links, working, pending)
      BY <1>1, ShapeSwaps
    <3>2. IsEmpty(links, working)
      BY <1>1, <2>1, RemoveKeeps DEF ShapeInv
    <3>3. IsEmpty(links, pending)
      BY <2>1, <3>1, RemoveKeeps DEF ShapeInv
    <3> QED BY <3>2, <3>3 DEF ShapeInv
  <2> DEFINE x == ListInit(links, A)
             y == ListInit(x, B)
             z == ListInit(y, j)
  <2>4. Shape(links, A, B)
    BY <1>1, ShapeSwaps DEF ShapeInv
  <2>5. Shape(x, A, B) /\ x.next = links.next
    BY <2>2, <2>3, <2>4, InitKeeps
  <2>6. Shape(y, A, B) /\ y.next = links.next
    <3> HIDE DEF x
    <3>1. IsEmpty(x, B)
      BY <2>3, <2>5 DEF IsEmpty
    <3> QED BY <2>2, <2>5, <3>1, InitKeeps
  <2>7. Shape(z, A, B) /\ z.next = links.next
    <3> HIDE DEF y
    <3>1. IsEmpty(y, j)
      BY <1>1, <2>6 DEF IsEmpty
    <3> QED BY <1>1, <2>6, <3>1, InitKeeps
  <2>8. links' = z /\ pending' = A /\ working' = B
    BY <1>3 DEF InitJob
  <2> HIDE DEF z
  <2>9. Shape(links', A, B) /\ links'.next = links.next
    BY <2>7, <2>8
  <2>10. Shape(links, pending, working)'
    BY <2>8, <2>9 DEF Shape
  <2>11. Listed' = Listed /\ \A i \in Job : IsEmpty(links', i)
    BY <2>1, <2>9 DEF Listed, IsEmpty
  <2> QED BY <1>0, <2>2, <2>8, <2>10, <2>11 DEF ShapeInv, InitJob, Linking
<1> QED BY <1>2, <1>3

LEMMA DoJobKeeps ==
    ASSUME ShapeInv, NEW j \in Job, DoJob(j)
    PROVE  ShapeInv' /\ Listed' = Listed /\ running' = running
BY DEF ShapeInv, DoJob, InCode, Linking, Listed, lists, Shape

(* A handler activates a job: *)
LEMMA HandlerDoJobKeeps ==
    ASSUME ~Unlocked, LockInv, ShapeInv, NEW j \in Job, HandlerDoJob(j)
    PROVE  /\ ShapeInv' /\ running' = running
           /\ Listed' = Listed \cup {j} /\ j # running
<1>0. at \notin Linking /\ UNCHANGED <<pending, working, jobs, running, at, job, list>>
  BY LinksAlone DEF HandlerDoJob, InCode, Runs, Linking, HoldsAt, thread
<1>1. Shape(links, pending, working) /\ j \in jobs /\ j # running
  BY <1>0 DEF ShapeInv, HandlerDoJob, Linking
<1>2. CASE IsEmpty(links, j)
  <2>1. links' = AddAfter(links, pending, j)
    BY <1>2 DEF HandlerDoJob
  <2>2. /\ links'.next[working] = links.next[working]
        /\ \A i \in Job : IsEmpty(links', i) <=> IsEmpty(links, i) /\ i # j
    BY <1>1, <1>2, <2>1, LinkLists DEF ShapeInv
  <2>3. Shape(AddAfter(links, pending, j), pending, working)
    BY <1>1, <1>2, AddAfterKeeps DEF ShapeInv
  <2>4. Shape(links, pending, working)'
    BY <1>0, <2>1, <2>3 DEF Shape
  <2>5. Listed' = Listed \cup {j}
    BY <2>2 DEF Listed
  <2>6. ShapeInv'
    <3>1. IsEmpty(links', working) <=> IsEmpty(links, working)
      BY <2>2 DEF IsEmpty
    <3> QED BY <1>0, <1>1, <2>2, <2>4, <3>1 DEF ShapeInv, Linking
  <2> QED BY <1>0, <1>1, <2>5, <2>6
<1>3. CASE ~IsEmpty(links, j)
  <2>1. links' = links
    BY <1>3 DEF HandlerDoJob
  <2>2. Listed' = Listed \cup {j}
    BY <1>3, <2>1 DEF Listed
  <2> QED BY <1>0, <1>1, <2>1, <2>2, ThreadStays
<1> QED BY <1>2, <1>3

(* PendSV runs the first job of the working list and unlinks it. *)
LEMMA RunJobKeeps ==
    ASSUME ~Unlocked, LockInv, ShapeInv, RunJob
    PROVE  /\ ShapeInv' /\ Listed' = Listed
           /\ running = NoJob /\ running' \in Listed
<1>0. at \notin Linking /\ UNCHANGED <<links, pending, working, jobs, at, job, list>>
  BY LinksAlone DEF RunJob, Linking, HoldsAt, thread, lists
<1>1. /\ Shape(links, pending, working) /\ ~IsEmpty(links, working) /\ running = NoJob
      /\ running' = links.next[working]
  BY <1>0 DEF ShapeInv, RunJob, Linking
<1>2. links.next[working] \in Job /\ ~IsEmpty(links, links.next[working])
  BY <1>1, RemoveKeeps DEF ShapeInv
<1>3. ShapeInv'
  BY <1>0, <1>1 DEF ShapeInv, Shape, Linking
<1> QED BY <1>0, <1>1, <1>2, <1>3 DEF Listed

LEMMA JobReturnKeepsShape ==
    ASSUME ~Unlocked, LockInv, ShapeInv, JobReturn
    PROVE  ShapeInv' /\ running # NoJob /\ running' = NoJob /\ Listed' = Listed \ {running}
<1>0. /\ at \notin Linking /\ UNCHANGED <<pending, working, jobs, at, job, list>>
      /\ running # NoJob /\ running' = NoJob
  BY LinksAlone DEF JobReturn, Linking, HoldsAt, thread
<1>1. /\ Shape(links, pending, working) /\ ~IsEmpty(links, working)
      /\ links' = Remove(links, links.next[working]) /\ running = links.next[working]
  BY <1>0 DEF ShapeInv, JobReturn, Linking
<1>2. /\ Shape(links', pending, working)
      /\ \A i \in Job : IsEmpty(links', i) <=> IsEmpty(links, i) \/ i = running
  BY <1>1, RemoveKeeps, RemoveLists DEF ShapeInv
<1>3. Shape(links, pending, working)'
  BY <1>0, <1>2 DEF Shape
<1>4. ShapeInv'
  BY <1>0, <1>2, <1>3 DEF ShapeInv, Linking
<1> QED BY <1>0, <1>2, <1>4 DEF Listed

(* PendSV exchanges the lists. *)
LEMMA PendSVKeeps ==
    ASSUME ~Unlocked, LockInv, ShapeInv, Masks(config), PendSVInterrupt
    PROVE  ShapeInv' /\ Listed' = Listed /\ running' = running
<1>0. /\ at \notin Linking /\ UNCHANGED <<links, jobs, running, at, job, list>>
      /\ running = NoJob /\ pending' = working /\ working' = pending
  <2>1. at \notin HoldsAt
    BY InterruptedOpen DEF PendSVInterrupt, LockInv
  <2> QED BY <2>1 DEF PendSVInterrupt, MayInterrupt, Linking, HoldsAt, thread, LockInv
<1>1. Shape(links, working, pending)
  BY <1>0, ShapeSwaps DEF ShapeInv, Linking
<1>2. Shape(links, pending, working)'
  BY <1>0, <1>1 DEF Shape
<1> QED BY <1>0, <1>2 DEF ShapeInv, Linking, Listed

(* Every other step leaves the lists alone. *)
LEMMA OthersKeep ==
    ASSUME ~Unlocked, LockInv, ShapeInv, Masks(config),
           \/ \E c \in Context : EnterLock(c) \/ EnterAtomic(c) \/ ExitLock(c)
           \/ PendWork \/ EnableTimer \/ DisableTimer
           \/ TermTimer \/ TermLock \/ TermLoop \/ Expire
           \/ TimerReturn \/ PendSVReturn \/ TimerInterrupt \/ UNCHANGED vars
    PROVE  ShapeInv' /\ Listed' = Listed /\ running' = running
<1>1. UNCHANGED <<links, pending, working, jobs, running>>
  BY DEF EnterLock, EnterAtomic, ExitLock, PendWork, EnableTimer, DisableTimer, TermTimer, TermLock,
         TermLoop, Expire, TimerReturn, PendSVReturn, TimerInterrupt, lists, vars
<1>2. UNCHANGED <<at, job, list>> \/ (at \notin Linking /\ at' \notin Linking)
  <2>1. ASSUME NEW c \in Context, EnterLock(c) PROVE UNCHANGED <<at, job, list>> \/ (at \notin Linking /\ at' \notin Linking)
    BY <2>1 DEF EnterLock, InCode, Linking, Context
  <2>2. ASSUME NEW c \in Context, ExitLock(c) PROVE UNCHANGED <<at, job, list>> \/ (at \notin Linking /\ at' \notin Linking)
    BY <2>2 DEF ExitLock, InCode, Linking, Context
  <2>3. CASE PendWork
    BY <2>3 DEF PendWork, Linking
  <2>4. CASE TermTimer \/ TermLock
    BY <2>4 DEF TermTimer, TermLock, Linking
  <2> QED BY <2>1, <2>2, <2>3, <2>4
       DEF EnterAtomic, EnableTimer, DisableTimer, TermLoop, Expire, TimerReturn, PendSVReturn,
           TimerInterrupt, thread, vars
<1>3. ShapeInv'
  BY <1>1, <1>2, ListsStay, ThreadStays
<1> QED BY <1>1, <1>3 DEF Listed

--------------------------------------------------------------------------------
(* What a step does to the listed jobs and the job that runs *)
WorkStep ==
    \/ Listed' = Listed /\ running' = running
    \/ \E j \in Job : Listed' = Listed \cup {j} /\ running' = running /\ j # running
    \/ running = NoJob /\ running' \in Listed /\ Listed' = Listed
    \/ running # NoJob /\ running' = NoJob /\ Listed' = Listed \ {running}

(* Every step keeps the lists and is a step of WorkQueue or none.          *)
THEOREM NextKeepsShape ==
    ASSUME LocksWork, ~Unlocked, LockInv, ShapeInv, [Next]_vars
    PROVE  ShapeInv' /\ WorkStep
<1>0. Masks(config) /\ "thread" \in Context /\ "handler" \in Context
  BY DEF LockInv, LocksWork, Context
<1>1. CASE LinkStep
  <2>1. /\ ShapeInv' /\ running = NoJob /\ running' = NoJob
        /\ Listed' = Listed \/ (\E j \in Job : Listed' = Listed \cup {j})
    BY <1>1, LinkStepKeeps
  <2> QED BY <2>1, WorkAssumption DEF WorkStep
<1>2. ASSUME NEW j \in Job, InitJob(j) PROVE ShapeInv' /\ WorkStep
  <2>1. running = NoJob
    BY <1>2 DEF InitJob, InCode, Runs, LockInv
  <2> QED BY <1>2, <2>1, InitJobKeeps DEF WorkStep
<1>3. ASSUME NEW j \in Job, DoJob(j) PROVE ShapeInv' /\ WorkStep
  BY <1>3, DoJobKeeps DEF WorkStep
<1>4. ASSUME NEW j \in Job, HandlerDoJob(j) PROVE ShapeInv' /\ WorkStep
  BY <1>4, HandlerDoJobKeeps DEF WorkStep
<1>5. CASE RunJob
  BY <1>5, RunJobKeeps DEF WorkStep
<1>6. CASE JobReturn
  BY <1>6, JobReturnKeepsShape DEF WorkStep
<1>7. CASE PendSVInterrupt
  BY <1>0, <1>7, PendSVKeeps DEF WorkStep
<1>8. CASE \/ \E c \in Context : EnterLock(c) \/ EnterAtomic(c) \/ ExitLock(c)
           \/ PendWork \/ EnableTimer \/ DisableTimer
           \/ TermTimer \/ TermLock \/ TermLoop \/ Expire
           \/ TimerReturn \/ PendSVReturn \/ TimerInterrupt \/ UNCHANGED vars
  BY <1>0, <1>8, OthersKeep DEF WorkStep
<1> QED
  BY <1>0, <1>1, <1>2, <1>3, <1>4, <1>5, <1>6, <1>7, <1>8 DEF Next, ThreadNext, HandlerNext

(* Whenever the thread is not halfway through linking a job, the two lists *)
(* of source/deferred.c are rings, no job is on both, and every job that   *)
(* says it is on a list is found by walking one of them: an interrupt      *)
(* between the links of ndlist_add_after would tear a ring, and the lock   *)
(* is what keeps it out.                                                   *)
THEOREM ListsStayIntact ==
    ASSUME LocksWork, ~Unlocked
    PROVE  Spec => []ListsIntact
<1>1. ASSUME ShapeInv PROVE ListsIntact
  <2> SUFFICES ASSUME at \notin {"next", "current"}
               PROVE  /\ WellLinked(links, Node) /\ Waiting(A) \cap Waiting(B) = {}
                      /\ Waiting(A) \cup Waiting(B) = Listed
    BY DEF ListsIntact, Listed
  <2>1. Shape(links, A, B)
    BY <1>1, ShapeSwaps DEF ShapeInv
  <2>2. PICK k \in Nat, m \in Nat : \E s \in [0 .. k -> Node], t \in [0 .. m -> Node] :
            TwoRings(links, A, B, k, s, m, t)
    BY <2>1 DEF Shape, Ringed
  <2>3. PICK s \in [0 .. k -> Node], t \in [0 .. m -> Node] : TwoRings(links, A, B, k, s, m, t)
    BY <2>2
  <2>4. Ring(links, A, k, s) /\ Ring(links, B, m, t)
    BY <2>3 DEF TwoRings
  <2>5. Waiting(A) = {s[i] : i \in 0 .. k} \ {A} /\ Waiting(B) = {t[i] : i \in 0 .. m} \ {B}
    BY <2>4, WalkIsRing DEF Waiting
  <2>6. /\ \A i \in 0 .. k, j \in 0 .. m : s[i] # t[j]
        /\ \A j \in Listed : (\E i \in 0 .. k : s[i] = j) \/ (\E i \in 0 .. m : t[i] = j)
    BY <2>3 DEF TwoRings, Listed
  <2>7. Waiting(A) \cap Waiting(B) = {}
    BY <2>5, <2>6
  <2>8. Listed \subseteq Waiting(A) \cup Waiting(B)
    <3>1. A \notin Listed /\ B \notin Listed
      BY WorkAssumption DEF Listed
    <3> QED BY <2>5, <2>6, <3>1
  <2>9. \A i \in 0 .. k : s[i] # A => s[i] \in Listed
    <3> SUFFICES ASSUME NEW i \in 0 .. k, s[i] # A PROVE s[i] \in Listed
      OBVIOUS
    <3>1. s[i] # B /\ s[i] \in Job
      <4>1. t[0] = B /\ 0 \in 0 .. m
        BY <2>4 DEF Ring
      <4> QED BY <2>6, <4>1 DEF Node
    <3>2. links.next[s[i]] # s[i]
      <4>1. s[0] = A /\ links.next[s[i]] = IF i = k THEN A ELSE s[i + 1]
        BY <2>4 DEF Ring
      <4>2. i # k => i + 1 \in 0 .. k /\ s[i + 1] # s[i]
        BY <2>4 DEF Ring
      <4> QED BY <4>1, <4>2
    <3> QED BY <3>1, <3>2 DEF Listed, IsEmpty
  <2>10. \A i \in 0 .. m : t[i] # B => t[i] \in Listed
    <3> SUFFICES ASSUME NEW i \in 0 .. m, t[i] # B PROVE t[i] \in Listed
      OBVIOUS
    <3>1. t[i] # A /\ t[i] \in Job
      <4>1. s[0] = A /\ 0 \in 0 .. k
        BY <2>4 DEF Ring
      <4> QED BY <2>6, <4>1 DEF Node
    <3>2. links.next[t[i]] # t[i]
      <4>1. t[0] = B /\ links.next[t[i]] = IF i = m THEN B ELSE t[i + 1]
        BY <2>4 DEF Ring
      <4>2. i # m => i + 1 \in 0 .. m /\ t[i + 1] # t[i]
        BY <2>4 DEF Ring
      <4> QED BY <4>1, <4>2
    <3> QED BY <3>1, <3>2 DEF Listed, IsEmpty
  <2>11. Waiting(A) \cup Waiting(B) \subseteq Listed
    BY <2>5, <2>9, <2>10
  <2> QED BY <2>1, <2>7, <2>8, <2>11 DEF Shape
<1> QED
  BY <1>1, InitLockInv, NextKeepsLockInv, InitShape, NextKeepsShape, PTL DEF Spec

(* Deferred work implements WorkQueue: every job nsched_deferred_do names  *)
(* is called once by ncore_deferred_work before it can be activated anew,  *)
(* and no other job is called.                                             *)
THEOREM WorkIsQueued ==
    ASSUME LocksWork, ~Unlocked
    PROVE  Spec => ImplementsWorkQueue
<1>1. Init => Work!Init
  <2>1. Init => /\ running = NoJob /\ \A j \in Job : IsEmpty(links, j)
    BY DEF Init, IsEmpty, Node
  <2> QED BY <2>1 DEF Work!Init
<1>2. ASSUME WorkStep PROVE [Work!Next]_<<Listed \ {running}, running>>
  <2>0. Listed \subseteq Job /\ NoJob \notin Job
    BY WorkAssumption DEF Listed
  <2>1. CASE Listed' = Listed /\ running' = running
    BY <2>1
  <2>2. ASSUME NEW j \in Job, Listed' = Listed \cup {j}, running' = running, j # running
        PROVE  Work!Activate(j)
    BY <2>2 DEF Work!Activate, Listed
  <2>3. CASE running = NoJob /\ running' \in Listed /\ Listed' = Listed
    <3>1. Work!Start(running')
      BY <2>0, <2>3 DEF Work!Start, Listed
    <3> QED BY <2>0, <2>3, <3>1 DEF Work!Next
  <2>4. CASE running # NoJob /\ running' = NoJob /\ Listed' = Listed \ {running}
    <3>1. Work!Finish
      BY <2>0, <2>4 DEF Work!Finish, Listed
    <3> QED BY <3>1 DEF Work!Next
  <2> QED BY <1>2, <2>1, <2>2, <2>3, <2>4 DEF WorkStep, Work!Next
<1>3. ASSUME ~Unlocked, LockInv, ShapeInv, [Next]_vars
      PROVE  [Work!Next]_<<{j \in Job : ~IsEmpty(links, j)} \ {running}, running>>
  BY <1>2, <1>3, NextKeepsShape DEF Listed
<1> QED
  BY <1>1, <1>3, InitLockInv, NextKeepsLockInv, InitShape, NextKeepsShape, PTL
  DEF Spec, ImplementsWorkQueue, Work!Spec
--------------------------------------------------------------------------------
(* The fields of a core; those of its timer are Boolean. *)
IsCore(k) ==
    k \in [mask : {k.mask}, off : {k.off}, locked : {k.locked}, pendsv : {k.pendsv},
           run : BOOLEAN, irq : BOOLEAN, clock : BOOLEAN, flag : BOOLEAN, latch : BOOLEAN]

(* The core l has its timer as in k. *)
SameTimer(l, k) ==
    /\ IsCore(l)
    /\ l.run = k.run /\ l.irq = k.irq /\ l.clock = k.clock /\ l.flag = k.flag /\ l.latch = k.latch

(* The kernel lock and PendSV leave the timer alone. *)
LEMMA LockKeepsTimer ==
    ASSUME NEW k, IsCore(k), NEW c, NEW s
    PROVE  /\ SameTimer(LockEnter(k, c), k) /\ SameTimer(LockExit(k, c, s), k)
           /\ SameTimer(LockTerm(k), k) /\ SameTimer(DeferredInit(k), k)
           /\ SameTimer(DeferredDo(k), k) /\ SameTimer(PendSVEntry(k), k)
<1>0. \A x : /\ SameTimer([k EXCEPT !.mask = x, !.locked = TRUE], k)
             /\ SameTimer([k EXCEPT !.off = x, !.locked = TRUE], k)
             /\ SameTimer([k EXCEPT !.mask = x, !.locked = FALSE], k)
             /\ SameTimer([k EXCEPT !.off = x, !.locked = FALSE], k)
             /\ SameTimer([k EXCEPT !.mask = x], k) /\ SameTimer([k EXCEPT !.off = x], k)
             /\ SameTimer(k, k)
  BY DEF IsCore, SameTimer
<1>1. SameTimer(LockEnter(k, c), k)
  <2>1. SameTimer(GccLockEnter(k, c.level), k)
    <3> DEFINE code == CortexCode(c.level) * 16
    <3> HIDE DEF code
    <3>1. SameTimer([k EXCEPT !.mask = code, !.locked = TRUE], k)
      BY <1>0, Zenon
    <3>2. SameTimer([k EXCEPT !.off = 1, !.locked = TRUE], k)
      BY <1>0, Zenon
    <3> QED BY <3>1, <3>2, Zenon DEF GccLockEnter, code
  <2>2. SameTimer(ArmLockEnter(k, c.level), k)
    BY <1>0, Zenon DEF ArmLockEnter
  <2>3. SameTimer(PicLockEnter(k, c.level), k)
    BY <1>0, Zenon DEF PicLockEnter
  <2> QED BY <2>1, <2>2, <2>3, Zenon DEF LockEnter
<1>2. SameTimer(LockExit(k, c, s), k)
  <2>1. /\ SameTimer(GccLockExit(k, c.level, s), k) /\ SameTimer(ArmLockExit(k, c.level, s), k)
        /\ SameTimer(PicLockExit(k, c.level, s), k)
    BY <1>0, Zenon DEF GccLockExit, ArmLockExit, PicLockExit
  <2> QED BY <2>1, Zenon DEF LockExit
<1>3. SameTimer(LockTerm(k), k)
  BY DEF IsCore, SameTimer, LockTerm
<1>4. SameTimer(DeferredInit(k), k) /\ SameTimer(DeferredDo(k), k) /\ SameTimer(PendSVEntry(k), k)
  BY DEF IsCore, SameTimer, DeferredInit, DeferredDo, PendSVEntry
<1> QED BY <1>1, <1>2, <1>3, <1>4

(* A timer of the STM32 that counts is clocked. *)
Clocks(k, c) == c.port # "pic32" /\ c.timer = "TIM" /\ k.run => k.clock

LEMMA TimerIsClocked ==
    ASSUME NEW k, IsCore(k), NEW c
    PROVE  /\ IsCore(TimerInit(k, c)) /\ ~TimerInit(k, c).run
           /\ IsCore(TimerEnable(k, c)) /\ Clocks(TimerEnable(k, c), c)
           /\ IsCore(TimerDisable(k, c)) /\ ~TimerDisable(k, c).run
           /\ IsCore(TimerTerm(k, c)) /\ ~TimerTerm(k, c).run
<1>1. IsCore(TimerInit(k, c)) /\ ~TimerInit(k, c).run
  BY DEF IsCore, TimerInit, PicTimerInit, SysTickInit, TimInit
<1>2. IsCore(TimerEnable(k, c)) /\ Clocks(TimerEnable(k, c), c)
  BY DEF IsCore, Clocks, TimerEnable, PicTimerEnable, SysTickEnable, TimEnable
<1>3. IsCore(TimerDisable(k, c)) /\ ~TimerDisable(k, c).run
  BY DEF IsCore, TimerDisable, PicTimerStop, SysTickStop, TimStop
<1>4. IsCore(TimerTerm(k, c)) /\ ~TimerTerm(k, c).run
  BY DEF IsCore, TimerTerm, PicTimerTerm, SysTickTerm, TimTerm, TimStop
<1> QED BY <1>1, <1>2, <1>3, <1>4

ClockInv == IsCore(core) /\ Clocks(core, config)

Stands == Ticked' \/ (handler = "none" /\ handler' = "timer") \/ ~core'.run

(* What a step does to the timer: nothing, or it stops it or lets it expire. *)
LEMMA StepStands ==
    ASSUME ClockInv, [Next]_vars
    PROVE  ClockInv' /\ (Ticked => Stands)
<1> USE DEF ClockInv
<1>1. config' = config
  BY DEF Next, ThreadNext, HandlerNext, vars, EnterLock, EnterAtomic, ExitLock, InitJob, DoJob,
         LinkStep, PendWork, EnableTimer, DisableTimer, TermTimer, TermLock, TermLoop, HandlerDoJob,
         RunJob, JobReturn, TimerReturn, PendSVReturn, Expire, TimerInterrupt, PendSVInterrupt
<1>2. ASSUME SameTimer(core', core) PROVE ClockInv' /\ (Ticked => Stands)
  BY <1>1, <1>2 DEF SameTimer, Clocks, Ticked, Stands, Requested
<1>3. SameTimer(core, core)
  BY DEF SameTimer
<1>4. CASE UNCHANGED core
  BY <1>2, <1>3, <1>4
<1>5. ASSUME NEW c \in Context, EnterLock(c) \/ EnterAtomic(c) \/ ExitLock(c)
      PROVE  SameTimer(core', core)
  BY <1>5, LockKeepsTimer DEF EnterLock, EnterAtomic, ExitLock
<1>6. ASSUME NEW j \in Job, InitJob(j) \/ HandlerDoJob(j)
      PROVE  SameTimer(core', core)
  BY <1>3, <1>6, LockKeepsTimer DEF InitJob, HandlerDoJob
<1>7. CASE PendWork \/ TermLock \/ PendSVInterrupt
  BY <1>2, <1>7, LockKeepsTimer DEF PendWork, TermLock, PendSVInterrupt
<1>8. CASE EnableTimer
  BY <1>1, <1>8, TimerIsClocked DEF EnableTimer, Ticked
<1>9. CASE DisableTimer \/ TermTimer
  BY <1>1, <1>9, TimerIsClocked DEF DisableTimer, TermTimer, Stands, Clocks
<1>10. CASE Expire
  <2>1. IsCore(core') /\ core'.run = core.run /\ core'.clock = core.clock /\ core'.irq = core.irq
    BY <1>10 DEF Expire, IsCore
  <2>2. Ticked => Ticked'
    BY <1>1, <1>10 DEF Expire, IsCore, Ticked, Requested
  <2> QED BY <1>1, <2>1, <2>2 DEF Clocks, Stands
<1>11. CASE TimerInterrupt
  <2>1. IsCore(core') /\ core'.run = core.run /\ core'.clock = core.clock
    BY <1>11 DEF TimerInterrupt, SysTickHandler, TimHandler, CoreTimerHandler, IsCore
  <2>2. Ticked => Stands
    BY <1>1, <1>11 DEF TimerInterrupt, MayInterrupt, SysTickHandler, TimHandler, CoreTimerHandler,
                       IsCore, Ticked, Stands, Requested, Clocks
  <2> QED BY <1>1, <2>1, <2>2 DEF Clocks
<1>12. CASE \/ \E j \in Job : DoJob(j)
            \/ LinkStep \/ TermLoop \/ RunJob \/ JobReturn \/ TimerReturn \/ PendSVReturn
  BY <1>4, <1>12 DEF DoJob, LinkStep, TermLoop, vars, RunJob, JobReturn, TimerReturn, PendSVReturn
<1>13. CASE UNCHANGED vars
  BY <1>4, <1>13 DEF vars
<1> QED BY <1>2, <1>5, <1>6, <1>7, <1>8, <1>9, <1>10, <1>11, <1>12, <1>13
        DEF Next, ThreadNext, HandlerNext, Context

(* TickStands: TIMER_HANDLER takes the update flag back before it serves   *)
(* the tick, and nothing else but a stop does: whatever interrupts what,   *)
(* a period that has passed is served.                                     *)
THEOREM TicksStand == Spec => TickStands
<1>1. Init => ClockInv
  <2> SUFFICES ASSUME Init PROVE ClockInv
    OBVIOUS
  <2>1. IsCore(LockInit(Reset))
    BY DEF IsCore, LockInit, Reset
  <2> QED BY <2>1, TimerIsClocked DEF Init, CoreInit, ClockInv, Clocks
<1>2. ClockInv /\ [Next]_vars => ClockInv'
  BY StepStands
<1>3. ClockInv /\ [Next]_vars
          => [Ticked => Ticked' \/ (handler = "none" /\ handler' = "timer") \/ ~core'.run]_vars
  BY StepStands DEF Stands
<1> QED BY <1>1, <1>2, <1>3, PTL DEF Spec, TickStands
====
