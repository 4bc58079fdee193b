-------------------------------- MODULE CorePort -------------------------------
(***************************************************************************)
(* What the microcontroller ports do to the core: the interrupt mask that  *)
(* is the kernel lock, the core timer and the interrupt of deferred work.  *)
(* A port is built for a configuration c: the port, the lock level         *)
(* CONFIG_CORE_LOCK_MAX_LEVEL and, on the STM32, the timer that ticks.     *)
(*                                                                         *)
(*   "gcc"    port/stm32f4xx-none-gcc, BASEPRI or PRIMASK                  *)
(*   "arm"    port/stm32f4xx-none-arm, the same for another compiler       *)
(*   "pic32"  port/pic32-none-gcc, the IPL and IE fields of Status         *)
(*                                                                         *)
(* A core k has the fields                                                 *)
(*   mask    BASEPRI, or Status.IPL       off     PRIMASK, or 1 - Status.IE *)
(*   locked  g_core_is_locked ("gcc")     pendsv  PendSV is pending        *)
(*   run     the timer counts             irq     its interrupt is enabled *)
(*   clock   its registers are clocked    flag    its update flag          *)
(*   latch   its interrupt is pending                                      *)
(***************************************************************************)
EXTENDS Integers

CONSTANT StatusRest     \* the other fields of the PIC32 Status register

ASSUME StatusAssumption == StatusRest \in Nat

Core == [mask : 0 .. 255, off : {0, 1}, locked : BOOLEAN, pendsv : BOOLEAN,
         run : BOOLEAN, irq : BOOLEAN, clock : BOOLEAN, flag : BOOLEAN, latch : BOOLEAN]

Reset ==
    [mask |-> 0, off |-> 0, locked |-> FALSE, pendsv |-> FALSE, run |-> FALSE,
     irq |-> FALSE, clock |-> FALSE, flag |-> FALSE, latch |-> FALSE]

--------------------------------------------------------------------------------
(* NCORE_LOCK_TO_CODE: the priority of the kernel's handlers.  Four bits,  *)
(* the smaller the more urgent, and three bits, the larger the more urgent. *)
CortexCode(level) == (255 - level) \div 16
PicCode(level) == level \div 32

(* The priority field of BASEPRI; zero masks nothing. *)
Basepri(k) == k.mask \div 16
CortexAdmits(k, level) == k.off = 0 /\ (Basepri(k) = 0 \/ CortexCode(level) < Basepri(k))
PicAdmits(k, level) == k.off = 0 /\ PicCode(level) > k.mask

(* A handler at the level of the kernel can interrupt the thread. *)
Admits(k, c) == IF c.port = "pic32" THEN PicAdmits(k, c.level) ELSE CortexAdmits(k, c.level)

(* Variant for sensitivity: the code is not shifted into BASEPRI. *)
GccLockEnterUnshifted(k, level) ==
    IF level # 255 THEN [k EXCEPT !.mask = CortexCode(level), !.locked = TRUE]
                   ELSE [k EXCEPT !.off = 1, !.locked = TRUE]

(* ncore_lock_enter *)
GccLockEnter(k, level) ==
    IF level # 255 THEN [k EXCEPT !.mask = CortexCode(level) * 16, !.locked = TRUE]
                   ELSE [k EXCEPT !.off = 1, !.locked = TRUE]
ArmLockEnter(k, level) ==
    IF level # 255 THEN [k EXCEPT !.mask = CortexCode(level)] ELSE [k EXCEPT !.off = 1]
PicLockEnter(k, level) ==
    IF level # 255 THEN [k EXCEPT !.mask = PicCode(level)] ELSE [k EXCEPT !.off = 1]

(* ncore_lock_exit *)
GccLockExit(k, level, saved) ==
    IF level # 255 THEN [k EXCEPT !.mask = saved, !.locked = FALSE]
                   ELSE [k EXCEPT !.off = saved, !.locked = FALSE]
ArmLockExit(k, level, saved) ==
    IF level # 255 THEN [k EXCEPT !.mask = saved] ELSE [k EXCEPT !.off = saved]
PicLockExit(k, level, saved) ==
    IF level # 255 THEN [k EXCEPT !.mask = saved]
    ELSE IF saved # 0 THEN [k EXCEPT !.off = 0] ELSE k

LockEnter(k, c) ==
    IF c.port = "gcc" THEN GccLockEnter(k, c.level)
    ELSE IF c.port = "arm" THEN ArmLockEnter(k, c.level) ELSE PicLockEnter(k, c.level)

(* Variant for sensitivity: the level is read after it was raised. *)
SavedLevelLate(k, c) ==
    IF c.level # 255 THEN LockEnter(k, c).mask
    ELSE IF c.port = "pic32" THEN 2 * StatusRest ELSE 1

(* The level that ncore_lock_enter saves *)
SavedLevel(k, c) ==
    IF c.level # 255 THEN k.mask
    ELSE IF c.port = "pic32" THEN 2 * StatusRest + 1 - k.off ELSE k.off

LockExit(k, c, saved) ==
    IF c.port = "gcc" THEN GccLockExit(k, c.level, saved)
    ELSE IF c.port = "arm" THEN ArmLockExit(k, c.level, saved)
    ELSE PicLockExit(k, c.level, saved)

(* ncore_is_lock_valid: the flag is set, or a handler runs, and not both. *)
LockValid(k, isr) == k.locked # isr

--------------------------------------------------------------------------------
(* The core timer on SysTick: a pending exception stays pending when the   *)
(* timer is stopped.                                                       *)
SysTickInit(k) == [k EXCEPT !.run = FALSE, !.irq = FALSE, !.latch = FALSE]
SysTickStop(k) == [k EXCEPT !.run = FALSE, !.irq = FALSE]
SysTickTerm(k) == [k EXCEPT !.run = FALSE, !.irq = FALSE]
SysTickEnable(k) == [k EXCEPT !.run = TRUE, !.irq = TRUE]

(* The core timer on TIM2 to TIM5: its update flag, set by the update      *)
(* event that loads the prescaler, stays set until the handler has seen it *)
(* with the timer clocked.                                                 *)
TimInit(k) ==
    [k EXCEPT !.run = FALSE, !.irq = FALSE, !.flag = TRUE, !.latch = FALSE, !.clock = FALSE]
TimStop(k) == [k EXCEPT !.run = FALSE, !.irq = FALSE, !.clock = FALSE]
TimTerm(k) == [TimStop(k) EXCEPT !.latch = FALSE]
TimEnable(k) == [k EXCEPT !.run = TRUE, !.irq = TRUE, !.clock = TRUE, !.latch = @ \/ k.flag]

(* The core timer of the PIC32, CP0 Count and Compare *)
PicTimerInit(k) == [k EXCEPT !.run = FALSE, !.irq = FALSE]
PicTimerStop(k) == [k EXCEPT !.run = FALSE, !.irq = FALSE]
PicTimerTerm(k) == [k EXCEPT !.run = FALSE, !.irq = FALSE]
PicTimerEnable(k) == [k EXCEPT !.run = TRUE, !.irq = TRUE, !.flag = FALSE]

TimerInit(k, c) ==
    IF c.port = "pic32" THEN PicTimerInit(k)
    ELSE IF c.timer = "SysTick" THEN SysTickInit(k) ELSE TimInit(k)
TimerEnable(k, c) ==
    IF c.port = "pic32" THEN PicTimerEnable(k)
    ELSE IF c.timer = "SysTick" THEN SysTickEnable(k) ELSE TimEnable(k)
TimerDisable(k, c) ==
    IF c.port = "pic32" THEN PicTimerStop(k)
    ELSE IF c.timer = "SysTick" THEN SysTickStop(k) ELSE TimStop(k)
TimerTerm(k, c) ==
    IF c.port = "pic32" THEN PicTimerTerm(k)
    ELSE IF c.timer = "SysTick" THEN SysTickTerm(k) ELSE TimTerm(k)

--------------------------------------------------------------------------------
(* lock_init, which leaves interrupts enabled, and ncore_init *)
LockInit(k) == [[k EXCEPT !.off = 1] EXCEPT !.off = 0]
CoreInit(c) == TimerInit(LockInit(Reset), c)

(* lock_term *)
LockTerm(k) == [k EXCEPT !.off = 1]

(* ncore_deferred_init, ncore_deferred_do and what PendSV_Handler does      *)
(* before the work: PENDSVCLR, PENDSVSET, PENDSVCLR                        *)
DeferredInit(k) == [k EXCEPT !.pendsv = FALSE]
DeferredDo(k) == [k EXCEPT !.pendsv = TRUE]
PendSVEntry(k) == [k EXCEPT !.pendsv = FALSE]
================================================================================
