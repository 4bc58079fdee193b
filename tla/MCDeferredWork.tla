----------------------------- MODULE MCDeferredWork ----------------------------
(* Instances of DeferredWork for TLC. *)
EXTENDS DeferredWork

On(port, level, timer) == [port |-> port, level |-> level, timer |-> timer]

(* Configurations whose lock masks the handlers of the kernel: the ends of *)
(* the range of BASEPRI codes, PRIMASK, and both kinds of PIC32 lock.      *)
MaskingConfigs ==
    {On("gcc", 239, "SysTick"), On("gcc", 0, "TIM"), On("gcc", 255, "TIM"),
     On("arm", 255, "SysTick"), On("pic32", 96, "SysTick"), On("pic32", 255, "SysTick")}

(* Sections nest where ncore_lock_exit restores what it found: an inner    *)
(* section of the PIC32 at level 255 opens the outer one.                  *)
PicConfig == {On("pic32", 255, "SysTick")}
NestingConfigs == MaskingConfigs \ PicConfig

OneConfig == {On("gcc", 127, "SysTick")}
================================================================================
