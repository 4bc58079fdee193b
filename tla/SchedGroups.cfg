CONSTANTS
    idle = idle
    t1 = t1
    t2 = t2
    t3 = t3
    Thread = {idle, t1, t2, t3}
    Idle = idle
    Sentinel = Sentinel
    Priority <- SpreadPriority
    Levels = 4
    Buckets = 4
    Width = 2
    UintBits = 2
    Log2Bits = 2
    MaxRef = 2
    IdleWaits = TRUE
SPECIFICATION FairSpec
INVARIANTS BitmapMirrorsLists LinkedIffReady NoLostWakeup
PROPERTIES ImplementsAbstract ReadyIsDispatched ExitReturns
