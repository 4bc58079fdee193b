CONSTANTS
    Timer = {a, b, c}
    ETimer = {a}
    Sentinel = Sentinel
    Null = Null
    QueueSize = 1
    MaxTick = 2
    WordSize = 16
    Starts <- NoTimer
    Cancels <- PlainCancelsItself
SPECIFICATION FairSpec
PROPERTIES ExpiresInItsTick CancelledStaysQuiet CancelledIsSilent StartedIsHandled
