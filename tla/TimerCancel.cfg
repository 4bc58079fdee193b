CONSTANTS
    Timer = {a, b}
    Sentinel = Sentinel
    MaxTick = 2
    WordSize = 16
    Starts <- NoTimer
    Cancels <- AnyTimer
SPECIFICATION Spec
PROPERTY CancelledStaysQuiet
