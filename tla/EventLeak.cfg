CONSTANTS
    e1 = e1
    e2 = e2
    isr = isr
    main = main
    Block = {b1, b2}
    Static = {s1}
    NoEvent = NoEvent
    RefLimit = 3
    ReservedLimit = 2
    Epa = {e1, e2}
    Idle = Idle
    Ctx = {isr, main}
    Loop = main
    Prio <- TwoPrios
    MaxPrio = 2
    QueueSize = 2
    DeferSize = 1
    BootEpa = {e1}
    Uses <- UsesAhead
SPECIFICATION Spec
INVARIANT NoLeakedEvent
