CONSTANTS
    e1 = e1
    e2 = e2
    isr = isr
    main = main
    Block = {b1, b2, b3}
    Static = {}
    NoEvent = NoEvent
    RefLimit = 3
    ReservedLimit = 2
    Epa = {e1, e2}
    Idle = Idle
    Ctx = {isr, main}
    Loop = main
    Prio <- EqualPrio
    MaxPrio = 2
    QueueSize = 2
    DeferSize = 2
    BootEpa = {e1}
    Uses <- UsesDefer
SPECIFICATION FairSpec
INVARIANTS DispatchesOwed ReadyIffReferenced DispatchIsSafe RefCoversHolders
PROPERTIES TopPriorityIsServed DrainsWhenQuiet
