CONSTANTS
    Job = {j1, j2}
    NoJob = NoJob
    A = A
    B = B
    StatusRest = 1
    Configs <- MaskingConfigs
    Nests <- NestingConfigs
    MaxDepth = 2
    Unlocked = FALSE
SPECIFICATION FairSpec
INVARIANTS KernelExclusion MaskRestored ListsIntact
PROPERTIES TickStands TickServed ActivatedRuns ImplementsWorkQueue
