CONSTANTS
    Job = {j1}
    NoJob = NoJob
    A = A
    B = B
    StatusRest = 1
    Configs <- OneConfig
    Nests = {}
    MaxDepth = 2
    Unlocked = FALSE
SPECIFICATION Spec
INVARIANT LockedIsValid
