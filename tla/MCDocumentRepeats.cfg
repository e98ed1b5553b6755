\* The same files, with a floor two short sentences and their repetition do not reach.
CONSTANTS
    Files <- AllFiles
    TargetMin = 7
    TargetMax = 12
    HardMin = 5
    OverlapThreshold = 5
    SplitMargin = 1
    PackMargin = 1
    DocLabel <- TheLabel
    Numbers = {"2.1"}
    None = None
    BatchSize = 2
    Concurrency = 2
    MaxAttempts = 2
    MaxBatches = 4
SPECIFICATION Spec
INVARIANTS
    NoAdjacentDuplicate
