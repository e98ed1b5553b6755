\* Filings of four parts, regulations and standards, with limits of a few tokens.
CONSTANTS
    Files <- AllFiles
    TargetMin = 7
    TargetMax = 12
    HardMin = 4
    OverlapThreshold = 4
    SplitMargin = 1
    PackMargin = 1
    DocLabel <- TheLabel
    Numbers = {"2.1"}
    None = None
    BatchSize = 2
    Concurrency = 2
    MaxAttempts = 2
    MaxBatches = 4
SPECIFICATION FairSpec
INVARIANTS
    TextIsStored
    
    SmallFoundNoRoom
PROPERTIES
    EmbedsAsPromised
    EmbeddingEnds
