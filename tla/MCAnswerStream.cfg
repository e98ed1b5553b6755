\* One streamed answer of up to two text events under fairness.
CONSTANTS
    MaxDeltas = 2
    None = None
SPECIFICATION FairSpec
INVARIANTS
    CompleteMeansAccounted
    LastVerdictStands
    RecordMatchesStream
PROPERTIES
    KeepsContract
    StreamEnds
    OutlivesClient
