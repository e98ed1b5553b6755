SPECIFICATION FairSpec
CONSTANTS
    Queries = {q1, q2}
    Probes = {p1}
    Ingests = {i1, i2}
    PoolSize = 1
    MaxOverflow = 1
    QueryConnections = {"search"}
    ReservedConnections = {"health"}
    HoldPendingSuccessor = 4
    None = None
INVARIANTS
    TypeOK
    ResourcesExact
    SomebodyMoves
    ReserveKept
PROPERTIES
    KeepsBounds
    EveryRequestEnds
