\* Two ingests, by the route or the command line, and one retrieval.
CONSTANTS
    rmf = rmf
    act = act
    draft2 = draft2
    r1 = r1
    r2 = r2
    a1 = a1
    d1 = d1
    None = None
    Ingests = {i1, i2}
    Readers = {q}
    Files <- MCFiles
    Contents <- MCContents
    VersionsOf <- MCVersionsOf
    ChunksOf <- MCChunksOf
    Sources <- MCSources
    SourceOf <- MCSourceOf
    Directory <- MCDirectory
    Requests <- MCRequests
    MaxChunks = 2
    Embedders = {"openai", "fake"}
    Deployed = "openai"
    MaxEdits = 1
SPECIFICATION FairSpec
INVARIANTS
    TypeOK
    OneDocumentPerSource
    
PROPERTIES
    
    ManifestIsCorpus
    IngestsEnd
CHECK_DEADLOCK FALSE
