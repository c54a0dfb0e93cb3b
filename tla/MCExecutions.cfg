SPECIFICATION Spec
CONSTANTS
    x = x
    r1 = r1
    r2 = r2
    a = a
    Handlers = {h1, h2}
    Rows = {r1, r2}
    Foreign = {x}
    Assignments = {a}
    Unknown = Unknown
    Chunks <- MCChunks
    EventBatches <- MCEventBatches
    ChunkBatches <- MCChunkBatches
    None = None
    Limit = 1
    MaxRequests = 3
    MaxFailures = 1
    MaxTime = 1
INVARIANTS
    TypeOK
    AckedChunksStay
    WalkComplete
CHECK_DEADLOCK FALSE
