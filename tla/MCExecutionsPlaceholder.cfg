SPECIFICATION Spec
CONSTANTS
    x = x
    r1 = r1
    r2 = r2
    a = a
    Handlers = {h1, h2}
    Rows = {r1, r2}
    Foreign = {x}
    Assignments = {a}
    Unknown = Unknown
    Chunks <- MCChunks
    EventBatches <- MCEventBatches
    ChunkBatches <- MCChunkBatches
    None = None
    Limit = 1
    MaxRequests = 2
    MaxFailures = 0
    MaxTime = 1
INVARIANTS
    EventsMakeExecutions
CHECK_DEADLOCK FALSE
