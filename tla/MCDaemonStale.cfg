\* One handler that may repeat a generation; no crash and no failure.
SPECIFICATION DaemonSpec
CONSTANTS
    i1 = i1
    good = good
    bad = bad
    Ids = {i1}
    Crons = {good, bad}
    BadCrons = {bad}
    Requests <- MCValidRequests
    Results <- MCOneResult
    Execs = {x1}
    MaxHistory = 1
    MaxEntries = 2
    None = None
    Handlers = {h1}
    MaxCrashes = 0
    MaxStoreFailures = 0
    Unknown = Unknown
INVARIANTS
    StoreAgreesWhenQuiet
