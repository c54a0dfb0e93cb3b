\* One handler that never repeats a generation, one execution, two crashes and
\* two failing calls of the store.
SPECIFICATION FreshDaemonSpec
CONSTANTS
    i1 = i1
    good = good
    bad = bad
    Ids = {i1}
    Crons = {good, bad}
    BadCrons = {bad}
    Requests <- MCVersions
    Results <- MCResults
    Execs = {x1}
    MaxHistory = 1
    MaxEntries = 2
    None = None
    Handlers = {h1}
    MaxCrashes = 2
    MaxStoreFailures = 2
    Unknown = Unknown
INVARIANTS
    DaemonTypeOK
    RowsFollowExecutions
    FinishedIsComplete
    StoreAgreesWhenQuiet
    AnswersSurvive
PROPERTIES
    FinalRowsAreFinal
    StartsAreAnswered
    StopEnds
    RunningRowsEnd
