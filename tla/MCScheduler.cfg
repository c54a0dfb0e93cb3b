\* Two ids in several generations and two executions; the history holds one.
SPECIFICATION FairSpec
CONSTANTS
    i1 = i1
    i2 = i2
    good = good
    bad = bad
    Ids = {i1, i2}
    Crons = {good, bad}
    BadCrons = {bad}
    Requests <- MCRequests
    Results <- MCResults
    Execs = {x1, x2}
    MaxHistory = 1
    MaxEntries = 3
    None = None
INVARIANTS
    TypeOK
    TableMatchesAssignments
    OneRunPerEntry
    HistoryTracksRuns
PROPERTIES
    ImplementsService
    RunsEnd
