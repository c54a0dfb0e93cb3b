\* Two placements at once on one runner.
SPECIFICATION FairReconcileSpec
CONSTANTS
    Schedules = {s1, s2}
    Runners = {r1}
    Specs = {v1}
    BadSpecs = {}
    Labels = {}
    TokenLabels <- MCLabels
    ConfigLabels <- MCLabels
    Placers = {p1, p2}
    MaxEdits = 2
    MaxFaults = 0
    MaxRunnerRestarts = 0
    MaxDaemonRestarts = 0
    Times = {1, 2}
    Null = Null
PROPERTIES
    PendingIsHandled
