\* Two schedules on one runner, in three versions of which one is refused, with
\* one lost call and one restart of each process.
SPECIFICATION PlacedReconcileSpec
CONSTANTS
    Schedules = {s1, s2}
    Runners = {r1}
    Specs = {v1, v2, v3}
    BadSpecs = {v3}
    Labels = {}
    TokenLabels <- MCLabels
    ConfigLabels <- MCLabels
    Placers = {p1}
    MaxEdits = 2
    MaxFaults = 1
    MaxRunnerRestarts = 1
    MaxDaemonRestarts = 1
    Times = {1, 2}
    Null = Null
PROPERTIES
    DesiredIsInstalled
    PendingIsHandled
