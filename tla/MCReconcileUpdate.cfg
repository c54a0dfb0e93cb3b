\* One schedule on one runner, created and then updated.
SPECIFICATION FairReconcileSpec
CONSTANTS
    Schedules = {s1}
    Runners = {r1}
    Specs = {v1, v2}
    BadSpecs = {}
    Labels = {}
    TokenLabels <- MCLabels
    ConfigLabels <- MCLabels
    Placers = {p1}
    MaxEdits = 2
    MaxFaults = 0
    MaxRunnerRestarts = 0
    MaxDaemonRestarts = 0
    Times = {1, 2}
    Null = Null
PROPERTIES
    DesiredIsInstalled
