\* Two schedules on one runner that loses its label to its first heartbeat, with
\* one lost call and one restart of each process.
SPECIFICATION SteadyReconcileSpec
CONSTANTS
    Schedules = {s1, s2}
    Runners = {r1}
    Specs = {v1, v2}
    BadSpecs = {v2}
    Labels = {zone}
    TokenLabels <- MCLabels
    ConfigLabels <- MCNoLabels
    Placers = {p1}
    MaxEdits = 3
    MaxFaults = 1
    MaxRunnerRestarts = 1
    MaxDaemonRestarts = 1
    Times = {1, 2, 3}
    Null = Null
INVARIANTS
    ReconcileTypeOK
    NoneSkipped
    DaemonNeverAhead
    SettledRowsAgree
SYMMETRY MCSymmetry
