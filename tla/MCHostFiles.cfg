SPECIFICATION FairSpec
CONSTANTS
    ctl = ctl
    runner = runner
    Binaries = {ctl, runner}
    N = 2
    Order <- MCOrder
    Releases = {v1, v2}
    Files = {f1}
    Keys = {k1}
    NoKey = NoKey
    Partial = Partial
    Null = Null
    MaxFaults = 2
    MaxCrashes = 1
INVARIANTS
    TypeOK
    SuccessMeansAll
PROPERTIES
    NothingLost
    ConfigIsWhole
    UpdateCompletes
