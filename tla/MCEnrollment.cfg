\* Two hosts that may use one token or two, as many runners as tokens.
SPECIFICATION FairSpec
CONSTANTS
    Tokens = {t1, t2}
    Hosts = {h1, h2}
    Runners = {r1, r2}
    Null = Null
    MaxFaults = 1
    MaxEdits = 1
INVARIANTS
    TypeOK
    OneRunnerPerToken
    CredentialsAreUnshared
PROPERTIES
    NoRevival
    RunnersComeAlive
CHECK_DEADLOCK FALSE
