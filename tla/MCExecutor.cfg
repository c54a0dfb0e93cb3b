\* Two children, and output of up to twice the limit.
SPECIFICATION Spec
CONSTANTS
    Leader = leader
    Children = {c1, c2}
    Limit = 2
    MaxOutput = 4
INVARIANTS
    TypeOK
    CapturesTail
    ReturnsWhole
    KilledIsTimedOut
PROPERTIES
    TimeoutEndsLeader
CHECK_DEADLOCK FALSE
