SPECIFICATION Spec
CONSTANTS
    s = s
    m = m
    Interval <- MCInterval
    Boundaries <- MCBoundaries
    DeliveryClosed = 1
    MaxAttempts = 2
    MaxRev = 4
    MaxWire = 2
    MaxEnv = 2
INVARIANTS
    ShownFromSelection
    SettledCandlesAgree
PROPERTIES
    CandlesNeverRewind
    CandlesConverge
CHECK_DEADLOCK FALSE
