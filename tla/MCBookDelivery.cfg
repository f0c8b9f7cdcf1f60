SPECIFICATION Spec
CONSTANTS
    a = a
    b = b
    Level <- MCLevel
    MaxLots = 1
    ValidBooks <- MCValidBooks
    Retain = 2
    MaxBuffered = 1
    MaxAttempts = 2
    MaxSession = 2
    MaxSeq = 3
    MaxWire = 2
    MaxEnv = 1
    MaxGeneration = 4
SYMMETRY MCSymmetry
INVARIANTS
    ShownBookIsPublished
    GapOnlyAfterDrop
    PublishedDataIsAccepted
CHECK_DEADLOCK FALSE
