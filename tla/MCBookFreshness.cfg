SPECIFICATION FSpec
CONSTANTS
    a = a
    Level <- MCLevel
    MaxLots = 2
    ValidBooks <- MCValidBooks
    Retain = 1
    MaxBuffered = 1
    MaxAttempts = 2
    MaxSession = 2
    MaxSeq = 2
    MaxWire = 2
    MaxEnv = 2
    MaxGeneration = 12
PROPERTIES
    Converges
    ResyncOnlyBehind
    ImplementsReplica
CHECK_DEADLOCK FALSE
