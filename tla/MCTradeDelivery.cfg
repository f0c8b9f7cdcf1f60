SPECIFICATION TradeSpec
CONSTANTS
    MaxAttempts = 2
    Task = {t1}
    MaxGeneration = 3
    Retain = 3
    Batch = 2
    RestLimit = 2
    Keep = 3
    MaxTrade = 4
    MaxSession = 2
    MaxWire = 1
    MaxFault = 1
INVARIANTS
    TradeInv
    SkippedIsExact
PROPERTIES
    AcceptedInForce
    NewestArrives
CHECK_DEADLOCK FALSE
