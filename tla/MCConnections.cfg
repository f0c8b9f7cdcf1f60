SPECIFICATION ConnSpec
CONSTANTS
    Handler = {h1, h2}
    MaxConnections = 1
    ControlsSize = 1
INVARIANTS
    SlotsAgree
    NothingLeft
    ShutdownIsTold
PROPERTIES
    SlotsAreFreed
CHECK_DEADLOCK FALSE
