SPECIFICATION Spec
CONSTANTS
    LiveOffset = 1
    Interval = {"1s", "1m"}
    MaxCandles = 3
    HistoryLimit = 2
    Warm = 1
    MaxTime = 4
    MaxMoves = 2
INVARIANTS
    FirstHistoryKeepsPlace
CHECK_DEADLOCK FALSE
