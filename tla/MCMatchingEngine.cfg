SPECIFICATION Spec
CONSTANTS
    MinPrice = 1
    MaxPrice = 3
    MaxOrderLots = 2
    MaxLevelLots = 3
    MaxOrders = 3
    MaxSafe = 7
INVARIANTS
    NotCrossed
    RecordsAgree
    FeedReproducesBook
PROPERTIES
    PriceTimePriority
CHECK_DEADLOCK FALSE
