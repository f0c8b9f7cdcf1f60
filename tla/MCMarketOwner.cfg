SPECIFICATION Spec
CONSTANTS
    Caller = {c1, c2}
    QueueSize = 2
    MaxCaptures = 1
    Warmup = 1
    MaxRev = 3
INVARIANTS
    ClockWaitsAtMost
PROPERTIES
    AnswersMatchPublication
    CapturesEnd
CHECK_DEADLOCK FALSE
