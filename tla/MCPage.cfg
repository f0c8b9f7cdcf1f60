SPECIFICATION FairPageSpec
CONSTANTS
    MaxEpoch = 2
    MaxAttempts = 2
    MaxNudges = 1
INVARIANTS
    NeverStranded
    LiveIsCurrent
    CachedIsMarked
PROPERTIES
    OpensWhenAllowed
    GetsLive
CHECK_DEADLOCK FALSE
