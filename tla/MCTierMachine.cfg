SPECIFICATION TierSpec
CONSTANTS
    DowngradeDwell = 2
    UpgradeDwell = 4
    MissingStep = 3
    MissingMinimal = 5
    HiddenCloseAfter = 5
    MaxWriteTime = 3
    Flush <- MCFlush
    MaxEnv = 2
INVARIANTS
    SilenceCapsTier
PROPERTIES
    Hysteresis
    FlushesContinue
    GoodLinkEndsFull
CHECK_DEADLOCK FALSE
