SPECIFICATION Spec
CONSTANTS
    Timeout = 3
    SampleAge = 4
    MaxInFlight = 2
    MaxSuccesses = 2
    PingEvery = 1
    ReportEvery = 2
    Delay = 3
    MaxDelayed = 2
    MissingStep = 5
    MaxTime = 10
    MaxEpoch = 2
    MaxEnv = 4
INVARIANTS
    SamplesAreTrue
    ReportsAreFresh
    PromptPageIsHeard
CHECK_DEADLOCK FALSE
