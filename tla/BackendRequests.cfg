SPECIFICATION FairRequestSpec
CONSTANTS
    t1 = t1
    t2 = t2
    Callers = {t1, t2}
    BadSettings = BadSettings
    Settings <- MCSettings
    InitialSettings <- MCInitialSettings
    NeverSent = NeverSent
    MaxTime = 3
    MaxCalls = 3
    MaxEdits = 1
    RETRIES = 1
INVARIANTS
    WindowLimit
    RetryBudget
PROPERTIES
    SpreadHolds
    NoVainSleep
    EveryRequestEnds
CHECK_DEADLOCK FALSE
