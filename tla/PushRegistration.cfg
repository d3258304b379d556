SPECIFICATION PushFairSpec
CONSTANTS
    c1 = c1
    c2 = c2
    Callers = {c1, c2}
    Nobody = Nobody
    Abort = 3
    Retries = 2
    Tries = 2
CHECK_DEADLOCK FALSE
INVARIANTS
    DeadMeansOver
    ListenerHasToken
PROPERTIES
    ImplementsReceiver
    ResetsWhatFailed
    StartsOnQuietClient
    SilenceIsNoticed
    DeadIsRestarted
