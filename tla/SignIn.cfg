SPECIFICATION FairSpec
CONSTANTS
    Runs = {1, 2}
    Polls = {p}
    Threads <- MCThreads
    Loop = Loop
    Nobody = Nobody
CHECK_DEADLOCK FALSE
INVARIANTS
    SignInTypeOK
    OneRunAtATime
PROPERTIES
    AccountBrowsersAlone
    TokenComesWithCredentials
    DoneIsComplete
    SignInEnds
