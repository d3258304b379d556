SPECIFICATION FairSpec
CONSTANTS
    fix = fix
    torn = torn
    home = home
    rawHome = rawHome
    Readings = {fix, torn, home, rawHome}
    TimeOf <- MCTimeOf
    Fixes <- MCFixes
    Torn <- MCTorn
    Answers <- MCAnswers
    Endpoints = {1, 2}
    Unlocated <- MCUnlocated
    RawOf <- MCRawOf
    SeenGate <- MCSeenGate
    RecentGate <- MCRecentGate
    CloseGate <- MCCloseGate
    Near <- MCNear
    StaleGate <- MCStaleGate
    SameFix <- MCSameFix
    Filtered <- MCFiltered
    Attempts = 2
    Configs <- MCConfigs
    NoResult = NoResult
    MaxWire = 1
    MaxActs = 2
    NoReading = NoReading
CHECK_DEADLOCK FALSE
INVARIANTS
    RecordIsGrounded
    PollerFollowsConfig
PROPERTIES
    NoRepeatWhileListed
    TickEnds
