SPECIFICATION FairSpec
CONSTANTS
    c1 = c1
    c2 = c2
    k1 = k1
    k2 = k2
    Callers = {c1, c2}
    Keys = {k1, k2}
    MaxJobs = 3
    KeyOf <- MCKeyOf
    Permits = 2
    NoJob = 0
    Requests <- MCRequests
    MaxPushes <- MCMaxPushes
    NoPush = 0
INVARIANTS
    SingleFlight
    PermitsConserved
    BackendLoad
    NoLostPush
PROPERTIES
    EveryCallerReturns
CHECK_DEADLOCK FALSE
