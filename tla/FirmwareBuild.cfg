SPECIFICATION FairSpec
CONSTANTS
    k1 = k1
    k2 = k2
    Keys = {k1, k2}
    None = None
    Keep = 1
    OldBuilds = 2
    MaxBuilds = 3
    MaxKills = 1
    IdleTtl = TRUE
CHECK_DEADLOCK FALSE
INVARIANTS
    WholeUnlessCut
    SandboxesBounded
PROPERTIES
    ImplementsBuildJob
