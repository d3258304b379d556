SPECIFICATION FairSpec
CONSTANTS
    Thresholds = {1, 2}
    Repeats = {2}
    SweepInterval = 2
    Cap = 4
    None = None
CHECK_DEADLOCK FALSE
PROPERTIES
    EveryStaleDeviceIsAlerted
