SPECIFICATION UploadSpec
CONSTANTS
    t1 = t1
    m1 = m1
    Trackers = {t1}
    Mcus = {m1}
    Period = 2
    Back = 4
    Duration = 10
    Interval = 4
    Drift = 1
    SearchSlots = 2
    ZeroTtl = 5
    ListTtl = 8
    Clocks <- MCClocks
    Biases <- MCBiases
    Delay = 2
    Begin = 6
    End = 12
    Nothing = Nothing
CHECK_DEADLOCK FALSE
INVARIANTS
    EstimatesAreClose
    KnownWhileAnnounced
    McuKnown
CONSTRAINT OneAtATime
