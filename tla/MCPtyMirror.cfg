SPECIFICATION FairMirrorSpec
CONSTANTS
    RingCap = 2
    ChanCap = 1
    FullScreen = FALSE
    MaxOut = 3
    MaxFaults = 1
CHECK_DEADLOCK FALSE
INVARIANTS NoSilentGap
PROPERTY Heals
