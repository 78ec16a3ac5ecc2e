SPECIFICATION FairSpec
CONSTANTS
    b1 = b1
    Browser = {b1}
    Req <- MCReq
    None = None
    OneForm = TRUE
    SESSION_TTL = 0
    MaxClock = 1
    MaxHash = 2
    MaxFaults = 1
INVARIANTS ChangerStays
PROPERTIES SessionSticks FormFreed
CHECK_DEADLOCK FALSE
