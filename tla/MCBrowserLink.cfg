SPECIFICATION FairSpec
CONSTANTS
    None = None
    Sock = {s1, s2}
    MaxCuts = 1
    MaxDrops = 1
    MaxHosts = 1
    MaxSignOuts = 1
    FirstDelay = 1
    LastDelay = 4
    MaxFlaps = 3
CHECK_DEADLOCK FALSE

INVARIANTS OneLink HostShown
PROPERTIES HealthyKept CutNoticed PageReturns
