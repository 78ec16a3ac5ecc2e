SPECIFICATION FairSpec
CONSTANTS
    Pty = {p1}
    Ssh = {s1}
    None = None
    PipeCap = 3
    MaxFrames = 3
    MaxFlight = 2
    MaxUpsets = 1
CHECK_DEADLOCK FALSE
INVARIANTS KeysInOrder
PROPERTY LoopFreed
