SPECIFICATION FairSpec
CONSTANTS
    None = None
    Conn = {c1, c2}
    Flow = {f1, f2}
    Poll = {p1}
    PromptHost = TRUE
    PromptRelay = TRUE
    MaxStarts = 2
    MaxFaults = 1
    MaxJoins = 1
    NSess = 2
    MaxSinks = 2
CHECK_DEADLOCK FALSE

INVARIANTS OneSocket OneSink StopSticks AttachedIsFed
PROPERTIES BridgeReturns ListCatchesUp
