SPECIFICATION FairSpec
CONSTANTS
    r1 = r1
    r2 = r2
    r3 = r3
    Req <- MCReq
    OpenReq <- MCOpenReq
    NativeAgent = TRUE
    FailLimit = 2
    LockSteps = 1
    MaxLock = 2
    KeptSteps = 2
    MaxClock = 2
    MaxCuts = 1
    MaxRestarts = 1
INVARIANTS OtpOnce AnswerTrue
PROPERTIES Answered
CHECK_DEADLOCK FALSE
