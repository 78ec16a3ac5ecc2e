SPECIFICATION TabsSpec
CONSTANTS
    NTabs = 3
    NFirst = 1
    WsOf <- MCWsOf
    NoTab = NoTab
    PromptRender = TRUE
    OneRequest = TRUE
    Kinds = {"close", "refusal", "end", "repeat", "drag", "loss"}
    MaxRare = 2
    MaxFlight = 2
INVARIANTS ActiveListed ListCurrent NewcomerFocused
PROPERTY OrderKept
CHECK_DEADLOCK FALSE
