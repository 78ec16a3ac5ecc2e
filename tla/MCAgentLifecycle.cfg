SPECIFICATION FairSpec
CONSTANTS
    None = None
    Off = Off
    Flow = {f1, f2, f3}
    Handle = {h1, h2, h3}
    Prompt = TRUE
    Failures = TRUE
    MaxChanges = 2
    MaxToggles = 3
    MaxReloads = 1
    MaxRefusals = 1
    Configured = {0, 1}
CHECK_DEADLOCK FALSE
INVARIANTS AtMostOneAgent DisconnectSticks NoLostAgent
PROPERTIES DeadAgentReplaced
