SPECIFICATION FairPtySpec
CONSTANTS
    Session = {s1, s2}
    Desktop = {s1}
    Cap = 1
    MaxOpens = 1
    MaxEvents = 1
CHECK_DEADLOCK FALSE
INVARIANTS PublishedIsTable
PROPERTIES LiveIsMirrored GoneDisappears
