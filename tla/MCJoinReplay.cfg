SPECIFICATION JoinSpec
CONSTANTS
    Nothing = Nothing
    Client = {c1, c2}
    Spaced = TRUE
    MaxTabs = 1
    MaxArrivals = 3
    MaxLinks = 2
    MaxWire = 2
CHECK_DEADLOCK FALSE
SYMMETRY MCSymmetry
INVARIANTS NewcomerIsGreeted
