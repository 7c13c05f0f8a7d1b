CONSTANTS
    Clients = {c1, c2}
    MaxSnapshots = 3
    Fallbacks = {TRUE, FALSE}
SPECIFICATION FairSpec
INVARIANTS
    NoMissedWake
    OnlyNews
    Balanced
PROPERTIES
    LastValueArrives
CHECK_DEADLOCK FALSE
