CONSTANTS
    Pages = {p1, p2}
    StopOnEnter = {TRUE}
    Orders = {FALSE}
    MaxLosses = 0
SPECIFICATION StudioSpec
INVARIANT
    NothingDetectsWhileOpen
CHECK_DEADLOCK FALSE
