CONSTANTS
    Items <- TwoImages
    MaxCuts = 0
SPECIFICATION Spec
INVARIANT
    DrawnBoxKept
CHECK_DEADLOCK FALSE
