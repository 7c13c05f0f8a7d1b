CONSTANTS
    BatchSize = 2
    MaxBatches = 2
    MaxAsks = 4
    MaxRefusals = 0
SPECIFICATION ReviewerSpec
INVARIANT ConfirmedWasSeen
CHECK_DEADLOCK FALSE
