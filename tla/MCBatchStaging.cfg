CONSTANTS
    Items <- TwoImages
    MaxCuts = 1
SPECIFICATION FairSpec
INVARIANTS
    EditsKept
    CommitIsFinal
PROPERTIES
    ProcessingEnds
    ImplementsReviewedBatch
CHECK_DEADLOCK FALSE
