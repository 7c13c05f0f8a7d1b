CONSTANTS
    MaxFrames = 4
    Schedulers <- BothSchedulers
    AgeGuards = {TRUE}
SPECIFICATION FairSpec
INVARIANTS
    CountersTrue
    InFlightAtMostThree
    PauseOvershootsOnce
    CleanStop
    NoLostWakeup
PROPERTIES
    ImplementsNewestWins
    NewestArrives
    StopEnds
CHECK_DEADLOCK FALSE
