CONSTANTS
    Initial = 1
    Longest = 3
    MaxCalls = 4
    MaxFlips = 4
    Interval = 2
    Ceiling = 1
    MaxFrames = 8
    MaxOpens = 4
    MaxClips = 2
    MaxChunks = 2
    Objects = {o1, o2}
    NoObject = NoObject
    MaxImages = 2
    MaxPageCalls = 2
    BatchSize = 2
    MaxBatches = 2
    MaxAsks = 5
    MaxRefusals = 0
SPECIFICATION BrowserSpec
INVARIANTS
    CameraReleased
    WireIsTrue
    CaptureIsSound
    PageKeepsWork
    ConfirmedOnItsImage
PROPERTIES
    CameraComesBack
CHECK_DEADLOCK FALSE
