CONSTANTS
    NInit = 3
    MaxAgeFrames = 2
    MaxAgeMs = 3
    BorderMaxAge = 1
    MaxTracks = 2
    Windows = {2, 4}
    Paces <- EvenAndSkipping
    MaxHigh = 2
    MaxLow = 1
    MaxCycles = 5
    Tracks = {1, 2}
    Names = {"cup", "person"}
    Person = "person"
    VoteHistory = 2
    PoseMaxAge = 2
    Overlaps = {0, 1, 2}
    Ticks = {1, 2}
    MaxPoses = 2
    MaxSeen = 3
    MaxClock = 3
    Modes = {"live", "script"}
    Cadences <- ThreeCadences
    Clips <- ShortClips
    Fps = 10
    MaxReuse = 120
    LiveEpoch = 100000
    MaxLive = 4
    Universe = {"cup", "kite", "vase"}
    Typo = "vaze"
    Entries = 2
    Kinds <- SmallKinds
    NBoxes = 3
    NScored = 2
    Threshold <- LowForVases
    MaxDetections = 2
    Grades = {0, 1, 2}
    Labels = {"cup", "kite"}
    Machines <- SomeMachines
    Profiles <- SomeProfiles
    Flags = {"no", "browser", "device"}
    NoFlag = "no"
    Registries <- SomeRegistries
    RegistryEntries <- SomeEntries
    NoVersion = "none"
    MaxJobs = 1
    MaxEdits = 1
SPECIFICATION MixedSpec
INVARIANTS
    IdentityIsOneLife
    TracksInTime
    TracksSayWhatWasSeen
    ReuseIsSound
    FramesAreReadRight
    ServesAsAsked
CHECK_DEADLOCK FALSE
