CONSTANTS
    Uploads = {u1, u2}
    MaxLives = 2
    MaxSamples = 2
    MaxFaults = 1
    NImages = 2
    MaxCrashes = 0
    NTasks = 2
    MaxPresses = 2
    MaxDrawn = 1
    Versions = {v1, v2}
    Scripts = {s1, s2}
    NoVersion = NoVersion
    MaxScripts = 5
    Images = {1, 2, 3}
    Classes = {1, 2}
    Contents <- SomeContents
    Nears <- SomeNears
    TrainPct = 70
    ValPct = 15
    EvalPct = 50
    MinTrain = 1
    MaxBuilds = 1
    Externals = {1, 2, 3}
    PsClasses = {"cup", "mug"}
    NoClass = "none"
    Looks = {0, 1}
    DuplicateDistance = 1
    Downloads <- SomeDownloads
    MaxAdded = 2
    MaxRuns = 2
    HardLimit = 2
    MinSamples = 1
    Shots = {1, 2, 3, 4}
    SessionOf <- Recordings
    Revisions = {0, 1}
    Deals <- TwoDeals
    MaxRelabels = 1
    MaxRounds = 4
SPECIFICATION LabelsSpec
INVARIANT BoxesOnTheirFrame
CHECK_DEADLOCK FALSE
