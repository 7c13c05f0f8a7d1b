---------------------------- MODULE MCPerception ----------------------------
(***************************************************************************)
(* What the server makes of frames: how it starts (Startup), the engine    *)
(* and its pose reuse (PerceptionEngine), the tracker (Tracker) and what   *)
(* it says of its tracks (TrackOutput), and what is told to the user       *)
(* (Recognition). They share no state, so a behaviour is of one of them,   *)
(* `part`, while the others rest in an initial state.                      *)
(***************************************************************************)
EXTENDS Tracker, TrackOutput, PerceptionEngine, Recognition, Startup

VARIABLE part

\* Tracker.
EvenAndSkipping == {[frames |-> 1, ms |-> 1], [frames |-> 2, ms |-> 4]}

\* PerceptionEngine: clips of three frames, 40 ms or 300 ms apart or of unknown time.
ClipFrames == [pos : {0, 40, 300}, person : BOOLEAN, pose : PoseOutcomes]
ShortClips == [1 .. 3 -> ClipFrames]
ThreeCadences == {<<"every_frame", 1>>, <<"every_n", 2>>, <<"interval_ms", 100>>}

\* Recognition: a class of each tier, scores below, at and above the thresholds.
Detected(class, tier, scores, small, close) ==
    [class : {class}, tier : {tier}, score : scores, small : {small}, close : {close}]
SmallKinds == UNION {
    Detected("cup", "primary", 1..2, FALSE, FALSE), Detected("cup", "primary", {2}, FALSE, TRUE),
    Detected("kite", "implausible", 1..2, FALSE, FALSE), Detected("vase", "secondary", {1}, FALSE, FALSE)}
LowForVases == [c \in {"cup", "kite", "vase"} |-> IF c = "vase" THEN 1 ELSE 2]

\* Startup: machines with and without an accelerator, one that is broken, with a
\* model missing, with a locked data directory, without a camera.
SomeMachines ==
    [present : {{"cpu"}, {"cuda", "cpu"}, {"directml", "cpu"}}, broken : {{}, {"cuda"}},
     weights : {{"detector", "pose"}, {"detector"}}, locked : BOOLEAN, camera : BOOLEAN]
SomeProfiles ==
    [kind : {"synthetic"}, owner : {"browser", "backend"}, provider : {"auto", "cuda"},
     wants : {{"pose"}, {"detector", "pose"}}, classifier : BOOLEAN, studio : BOOLEAN]
Row(v, active) == [version |-> v, active |-> active, files |-> {"onnx"}, hashes |-> TRUE]
SomeRegistries ==
    {[readable |-> TRUE, rows |-> <<Row("m1", TRUE), Row("m2", FALSE)>>],
     [readable |-> FALSE, rows |-> <<Row("m1", TRUE), Row("m2", TRUE)>>]}
SomeEntries ==
    {[version |-> "none", loads |-> FALSE], [version |-> "c1", loads |-> TRUE],
     [version |-> "c2", loads |-> FALSE]}

Is(p) == part = p
Members == {"tracker", "output", "engine", "recognition", "startup"}

\* The choices a part makes at the start, settled while it rests.
Rests(p) ==
    CASE p = "tracker"     -> window = 2
      [] p = "output"      -> TRUE
      [] p = "engine"      -> mode = "live" /\ cadence = <<"every_n", 2>> /\ gate = TRUE
      [] p = "recognition" -> task = "track" /\ input = [b \in Boxes \X Boxes |-> 0]
      [] p = "startup"     -> /\ machine = CHOOSE m \in SomeMachines : TRUE
                              /\ profile = CHOOSE c \in SomeProfiles : TRUE
                              /\ flag = NoFlag
                              /\ registry = CHOOSE r \in SomeRegistries : TRUE
                              /\ entry = CHOOSE e \in SomeEntries : TRUE

MixedInit ==
    /\ part \in Members
    /\ \A p \in Members : Is(p) \/ Rests(p)
    /\ TrackerInit /\ OutputInit /\ PerceptionInit /\ RecognitionInit /\ StartupInit

MixedNext ==
    \/ Is("tracker") /\ TrackerNext
       /\ UNCHANGED <<outputVars, perceptionVars, recognitionVars, startupVars, part>>
    \/ Is("output") /\ OutputNext
       /\ UNCHANGED <<trackerVars, perceptionVars, recognitionVars, startupVars, part>>
    \/ Is("engine") /\ PerceptionNext
       /\ UNCHANGED <<trackerVars, outputVars, recognitionVars, startupVars, part>>
    \/ Is("recognition") /\ RecognitionNext
       /\ UNCHANGED <<trackerVars, outputVars, perceptionVars, startupVars, part>>
    \/ Is("startup") /\ StartupNext
       /\ UNCHANGED <<trackerVars, outputVars, perceptionVars, recognitionVars, part>>

MixedSpec ==
    MixedInit /\ [][MixedNext]_<<trackerVars, outputVars, perceptionVars, recognitionVars, startupVars, part>>
=============================================================================
