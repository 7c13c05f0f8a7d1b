--------------------------- MODULE PerceptionEngine ---------------------------
(***************************************************************************)
(* The perception engine (perception/engine.py): one detector, one pose    *)
(* estimator that runs at a cadence, and the poses it reuses in between.   *)
(* Its users are the analysis loop (pipeline/loop.py), with camera time,   *)
(* and the recorded driver (pipeline/recorded.py), with the timestamps of  *)
(* a file (camera/file_source.py).                                         *)
(*                                                                         *)
(* Three ways to run: "live", the loop alone; "script", the driver with an *)
(* engine of its own (scripts/run_recorded.py); "api", POST /api/analyze,  *)
(* which runs the driver on the event loop with the engine of the running  *)
(* analysis thread. Every read and write of the reuse state is a step.     *)
(***************************************************************************)
EXTENDS Integers, Sequences, FiniteSetsExt

CONSTANTS
    Modes,         \* how the engine is used: subset of {"live", "script", "api"}
    Cadences,      \* pose cadences to consider
    Clips,         \* files to analyse: sequences of frames [pos, person, pose]
    Fps,           \* nominal frame rate of the files, 0 if the container gives none
    MaxReuse,      \* pose_max_reuse_ms
    LiveEpoch,     \* camera time of the first live frame
    MaxLive        \* bound: live frames

\* PerceptionConfig.pose_cadence_spec: the kind and its value.
CadenceSpecs == {<<"every_frame", 1>>} \cup ({"every_n", "interval_ms"} \X (Nat \ {0}))

ASSUME PerceptionAssumption ==
    /\ Modes \subseteq {"live", "script", "api"} /\ Cadences \subseteq CadenceSpecs
    /\ Fps \in Nat /\ MaxReuse \in Nat \ {0} /\ LiveEpoch \in Nat /\ MaxLive \in Nat

Users == {"live", "recorded"}
\* What the pose model makes of a frame: poses, none, or an exception.
PoseOutcomes == {"some", "none", "fails"}
NoPoses == [by |-> "nobody", id |-> -1]
NoTime == -1

VARIABLES
    mode, cadence, gate, clip,  \* how it is run: fixed
    lastPoses, lastId, lastTs,  \* the engine's reuse state
    counter,                    \* _frame_counter
    infer,                      \* per user: the frame being inferred
    liveFrames,                 \* frames the loop has taken
    liveTime,                   \* capture time of the newest of them
    position,                   \* FileSource: frames read
    lastPts,                    \* FileSource._last_pts_s
    lines,                      \* the JSONL file
    manifest,                   \* the run manifest is written
    newest                      \* history: per user, its newest successful pose inference

settings == <<mode, cadence, gate, clip>>
reuseState == <<lastPoses, lastId, lastTs>>
perceptionVars == <<settings, reuseState, counter, infer, liveFrames, liveTime, position,
                    lastPts, lines, manifest, newest>>

NoInference == [id |-> -1, ts |-> NoTime, poses |-> NoPoses]
NoFrame == [id |-> -1, ts |-> NoTime, person |-> FALSE, pose |-> "none"]
Idle == [at |-> "idle", frame |-> NoFrame, idx |-> 0, reused |-> FALSE,
         poses |-> NoPoses, id |-> -1, ts |-> NoTime]

PerceptionInit ==
    /\ mode \in Modes /\ cadence \in Cadences /\ gate \in BOOLEAN
    /\ clip \in IF mode = "live" THEN {<< >>} ELSE Clips
    /\ lastPoses = NoPoses /\ lastId = -1 /\ lastTs = NoTime
    /\ counter = -1
    /\ infer = [u \in Users |-> Idle]
    /\ liveFrames = 0 /\ liveTime = LiveEpoch
    /\ position = 0 /\ lastPts = 0 /\ lines = << >> /\ manifest = FALSE
    /\ newest = [u \in Users |-> NoInference]

At(u, step) == infer[u].at = step

-----------------------------------------------------------------------------
\* FileSource.

\* Presentation time of frame i, when the container puts it at pos (0: unknown)
\* and the frame before was given `last`: a time that does not grow is replaced
\* by the nominal one, and without a frame rate by the last.
Pts(i, pos, last) ==
    IF pos > 0 /\ (i = 0 \/ pos > last) THEN pos
    ELSE IF Fps > 0 THEN i * (1000 \div Fps)
    ELSE last

EndOfFile == position = Len(clip)

-----------------------------------------------------------------------------
\* PerceptionEngine.infer. It reaches the detector with the frame's index: the
\* recorded driver's own, the engine's counter for the loop.
Start(u, frame) ==
    /\ counter' = counter + 1
    /\ infer' = [infer EXCEPT ![u] = [Idle EXCEPT !.at = "cadence", !.frame = frame,
                                          !.idx = IF u = "live" THEN counter' ELSE frame.id]]

TakeLiveFrame ==
    /\ mode \in {"live", "api"} /\ At("live", "idle") /\ liveFrames < MaxLive
    /\ \E gap \in 1 .. 2, person \in BOOLEAN, pose \in PoseOutcomes :
        /\ liveTime' = liveTime + gap * 50
        /\ Start("live", [id |-> liveFrames, ts |-> liveTime', person |-> person, pose |-> pose])
    /\ liveFrames' = liveFrames + 1
    /\ UNCHANGED <<settings, reuseState, position, lastPts, lines, manifest, newest>>

ReadFile ==
    /\ mode \in {"script", "api"} /\ At("recorded", "idle") /\ ~EndOfFile
    /\ LET f == clip[position + 1]
           ts == Pts(position, f.pos, lastPts)
       IN  /\ lastPts' = ts
           /\ Start("recorded", [id |-> position, ts |-> ts, person |-> f.person, pose |-> f.pose])
    /\ position' = position + 1
    /\ UNCHANGED <<settings, reuseState, liveFrames, liveTime, lines, manifest, newest>>

\* _pose_cadence_due; `ran` is the capture time of the last pose inference.
PoseDue(idx, ts, ran) ==
    CASE cadence[1] = "every_frame" -> TRUE
      [] cadence[1] = "every_n" -> idx % cadence[2] = 0
      [] OTHER -> ran = NoTime \/ ts - ran >= cadence[2]

GateOpen(frame) == gate => frame.person

\* Detection is done: is pose due for this frame, and worth it?
DecidePose(u) ==
    /\ At(u, "cadence")
    /\ LET j == infer[u] IN
        infer' = [infer EXCEPT ![u].at =
            IF PoseDue(j.idx, j.frame.ts, lastTs) /\ GateOpen(j.frame) THEN "pose" ELSE "reuse"]
    /\ UNCHANGED <<settings, reuseState, counter, liveFrames, liveTime, position, lastPts, lines, manifest, newest>>

PosesOf(u, frame) == IF frame.pose = "some" THEN [by |-> u, id |-> frame.id] ELSE NoPoses

\* self._last_poses = poses
PosesKept(found) == found

\* The pose model ran. Its three results are stored one after the other; an
\* exception stores none of them.
RunPose(u) ==
    /\ At(u, "pose")
    /\ LET f == infer[u].frame
           found == PosesOf(u, f)
       IN IF f.pose = "fails"
            THEN /\ infer' = [infer EXCEPT ![u].at = "done"]
                 /\ UNCHANGED <<lastPoses, newest>>
            ELSE /\ infer' = [infer EXCEPT ![u].at = "storeId", ![u].poses = found]
                 /\ lastPoses' = PosesKept(found)
                 /\ newest' = [newest EXCEPT ![u] = [id |-> f.id, ts |-> f.ts, poses |-> found]]
    /\ UNCHANGED <<settings, lastId, lastTs, counter, liveFrames, liveTime, position, lastPts, lines, manifest>>

StoreId(u) ==
    /\ At(u, "storeId")
    /\ lastId' = infer[u].frame.id
    /\ infer' = [infer EXCEPT ![u].at = "storeTs"]
    /\ UNCHANGED <<settings, lastPoses, lastTs, counter, liveFrames, liveTime, position, lastPts, lines, manifest, newest>>

StoreTs(u) ==
    /\ At(u, "storeTs")
    /\ lastTs' = infer[u].frame.ts
    /\ infer' = [infer EXCEPT ![u].at = "done"]
    /\ UNCHANGED <<settings, lastPoses, lastId, counter, liveFrames, liveTime, position, lastPts, lines, manifest, newest>>

\* Mutant: a time that runs backwards counts as recent.
NotTooOld(age) == age <= MaxReuse

Reusable(age) == age \in 0 .. MaxReuse

\* Pose did not run: the last poses are looked at, and judged by their age.
CheckReuse(u) ==
    /\ At(u, "reuse")
    /\ infer' = [infer EXCEPT ![u].at =
        IF lastPoses /= NoPoses /\ lastTs /= NoTime /\ Reusable(infer[u].frame.ts - lastTs)
        THEN "takePoses" ELSE "done"]
    /\ UNCHANGED <<settings, reuseState, counter, liveFrames, liveTime, position, lastPts, lines, manifest, newest>>

TakePoses(u) ==
    /\ At(u, "takePoses")
    /\ infer' = [infer EXCEPT ![u].at = "takeId", ![u].poses = lastPoses, ![u].reused = TRUE]
    /\ UNCHANGED <<settings, reuseState, counter, liveFrames, liveTime, position, lastPts, lines, manifest, newest>>

TakeId(u) ==
    /\ At(u, "takeId")
    /\ infer' = [infer EXCEPT ![u].at = "takeTs", ![u].id = lastId]
    /\ UNCHANGED <<settings, reuseState, counter, liveFrames, liveTime, position, lastPts, lines, manifest, newest>>

TakeTs(u) ==
    /\ At(u, "takeTs")
    /\ infer' = [infer EXCEPT ![u].at = "done", ![u].ts = lastTs]
    /\ UNCHANGED <<settings, reuseState, counter, liveFrames, liveTime, position, lastPts, lines, manifest, newest>>

Infer(u) ==
    \/ DecidePose(u) \/ RunPose(u) \/ StoreId(u) \/ StoreTs(u)
    \/ CheckReuse(u) \/ TakePoses(u) \/ TakeId(u) \/ TakeTs(u)

-----------------------------------------------------------------------------
\* What the users do with the result.

\* _run_perception returns it to the loop, which publishes and forgets it.
PublishLive ==
    /\ At("live", "done")
    /\ infer' = [infer EXCEPT !["live"] = Idle]
    /\ UNCHANGED <<settings, reuseState, counter, liveFrames, liveTime, position, lastPts, lines, manifest, newest>>

Line(ts, poses) == [ts |-> ts, poses |-> poses]

\* RecordedDriver.run: one line for each frame of the file, none dropped.
WriteLine ==
    /\ At("recorded", "done")
    /\ lines' = Append(lines, Line(infer["recorded"].frame.ts, infer["recorded"].poses))
    /\ infer' = [infer EXCEPT !["recorded"] = Idle]
    /\ UNCHANGED <<settings, reuseState, counter, liveFrames, liveTime, position, lastPts, manifest, newest>>

\* read() returns None: the file is closed and the manifest written.
EndRun ==
    /\ mode \in {"script", "api"} /\ At("recorded", "idle") /\ EndOfFile /\ ~manifest
    /\ manifest' = TRUE
    /\ UNCHANGED <<settings, reuseState, counter, infer, liveFrames, liveTime, position, lastPts, lines, newest>>

PerceptionNext ==
    \/ TakeLiveFrame \/ PublishLive
    \/ ReadFile \/ WriteLine \/ EndRun
    \/ \E u \in Users : Infer(u)

PerceptionSpec == PerceptionInit /\ [][PerceptionNext]_perceptionVars

-----------------------------------------------------------------------------
\* Properties.

\* Poses that are reused are the newest this stream inferred, labelled with the
\* frame and the time they came from, and no older than pose_max_reuse_ms.
ReuseIsSound ==
    \A u \in Users : (At(u, "done") /\ infer[u].reused) =>
        /\ newest[u] = [id |-> infer[u].id, ts |-> infer[u].ts, poses |-> infer[u].poses]
        /\ infer[u].frame.ts - infer[u].ts \in 0 .. MaxReuse

\* What a recorded run must say of a file, from the file and the settings alone.
\* refTs: the time of each frame. refLast: the last frame whose pose inference
\* succeeded, up to each frame (-1: none).
refTs[i \in Nat] == Pts(i, clip[i + 1].pos, IF i = 0 THEN 0 ELSE refTs[i - 1])
RefRuns(i, last) ==
    /\ PoseDue(i, refTs[i], IF last = -1 THEN NoTime ELSE refTs[last])
    /\ GateOpen(clip[i + 1])
refLast[i \in Nat] ==
    LET before == IF i = 0 THEN -1 ELSE refLast[i - 1]
    IN IF RefRuns(i, before) /\ clip[i + 1].pose /= "fails" THEN i ELSE before
RefPoses(i) ==
    LET before == IF i = 0 THEN -1 ELSE refLast[i - 1]
        from == IF RefRuns(i, before) THEN i ELSE before
    IN IF from /= -1 /\ clip[from + 1].pose = "some" /\ refTs[i] - refTs[from] \in 0 .. MaxReuse
         THEN [by |-> "recorded", id |-> from] ELSE NoPoses

\* "Two runs over the same file produce byte-identical JSONL": every line of a
\* recorded run is the one the file and the settings determine, and a run with a
\* manifest has a line for every frame.
RecordedRepeats ==
    /\ \A i \in 1 .. Len(lines) : lines[i] = Line(refTs[i - 1], RefPoses(i - 1))
    /\ manifest => Len(lines) = Len(clip)
=============================================================================
