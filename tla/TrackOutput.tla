---------------------------- MODULE TrackOutput ----------------------------
(***************************************************************************)
(* What a track says of its object: the class it has by majority, and the  *)
(* pose that is bound to it (tracking/track_state.py, and _bind_poses of   *)
(* tracking/tracker.py). One update of the tracker is observe, bind the    *)
(* poses one after the other, show. Poses come from the engine, measured   *)
(* in this frame or used again.                                            *)
(*                                                                         *)
(* Which tracks live and which are met is decided in Tracker and is any    *)
(* choice here; a ghost is a track that is not live, with its state. How   *)
(* well a pose and a track overlap is a grade, 0 for less than             *)
(* pose_bind_min_iou.                                                      *)
(***************************************************************************)
EXTENDS Integers, Sequences, FiniteSets, SequencesExt

CONSTANTS
    Tracks,        \* track ids
    Names, Person,  \* class names, _POSE_TRACK_CLASS among them
    VoteHistory, PoseMaxAge,  \* class_vote_history, pose_max_age_ms
    Overlaps,      \* grades of an overlap
    Ticks,         \* time between two updates
    MaxPoses,      \* bound: poses of one frame (max_persons)
    MaxSeen,       \* bound: observations of one track
    MaxClock       \* bound: time

ASSUME OutputAssumption ==
    /\ Person \in Names /\ VoteHistory \in Nat \ {0} /\ PoseMaxAge \in Nat
    /\ Overlaps \subseteq Nat /\ Ticks \subseteq Nat \ {0}
    /\ {MaxPoses, MaxSeen, MaxClock} \subseteq Nat

VARIABLES
    clock,      \* capture_ts of the update under way
    phase,      \* "bind": poses are still to bind; "done": the tracks are shown
    live,       \* the live tracks
    history,    \* track -> class_history, the latest last; empty before its birth
    measured,   \* when the poses the engine has were measured, Never if never
    offered,    \* poses of this update not yet looked at
    isNew,      \* pose_fresh: they were measured in this frame
    pose,       \* track -> [at, isNew]: pose_capture_ts, pose_is_fresh_binding
    output,     \* live track -> its Track
    said,       \* history variable: track -> every class it was ever observed as
    boundAt     \* history variable: track -> [at, clock, isNew] of its last binding

outputVars == <<clock, phase, live, history, measured, offered, isNew, pose, output, said, boundAt>>

Never == -1
NoPose == [at |-> Never, isNew |-> FALSE]
NotBound == [at |-> Never, clock |-> Never, isNew |-> FALSE]

OutputInit ==
    /\ clock = 0 /\ phase = "done" /\ live = {}
    /\ history = [t \in Tracks |-> << >>] /\ said = [t \in Tracks |-> << >>]
    /\ measured = Never /\ offered = 0 /\ isNew = FALSE
    /\ pose = [t \in Tracks |-> NoPose] /\ boundAt = [t \in Tracks |-> NotBound]
    /\ output = << >>

-----------------------------------------------------------------------------
\* majority_class: the class with most votes, the one seen latest among equals.
Votes(h, c) == Cardinality({i \in DOMAIN h : h[i] = c})
Leaders(h) == {i \in DOMAIN h : \A j \in DOMAIN h : Votes(h, h[j]) <= Votes(h, h[i])}
Majority(h) == h[CHOOSE i \in Leaders(h) : \A j \in Leaders(h) : j <= i]

\* record_hit, on a deque with maxlen.
Remembered(h, c) ==
    IF Len(h) < VoteHistory THEN Append(h, c) ELSE Append(Tail(h), c)

\* Tracks are met, each seen as some class, and others are gone for now.
Meet(met, gone, seen) ==
    /\ gone \cap met = {}
    /\ live' = (live \ gone) \cup met
    /\ history' = [t \in Tracks |-> IF t \in met THEN Remembered(history[t], seen[t]) ELSE history[t]]
    /\ said' = [t \in Tracks |-> IF t \in met THEN Append(said[t], seen[t]) ELSE said[t]]

\* An update up to its poses.
Observe ==
    /\ phase = "done" /\ clock < MaxClock
    /\ \E d \in Ticks : clock' = clock + d
    /\ \E met \in SUBSET {t \in Tracks : Len(said[t]) < MaxSeen}, gone \in SUBSET live :
          \E seen \in [met -> Names] : Meet(met, gone, seen)
    \* The engine: no pose, poses of this frame, or those it had.
    /\ \/ offered' = 0 /\ isNew' = TRUE /\ UNCHANGED measured
       \/ offered' \in 1 .. MaxPoses /\ isNew' = TRUE /\ measured' = clock'
       \/ measured # Never /\ offered' \in 1 .. MaxPoses /\ isNew' = FALSE /\ UNCHANGED measured
    /\ phase' = "bind"
    /\ UNCHANGED <<pose, output, boundAt>>

Persons == {t \in live : history[t] # << >> /\ Majority(history[t]) = Person}

\* The track a pose overlaps best, if it is one and the overlap is enough.
BestOf(overlap) ==
    {t \in Persons : overlap[t] > 0 /\ \A u \in Persons \ {t} : overlap[u] < overlap[t]}

\* Mutant: a pose used again counts as measured now.
BoundNow == [at |-> clock, isNew |-> isNew]

\* record_pose: stamped with the time the pose was measured.
Bound == [at |-> measured, isNew |-> isNew]

BindPose ==
    /\ phase = "bind" /\ offered > 0
    /\ \E overlap \in [Persons -> Overlaps] :
          LET best == BestOf(overlap) IN
          /\ pose' = [t \in Tracks |-> IF t \in best THEN Bound ELSE pose[t]]
          /\ boundAt' = [t \in Tracks |-> IF t \in best THEN [at |-> measured, clock |-> clock, isNew |-> isNew]
                                          ELSE boundAt[t]]
    /\ offered' = offered - 1
    /\ UNCHANGED <<clock, phase, live, history, measured, isNew, output, said>>

\* to_track: a pose too old is dropped, and is new only in the frame it was measured in.
Age(t) == clock - pose[t].at
InDate(t) == pose[t].at # Never /\ Age(t) <= PoseMaxAge
IsFresh(t) == pose[t].isNew /\ Age(t) = 0

ToTrack(t) ==
    [class |-> Majority(history[t]),
     at    |-> IF InDate(t) THEN pose[t].at ELSE Never,
     age   |-> IF InDate(t) THEN Age(t) ELSE 0,
     fresh |-> InDate(t) /\ IsFresh(t)]

Show ==
    /\ phase = "bind" /\ offered = 0
    /\ output' = [t \in live |-> ToTrack(t)]
    /\ phase' = "done"
    /\ UNCHANGED <<clock, live, history, measured, offered, isNew, pose, said, boundAt>>

OutputNext == Observe \/ BindPose \/ Show

OutputSpec == OutputInit /\ [][OutputNext]_outputVars

-----------------------------------------------------------------------------
Shown == IF phase = "done" THEN DOMAIN output ELSE {}

\* The class observations of a track that still count.
Counted(t) == LET n == Len(said[t]) IN
    IF n <= VoteHistory THEN 1 .. n ELSE n - VoteHistory + 1 .. n

Said(t, c) == Cardinality({i \in Counted(t) : said[t][i] = c})

(***************************************************************************)
(* The label of a track is what was seen of it: no class was observed more *)
(* often in its last class_vote_history observations, and one as often was *)
(* observed earlier. That holds across coasting and across the life of a   *)
(* ghost, and however many observations have been forgotten.               *)
(***************************************************************************)
LabelsAreMajorities ==
    \A t \in Shown : \E i \in Counted(t) :
        /\ said[t][i] = output[t].class
        /\ \A c \in Names : Said(t, c) <= Said(t, output[t].class)
        /\ \A j \in Counted(t) : j > i => Said(t, said[t][j]) < Said(t, output[t].class)

(***************************************************************************)
(* The age of a pose is counted from when it was measured, however often   *)
(* the engine has handed it out since; it is shown up to pose_max_age_ms   *)
(* and not beyond; it is called fresh in exactly the update in which a     *)
(* pose measured in that frame was bound; and a pose is bound to nothing   *)
(* but a person.                                                           *)
(***************************************************************************)
PosesTellTheirAge ==
    \A t \in Shown :
        LET age == clock - boundAt[t].at IN
        /\ output[t].at # Never =>
              output[t].at = boundAt[t].at /\ output[t].age = age /\ age <= PoseMaxAge
        /\ output[t].at = Never => boundAt[t].at = Never \/ age > PoseMaxAge
        /\ output[t].fresh <=> boundAt[t].isNew /\ boundAt[t].clock = clock
        /\ boundAt[t].clock = clock => output[t].class = Person

\* Together: what is said of a track was observed, and is as old as is said.
TracksSayWhatWasSeen == LabelsAreMajorities /\ PosesTellTheirAge
=============================================================================
