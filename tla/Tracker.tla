------------------------------ MODULE Tracker ------------------------------
(***************************************************************************)
(* The life of a track (tracking/tracker.py, tracking/track_state.py):     *)
(* tentative, confirmed, coasting, expired, for a while a ghost, and       *)
(* perhaps reclaimed; and the counters of TrackerStats.                    *)
(*                                                                         *)
(* Boxes, classes and scores decide which detection meets which track; here*)
(* any tracks may be the ones that are met, and any box may be predicted   *)
(* off the frame. A detection is then no more than one of a number.        *)
(***************************************************************************)
EXTENDS Integers, FiniteSets

CONSTANTS
    NInit, MaxAgeFrames, MaxAgeMs, BorderMaxAge, MaxTracks,   \* TrackingConfig
    Windows,    \* reassoc_window_frames, values to consider
    Paces,      \* [frames, ms] between two updates: frame_id and capture_ts
    MaxHigh,    \* bound: detections above high_score_split in one update
    MaxLow,     \* bound: detections below it
    MaxCycles   \* bound: updates

\* TrackingConfig: what it accepts of the fields that steer a track's life.
TrackingConfig ==
    /\ {NInit, MaxAgeFrames, BorderMaxAge, MaxTracks} \subseteq Nat \ {0}
    /\ MaxAgeMs \in Nat
    /\ Windows \subseteq Nat \ {0}

ASSUME TrackingAssumption ==
    /\ TrackingConfig
    /\ \A p \in Paces : p.frames \in Nat \ {0} /\ p.ms \in Int
    /\ MaxHigh \in Nat /\ MaxLow \in Nat /\ MaxCycles \in Nat

VARIABLES
    window,     \* reassoc_window_frames, fixed for a behaviour
    cycle,      \* updates so far
    frame, now, \* frame_id and capture_ts (ms) of the update under way
    tracks,     \* _tracks: live track id -> its TrackState
    ghosts,     \* _ghosts: [id, track, at, cause]
    nextId,     \* _next_id
    stats,      \* _counts
    pending     \* detections of the update that met no track yet

trackerVars == <<window, cycle, frame, now, tracks, ghosts, nextId, stats, pending>>

Live == DOMAIN tracks
GhostIds == {g.id : g \in ghosts}

TrackerInit ==
    /\ window \in Windows
    /\ cycle = 0 /\ frame = 0 /\ now = 0
    /\ tracks = [id \in {} |-> <<>>]
    /\ ghosts = {}
    /\ nextId = 1
    /\ stats = [created |-> 0, confirmed |-> 0, expired |-> 0, expiredBorder |-> 0,
                reassociated |-> 0, droppedMaxTracks |-> 0]
    /\ pending = 0

---------------------------------------------------------------------------
(* One update() from its inputs to the unmatched detections.                *)

\* record_hit and the promotion of _apply_hit. (hits matters up to n_init only.)
Promoted(hits) == hits >= NInit

Hit(t, f, ts) ==
    LET hits == IF t.hits < NInit THEN t.hits + 1 ELSE t.hits IN
    [t EXCEPT !.hits = hits, !.misses = 0, !.exited = FALSE, !.lastFrame = f, !.lastTs = ts,
              !.status = IF t.status = "tentative" /\ ~Promoted(hits)
                         THEN "tentative" ELSE "confirmed"]

\* _handle_misses for one track; off: its predicted box is off the frame.
Exited(t, off) == t.exited \/ off

\* Mutant: one more miss than the budget.
OneMoreMiss(t, off) ==
    t.misses > IF Exited(t, off) THEN BorderMaxAge ELSE MaxAgeFrames

OutOfFrames(t, off) ==
    t.misses + 1 > IF Exited(t, off) THEN BorderMaxAge ELSE MaxAgeFrames

OutOfTime(t, off, ts) == ~Exited(t, off) /\ ts - t.lastTs > MaxAgeMs

\* A tentative track does not survive a miss.
Expires(t, off, ts) ==
    t.status = "tentative" \/ OutOfFrames(t, off) \/ OutOfTime(t, off, ts)

Coast(t, off) == [t EXCEPT !.misses = @ + 1, !.status = "coasting", !.exited = Exited(t, off)]

\* Only a track that was confirmed and did not leave over the border is kept
\* (tracker.py:274).
LeavesGhost(t, off) == t.status # "tentative" /\ ~Exited(t, off)

\* The ghost's clock starts at the last detection, not at the expiry.
GhostSince(t) == t.lastFrame

Ghost(id, off, ts) ==
    LET t == tracks[id] IN
    [id |-> id, track |-> t, at |-> GhostSince(t),
     cause |-> IF OutOfFrames(t, off) THEN "frames" ELSE "time"]

\* _prune_ghosts.
Pruned(gs, f) == {g \in gs : f - g.at <= window}

\* hit1 and hit2: the tracks met by detections above and, for confirmed and
\* coasting tracks only, below the split. off: predicted off the frame.
Update(high, low, hit1, hit2, off) ==
    LET missed == Live \ (hit1 \union hit2)
        Off(id) == id \in off
        gone == {id \in missed : Expires(tracks[id], Off(id), now')}
    IN
    /\ tracks' = [id \in Live \ gone |->
                    IF id \in missed THEN Coast(tracks[id], Off(id))
                                     ELSE Hit(tracks[id], frame', now')]
    /\ ghosts' = Pruned(ghosts \union
                          {Ghost(id, Off(id), now') :
                             id \in {i \in gone : LeavesGhost(tracks[i], Off(i))}},
                        frame')
    /\ stats' = [stats EXCEPT
                   !.confirmed = @ + Cardinality({id \in Live \ missed :
                         tracks[id].status = "tentative" /\ tracks'[id].status = "confirmed"}),
                   !.expired = @ + Cardinality(gone),
                   !.expiredBorder = @ + Cardinality({id \in gone :
                         IF tracks[id].status = "tentative" THEN Off(id)
                                                            ELSE Exited(tracks[id], Off(id))})]
    /\ pending' = high - Cardinality(hit1)

Cycle ==
    /\ pending = 0 /\ cycle < MaxCycles
    /\ cycle' = cycle + 1
    /\ \E pace \in Paces : frame' = frame + pace.frames /\ now' = now + pace.ms
    /\ \E high \in 0 .. MaxHigh, low \in 0 .. MaxLow, hit1 \in SUBSET Live :
          /\ Cardinality(hit1) <= high
          /\ \E hit2 \in SUBSET {id \in Live \ hit1 : tracks[id].status # "tentative"} :
                /\ Cardinality(hit2) <= low
                /\ \E off \in SUBSET (Live \ (hit1 \union hit2)) :
                      Update(high, low, hit1, hit2, off)
    /\ UNCHANGED <<window, nextId>>

---------------------------------------------------------------------------
(* _reassociate_or_spawn, one unmatched detection after the other.          *)

With(id, t) == [i \in Live \union {id} |-> IF i = id THEN t ELSE tracks[i]]

\* _try_reassociate: the detection scores well enough with a ghost.
\* Mutant: the ghost stays behind.
GhostStays(g) == ghosts

GhostsWithout(g) == {h \in ghosts : h.id # g.id}

Reclaim(g) ==
    /\ pending > 0 /\ g \in ghosts
    /\ ghosts' = GhostsWithout(g)
    /\ tracks' = With(g.id, [Hit(g.track, frame, now) EXCEPT !.status = "confirmed",
                                                            !.back = TRUE])
    /\ stats' = [stats EXCEPT !.reassociated = @ + 1]
    /\ pending' = pending - 1
    /\ UNCHANGED <<window, cycle, frame, now, nextId>>

HasRoom == Cardinality(Live) < MaxTracks

\* It scores with none (there may be none) and starts a track.
NewTrack ==
    [status |-> IF NInit <= 1 THEN "confirmed" ELSE "tentative", hits |-> 1, misses |-> 0,
     exited |-> FALSE, lastFrame |-> frame, lastTs |-> now, born |-> cycle, back |-> FALSE]

Spawn ==
    /\ pending > 0 /\ HasRoom
    /\ tracks' = With(nextId, NewTrack)
    /\ nextId' = nextId + 1
    /\ stats' = [stats EXCEPT !.created = @ + 1,
                              !.confirmed = IF NInit <= 1 THEN @ + 1 ELSE @]
    /\ pending' = pending - 1
    /\ UNCHANGED <<window, cycle, frame, now, ghosts>>

DropDetection ==
    /\ pending > 0 /\ ~HasRoom
    /\ stats' = [stats EXCEPT !.droppedMaxTracks = @ + 1]
    /\ pending' = pending - 1
    /\ UNCHANGED <<window, cycle, frame, now, tracks, ghosts, nextId>>

TrackerNext == Cycle \/ Spawn \/ DropDetection \/ \E g \in ghosts : Reclaim(g)

TrackerSpec == TrackerInit /\ [][TrackerNext]_trackerVars

---------------------------------------------------------------------------
(* Properties. *)

Track ==
    [status : {"tentative", "confirmed", "coasting"}, hits : 1 .. NInit,
     misses : (0 .. MaxAgeFrames) \union (0 .. BorderMaxAge), exited : BOOLEAN,
     lastFrame : Nat, lastTs : Int, born : Nat, back : BOOLEAN]

\* Every variable has its type.
TypeOK ==
    /\ cycle \in 0 .. MaxCycles /\ frame \in Nat /\ now \in Int
    /\ Live \subseteq 1 .. nextId - 1
    /\ \A id \in Live : tracks[id] \in Track
    /\ \A g \in ghosts : g.id \in 1 .. nextId - 1 /\ g.track \in Track /\ g.at \in Nat
    /\ pending \in 0 .. MaxHigh

\* The counters reconcile with the tracks: every life that began, by creation or
\* by re-association, has ended or is one of the live tracks.
LivesBalance ==
    /\ stats.created + stats.reassociated = stats.expired + Cardinality(Live)
    /\ stats.created = nextId - 1
    /\ stats.expiredBorder <= stats.expired

\* An id never stands for two things: no id is live and a ghost at once, and no
\* two ghosts share one.
OneLifePerId ==
    /\ Live \intersect GhostIds = {}
    /\ Cardinality(GhostIds) = Cardinality(ghosts)

\* A tentative track was hit in every update since its birth, and one that is more
\* than tentative was hit n_init times in a row to become so: an interrupted
\* streak is never promoted.
StreakUnbroken ==
    \A id \in Live :
        LET t == tracks[id] IN
        IF t.status = "tentative" THEN t.hits = cycle - t.born + 1 /\ t.hits < NInit
                                  ELSE t.hits = NInit

\* A track coasts within its budget: of misses always, of time unless it left over
\* the border.
CoastsWithinBudget ==
    \A id \in Live :
        LET t == tracks[id] IN
        t.status = "coasting" =>
            /\ t.misses <= IF t.exited THEN BorderMaxAge ELSE MaxAgeFrames
            /\ t.exited \/ now - t.lastTs <= MaxAgeMs

\* An id can come back only within the re-association window, counted from the
\* last detection of its object.
GhostsAreRecent == \A g \in ghosts : frame - g.track.lastFrame <= window

\* With a window no longer than max_age_frames, as shipped, a track that used up
\* its miss budget can never come back; re-association serves only the tracks
\* that ran out of time. The comment at the window says that it serves tracks
\* that left over the border (config/settings.py:481-484); those leave no ghost.
OnlyTimeLeavesGhosts == window <= MaxAgeFrames => \A g \in ghosts : g.cause = "time"

\* However many ids come back, the tracks that never did are at most max_tracks.
NewTracksBounded == Cardinality({id \in Live : ~tracks[id].back}) <= MaxTracks

\* What the comment at max_tracks and the phase 9 report say: the number of
\* tracks is bounded by max_tracks.
TracksBounded == Cardinality(Live) <= MaxTracks

\* Together: what an id stands for, and how it came to be and stays confirmed ...
IdentityIsOneLife == LivesBalance /\ OneLifePerId /\ StreakUnbroken /\ NewTracksBounded

\* ... and how long a track is kept without a detection, live or as a ghost.
TracksInTime == CoastsWithinBudget /\ GhostsAreRecent /\ OnlyTimeLeavesGhosts
=============================================================================
