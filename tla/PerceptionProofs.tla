--------------------------- MODULE PerceptionProofs --------------------------
(***************************************************************************)
(* Proofs about the perception path: Tracker, PerceptionEngine, Startup,   *)
(* Recognition and TrackOutput, for any budgets, limits, paces, machines,  *)
(* configurations and frames.                                              *)
(***************************************************************************)
EXTENDS Tracker, PerceptionEngine, Startup, Recognition, TrackOutput, SequenceTheorems, FiniteSetTheorems, FunctionTheorems, WellFoundedInduction, TLAPS

---------------------------------------------------------------------------
(* The tracker, for any budgets, limits and paces.                         *)

Ghosts == [id : Nat, track : Track, at : Nat, cause : {"frames", "time"}]
Stats == [created : Nat, confirmed : Nat, expired : Nat, expiredBorder : Nat,
          reassociated : Nat, droppedMaxTracks : Nat]

TrackerShape ==
    /\ window \in Nat /\ cycle \in Nat /\ frame \in Nat /\ now \in Int
    /\ nextId \in Nat \ {0} /\ pending \in Int
    /\ Live \subseteq 1 .. nextId - 1
    /\ \A id \in Live : tracks[id] \in Track
    /\ ghosts \subseteq Ghosts /\ \A g \in ghosts : g.id \in 1 .. nextId - 1
    /\ stats \in Stats

\* An id is live or of one ghost: with what is behind the count in OneLifePerId.
OneGhostPerId ==
    /\ Live \intersect GhostIds = {}
    /\ \A g, h \in ghosts : g.id = h.id => g = h

\* A ghost was confirmed once; its clock is its track's.
GhostsAreOfTracks ==
    \A g \in ghosts : g.track.status # "tentative" /\ g.track.hits = NInit /\ g.at = g.track.lastFrame

\* A miss costs at least a frame, so the misses of a track are no more than the
\* frames since its last detection.
MissesTakeFrames == \A id \in Live : tracks[id].lastFrame + tracks[id].misses <= frame

TrackerInv ==
    /\ TrackerShape /\ OneGhostPerId /\ GhostsAreOfTracks /\ MissesTakeFrames
    /\ LivesBalance /\ StreakUnbroken /\ NewTracksBounded /\ TracksInTime

---------------------------------------------------------------------------
(* Finiteness, and what becomes of one track. *)

\* What the configuration gives, unfolded.
LEMMA TrackingConstants ==
    /\ {NInit, MaxAgeFrames, BorderMaxAge, MaxTracks} \subseteq Nat \ {0}
    /\ MaxAgeMs \in Nat
    /\ Windows \subseteq Nat \ {0}
    /\ \A p \in Paces : p.frames \in Nat \ {0} /\ p.ms \in Int
    /\ MaxHigh \in Nat /\ MaxLow \in Nat /\ MaxCycles \in Nat
BY TrackingAssumption DEF TrackingConfig

LEMMA LiveIsFinite ==
    ASSUME TrackerShape
    PROVE  IsFiniteSet(Live) /\ Cardinality(Live) \in Nat
<1>1. IsFiniteSet(1 .. nextId - 1)
  BY FS_Interval DEF TrackerShape
<1> QED BY <1>1, FS_Subset, FS_CardinalityType DEF TrackerShape

LEMMA HitTrack ==
    ASSUME NEW t \in Track, NEW f \in Nat, NEW ts \in Int
    PROVE  /\ Hit(t, f, ts) \in Track
           /\ Hit(t, f, ts).misses = 0 /\ Hit(t, f, ts).lastFrame = f
           /\ Hit(t, f, ts).back = t.back /\ Hit(t, f, ts).born = t.born
           /\ Hit(t, f, ts).status \in {"tentative", "confirmed"}
<1> DEFINE hits == IF t.hits < NInit THEN t.hits + 1 ELSE t.hits
           status == IF t.status = "tentative" /\ ~Promoted(hits) THEN "tentative" ELSE "confirmed"
<1>1. Hit(t, f, ts) = [t EXCEPT !.hits = hits, !.misses = 0, !.exited = FALSE, !.lastFrame = f,
                                !.lastTs = ts, !.status = status]
  BY DEF Hit
<1>2. hits \in 1 .. NInit /\ 0 \in 0 .. MaxAgeFrames /\ status \in {"tentative", "confirmed"}
  BY TrackingConstants DEF Track
<1> HIDE DEF hits, status
<1>3. /\ Hit(t, f, ts).status = status /\ Hit(t, f, ts).hits = hits /\ Hit(t, f, ts).misses = 0
      /\ Hit(t, f, ts).exited = FALSE /\ Hit(t, f, ts).lastFrame = f /\ Hit(t, f, ts).lastTs = ts
      /\ Hit(t, f, ts).born = t.born /\ Hit(t, f, ts).back = t.back
  BY <1>1 DEF Track
<1>4. Hit(t, f, ts) \in Track
  BY <1>1, <1>2 DEF Track
<1> QED BY <1>2, <1>3, <1>4

\* A hit goes on with a streak, and ends it where it is long enough.
LEMMA HitStreak ==
    ASSUME NEW t \in Track, NEW f, NEW ts
    PROVE  /\ t.status = "tentative" /\ t.hits + 1 < NInit =>
                 Hit(t, f, ts).status = "tentative" /\ Hit(t, f, ts).hits = t.hits + 1
           /\ t.status = "tentative" /\ t.hits < NInit /\ ~(t.hits + 1 < NInit) =>
                 Hit(t, f, ts).status = "confirmed" /\ Hit(t, f, ts).hits = NInit
           /\ t.status # "tentative" /\ t.hits = NInit =>
                 Hit(t, f, ts).status = "confirmed" /\ Hit(t, f, ts).hits = NInit
<1> DEFINE hits == IF t.hits < NInit THEN t.hits + 1 ELSE t.hits
           status == IF t.status = "tentative" /\ ~Promoted(hits) THEN "tentative" ELSE "confirmed"
<1>1. Hit(t, f, ts) = [t EXCEPT !.hits = hits, !.misses = 0, !.exited = FALSE, !.lastFrame = f,
                                !.lastTs = ts, !.status = status]
  BY DEF Hit
<1>2. Hit(t, f, ts).hits = hits /\ Hit(t, f, ts).status = status
  BY <1>1 DEF Track
<1>3. t.hits \in Nat /\ NInit \in Nat
  BY TrackingConstants DEF Track
<1> QED BY <1>2, <1>3 DEF Promoted

LEMMA CoastTrack ==
    ASSUME NEW t \in Track, NEW off \in BOOLEAN, ~OutOfFrames(t, off)
    PROVE  /\ Coast(t, off) \in Track
           /\ Coast(t, off).misses = t.misses + 1 /\ Coast(t, off).status = "coasting"
           /\ Coast(t, off).exited = Exited(t, off)
           /\ Coast(t, off).lastFrame = t.lastFrame /\ Coast(t, off).lastTs = t.lastTs
           /\ Coast(t, off).back = t.back /\ Coast(t, off).hits = t.hits
<1>1. Coast(t, off) = [t EXCEPT !.misses = t.misses + 1, !.status = "coasting", !.exited = Exited(t, off)]
  BY DEF Coast, Track
<1>2. Exited(t, off) \in BOOLEAN
  BY DEF Exited, Track
<1>3. t.misses + 1 \in (0 .. MaxAgeFrames) \union (0 .. BorderMaxAge)
  BY TrackingConstants DEF OutOfFrames, Track
<1>4. Coast(t, off) \in Track
  BY <1>1, <1>2, <1>3 DEF Track
<1> QED BY <1>1, <1>4 DEF Track

---------------------------------------------------------------------------
(* The update. *)

LEMMA CycleStep == TrackerInv /\ Cycle => TrackerInv'
<1> SUFFICES ASSUME TrackerInv, Cycle PROVE TrackerInv'
  OBVIOUS
<1>1. PICK pace \in Paces : frame' = frame + pace.frames /\ now' = now + pace.ms
  BY DEF Cycle
<1>2. PICK high \in 0 .. MaxHigh, low \in 0 .. MaxLow, hit1 \in SUBSET Live,
           hit2 \in SUBSET Live, off \in SUBSET Live :
              Update(high, low, hit1, hit2, off)
  BY DEF Cycle
<1> DEFINE missed == Live \ (hit1 \union hit2)
           Off(id) == id \in off
           gone == {id \in missed : Expires(tracks[id], Off(id), now')}
           fresh == {Ghost(id, Off(id), now') : id \in {i \in gone : LeavesGhost(tracks[i], Off(i))}}
<1>3. /\ frame' \in Nat /\ frame' >= frame + 1 /\ frame \in Nat /\ now' \in Int
      /\ cycle' = cycle + 1 /\ cycle \in Nat
      /\ UNCHANGED <<window, nextId>> /\ window \in Nat /\ nextId \in Nat \ {0}
  BY <1>1, TrackingConstants DEF Cycle, TrackerInv, TrackerShape
<1>4. tracks' = [id \in Live \ gone |-> IF id \in missed THEN Coast(tracks[id], Off(id))
                                                        ELSE Hit(tracks[id], frame', now')]
  BY <1>2 DEF Update
<1>5. ghosts' = Pruned(ghosts \union fresh, frame')
  BY <1>2 DEF Update
<1>6. Live' = Live \ gone /\ gone \subseteq Live /\ missed \subseteq Live
  BY <1>4 DEF Live
<1>7. ASSUME NEW id \in Live
      PROVE  tracks[id] \in Track /\ Off(id) \in BOOLEAN /\ id \in 1 .. nextId - 1
             /\ Exited(tracks[id], Off(id)) \in BOOLEAN
  BY DEF TrackerInv, TrackerShape, Exited, Track
<1>8. ASSUME NEW id \in Live'
      PROVE  /\ tracks'[id] \in Track /\ tracks'[id].back = tracks[id].back
             /\ tracks'[id].lastFrame + tracks'[id].misses <= frame'
             /\ tracks'[id].status = "tentative" =>
                   tracks'[id].hits = cycle' - tracks'[id].born + 1 /\ tracks'[id].hits < NInit
             /\ tracks'[id].status # "tentative" => tracks'[id].hits = NInit
             /\ tracks'[id].status = "coasting" =>
                   /\ tracks'[id].misses <= IF tracks'[id].exited THEN BorderMaxAge ELSE MaxAgeFrames
                   /\ tracks'[id].exited \/ now' - tracks'[id].lastTs <= MaxAgeMs
  <2> DEFINE t == tracks[id]
             u == tracks'[id]
  <2>0. id \in Live /\ id \notin gone
    BY <1>6
  <2>1. t \in Track /\ Off(id) \in BOOLEAN /\ t.lastFrame + t.misses <= frame
    BY <2>0, <1>7 DEF TrackerInv, MissesTakeFrames
  <2>2. IF t.status = "tentative" THEN t.hits = cycle - t.born + 1 /\ t.hits < NInit ELSE t.hits = NInit
    BY <2>0 DEF TrackerInv, StreakUnbroken
  <2>3. CASE id \in missed
    <3>1. u = Coast(t, Off(id))
      BY <2>3, <1>4, <1>6
    <3>2. ~Expires(t, Off(id), now')
      BY <2>3, <2>0
    <3>3. /\ t.status # "tentative" /\ ~OutOfFrames(t, Off(id))
          /\ Exited(t, Off(id)) \/ ~(now' - t.lastTs > MaxAgeMs)
      BY <3>2 DEF Expires, OutOfTime
    <3> HIDE DEF t, u
    <3>4. /\ u \in Track /\ u.misses = t.misses + 1 /\ u.status = "coasting"
          /\ u.exited = Exited(t, Off(id)) /\ u.lastFrame = t.lastFrame /\ u.lastTs = t.lastTs
          /\ u.back = t.back /\ u.hits = t.hits
      BY <2>1, <3>1, <3>3, CoastTrack
    <3>5. t.misses + 1 <= (IF Exited(t, Off(id)) THEN BorderMaxAge ELSE MaxAgeFrames)
      BY <3>3, <2>1, TrackingConstants DEF OutOfFrames, Track
    <3>6. t.lastFrame + (t.misses + 1) <= frame'
      BY <2>1, <1>3 DEF Track
    <3>7. u.exited \/ now' - u.lastTs <= MaxAgeMs
      BY <3>3, <3>4, <2>1, <1>3, TrackingConstants DEF Track
    <3> QED BY <2>2, <3>3, <3>4, <3>5, <3>6, <3>7 DEF t, u
  <2>4. CASE id \notin missed
    <3>1. u = Hit(t, frame', now')
      BY <2>4, <1>4, <1>6
    <3> HIDE DEF t, u
    <3>2. t \in Track /\ frame' \in Nat /\ now' \in Int
      BY <2>1, <1>3
    <3>3. /\ u \in Track /\ u.misses = 0 /\ u.lastFrame = frame' /\ u.back = t.back /\ u.born = t.born
          /\ u.status \in {"tentative", "confirmed"}
      BY <3>1, <3>2, HitTrack
    <3>4. t.hits \in Nat /\ t.born \in Nat /\ NInit \in Nat
      BY <2>1, TrackingConstants DEF Track
    <3>5. /\ u.status = "tentative" => u.hits = cycle' - u.born + 1 /\ u.hits < NInit
          /\ u.status # "tentative" => u.hits = NInit
      <4>1. CASE t.status = "tentative" /\ t.hits + 1 < NInit
        <5>1. u.status = "tentative" /\ u.hits = t.hits + 1
          BY <3>1, <3>2, <4>1, HitStreak
        <5> QED BY <5>1, <4>1, <2>2, <3>3, <3>4, <1>3
      <4>2. CASE ~(t.status = "tentative" /\ t.hits + 1 < NInit)
        <5>1. u.status = "confirmed" /\ u.hits = NInit
          BY <2>2, <3>1, <3>2, <4>2, HitStreak
        <5> QED BY <5>1
      <4> QED BY <4>1, <4>2
    <3>6. u.lastFrame + u.misses <= frame'
      <4>1. u.misses \in Int /\ u.misses <= 0 /\ u.lastFrame \in Int /\ u.lastFrame = frame'
        BY <3>2, <3>3
      <4> QED BY <4>1
    <3> QED BY <3>3, <3>5, <3>6 DEF t, u
  <2> QED BY <2>3, <2>4
<1>9. ASSUME NEW g \in fresh
      PROVE  /\ g \in Ghosts /\ g.id \in gone
             /\ g.track.status # "tentative" /\ g.track.hits = NInit /\ g.at = g.track.lastFrame
             /\ window <= MaxAgeFrames /\ g.cause # "time" => frame' - g.at > window
             /\ g = Ghost(g.id, Off(g.id), now')
  <2>1. PICK id \in gone : LeavesGhost(tracks[id], Off(id)) /\ g = Ghost(id, Off(id), now')
    OBVIOUS
  <2> DEFINE t == tracks[id]
  <2>2. id \in Live /\ t \in Track /\ id \in 1 .. nextId - 1 /\ Off(id) \in BOOLEAN
    BY <1>6, <1>7
  <2>3. t.status # "tentative" /\ ~Exited(t, Off(id))
    BY <2>1 DEF LeavesGhost
  <2>4. t.hits = NInit /\ t.lastFrame + t.misses <= frame
    BY <2>2, <2>3 DEF TrackerInv, StreakUnbroken, MissesTakeFrames
  <2>5. /\ g.id = id /\ g.track = t /\ g.at = t.lastFrame
        /\ g.cause = (IF OutOfFrames(t, Off(id)) THEN "frames" ELSE "time")
        /\ g = [id |-> g.id, track |-> g.track, at |-> g.at, cause |-> g.cause]
    BY <2>1 DEF Ghost, GhostSince
  <2>6. g \in Ghosts
    <3>1. g.id \in Nat /\ g.at \in Nat /\ g.cause \in {"frames", "time"}
      BY <2>2, <2>5, <1>3 DEF Track
    <3> QED BY <3>1, <2>2, <2>5 DEF Ghosts
  <2>7. window <= MaxAgeFrames /\ g.cause # "time" => frame' - g.at > window
    <3> HAVE window <= MaxAgeFrames /\ g.cause # "time"
    <3>1. t.misses + 1 > MaxAgeFrames
      BY <2>3, <2>5 DEF OutOfFrames
    <3> HIDE DEF t
    <3> QED BY <3>1, <2>2, <2>4, <2>5, <1>3, TrackingConstants DEF Track
  <2> QED BY <2>1, <2>3, <2>4, <2>5, <2>6, <2>7
<1> HIDE DEF fresh
<1>10. ghosts' \subseteq ghosts \union fresh /\ \A g \in ghosts' : frame' - g.at <= window
  BY <1>5, <1>3 DEF Pruned
<1>11. TrackerShape'
  <2>1. pending' \in Int
    <3>1. IsFiniteSet(hit1)
      BY LiveIsFinite, FS_Subset DEF TrackerInv
    <3> QED BY <3>1, <1>2, FS_CardinalityType DEF Update
  <2>2. stats' \in Stats
    <3> DEFINE promoted == {id \in Live \ missed :
                                tracks[id].status = "tentative" /\ tracks'[id].status = "confirmed"}
               border == {id \in gone : IF tracks[id].status = "tentative" THEN Off(id)
                                                                           ELSE Exited(tracks[id], Off(id))}
    <3>1. stats' = [stats EXCEPT !.confirmed = @ + Cardinality(promoted),
                                 !.expired = @ + Cardinality(gone),
                                 !.expiredBorder = @ + Cardinality(border)]
      BY <1>2 DEF Update
    <3>2. promoted \subseteq Live /\ gone \subseteq Live /\ border \subseteq Live
      BY <1>6
    <3> HIDE DEF promoted, gone, border
    <3>3. Cardinality(promoted) \in Nat /\ Cardinality(gone) \in Nat /\ Cardinality(border) \in Nat
      BY <3>2, LiveIsFinite, FS_Subset, FS_CardinalityType DEF TrackerInv
    <3>4. stats \in Stats
      BY DEF TrackerInv, TrackerShape
    <3>5. stats' = [stats EXCEPT !.confirmed = stats.confirmed + Cardinality(promoted),
                                 !.expired = stats.expired + Cardinality(gone),
                                 !.expiredBorder = stats.expiredBorder + Cardinality(border)]
      BY <3>1, <3>4 DEF Stats
    <3>6. /\ stats.confirmed + Cardinality(promoted) \in Nat
          /\ stats.expired + Cardinality(gone) \in Nat
          /\ stats.expiredBorder + Cardinality(border) \in Nat
      BY <3>3, <3>4 DEF Stats
    <3> QED BY <3>4, <3>5, <3>6 DEF Stats
  <2>3. \A g \in ghosts' : g \in Ghosts /\ g.id \in 1 .. nextId - 1
    BY <1>9, <1>10, <1>6, <1>7 DEF TrackerInv, TrackerShape
  <2> QED BY <2>1, <2>2, <2>3, <1>3, <1>6, <1>7, <1>8 DEF TrackerShape
<1>12. OneGhostPerId'
  <2>1. \A g \in ghosts : g.id \notin Live
    BY DEF TrackerInv, OneGhostPerId, GhostIds
  <2>2. \A g \in ghosts' : g.id \notin Live'
    BY <2>1, <1>9, <1>10, <1>6
  <2>3. ASSUME NEW g \in ghosts', NEW h \in ghosts', g.id = h.id PROVE g = h
    <3>1. CASE g \in ghosts /\ h \in ghosts
      BY <2>3, <3>1 DEF TrackerInv, OneGhostPerId
    <3>2. CASE g \in fresh /\ h \in fresh
      BY <2>3, <3>2, <1>9
    <3>3. CASE (g \in ghosts /\ h \in fresh) \/ (g \in fresh /\ h \in ghosts)
      BY <2>3, <3>3, <2>1, <1>9, <1>6
    <3> QED BY <3>1, <3>2, <3>3, <1>10
  <2> QED BY <2>2, <2>3 DEF OneGhostPerId, GhostIds
<1>13. GhostsAreOfTracks' /\ GhostsAreRecent' /\ OnlyTimeLeavesGhosts'
  <2>1. GhostsAreOfTracks'
    BY <1>9, <1>10 DEF TrackerInv, GhostsAreOfTracks
  <2>2. GhostsAreRecent'
    BY <2>1, <1>10, <1>3 DEF GhostsAreOfTracks, GhostsAreRecent
  <2>3. OnlyTimeLeavesGhosts'
    <3> SUFFICES ASSUME window <= MaxAgeFrames, NEW g \in ghosts' PROVE g.cause = "time"
      BY <1>3 DEF OnlyTimeLeavesGhosts
    <3>1. frame' - g.at <= window
      BY <1>10
    <3>2. CASE g \in ghosts
      BY <3>2 DEF TrackerInv, TracksInTime, OnlyTimeLeavesGhosts
    <3>3. CASE g \in fresh
      <4>1. g.at \in Nat
        BY <3>3, <1>9 DEF Ghosts
      <4> QED BY <3>1, <3>3, <4>1, <1>9, <1>3
    <3> QED BY <3>2, <3>3, <1>10
  <2> QED BY <2>1, <2>2, <2>3
<1>14. MissesTakeFrames' /\ StreakUnbroken' /\ CoastsWithinBudget'
  BY <1>8 DEF MissesTakeFrames, StreakUnbroken, CoastsWithinBudget
<1>15. LivesBalance'
  <2> DEFINE border == {id \in gone : IF tracks[id].status = "tentative" THEN Off(id)
                                                                         ELSE Exited(tracks[id], Off(id))}
  <2>1. IsFiniteSet(Live) /\ Cardinality(Live) \in Nat
    BY LiveIsFinite DEF TrackerInv
  <2>2. IsFiniteSet(gone) /\ Cardinality(gone) \in Nat /\ Cardinality(border) \in Nat
        /\ Cardinality(border) <= Cardinality(gone)
    BY <2>1, <1>6, FS_Subset, FS_CardinalityType
  <2>3. Cardinality(Live') = Cardinality(Live) - Cardinality(gone)
    <3>1. Live \intersect gone = gone
      BY <1>6
    <3>2. Cardinality(Live \ gone) = Cardinality(Live) - Cardinality(Live \intersect gone)
      BY <2>1, FS_Difference
    <3> QED BY <3>1, <3>2, <1>6
  <2>4. /\ stats'.created = stats.created /\ stats'.reassociated = stats.reassociated
        /\ stats'.expired = stats.expired + Cardinality(gone)
        /\ stats'.expiredBorder = stats.expiredBorder + Cardinality(border)
    BY <1>2 DEF Update, TrackerInv, TrackerShape, Stats
  <2>5. /\ {stats.created, stats.reassociated, stats.expired, stats.expiredBorder} \subseteq Nat
        /\ stats.created + stats.reassociated = stats.expired + Cardinality(Live)
        /\ stats.created = nextId - 1 /\ stats.expiredBorder <= stats.expired
    BY DEF TrackerInv, LivesBalance, TrackerShape, Stats
  <2> HIDE DEF gone, border
  <2> QED BY <2>1, <2>2, <2>3, <2>4, <2>5, <1>3 DEF LivesBalance
<1>16. NewTracksBounded'
  <2> DEFINE S == {id \in Live : ~tracks[id].back}
  <2>1. S' \in SUBSET S
    BY <1>6, <1>8
  <2>2. IsFiniteSet(S) /\ Cardinality(S) \in Nat /\ Cardinality(S) <= MaxTracks
    BY LiveIsFinite, FS_Subset, FS_CardinalityType DEF TrackerInv, NewTracksBounded
  <2> HIDE DEF S
  <2>3. Cardinality(S') \in Nat /\ Cardinality(S') <= Cardinality(S)
    BY <2>1, <2>2, FS_Subset, FS_CardinalityType
  <2>4. Cardinality(S') <= MaxTracks
    BY <2>2, <2>3, TrackingConstants
  <2> QED BY <2>4 DEF S, NewTracksBounded
<1> QED BY <1>11, <1>12, <1>13, <1>14, <1>15, <1>16 DEF TrackerInv, TracksInTime

---------------------------------------------------------------------------
(* Detections that met no track. *)

\* A life that begins under an id that is not live: the set of live ids grows by it.
LEMMA WithTrack ==
    ASSUME TrackerShape, NEW id, id \notin Live, NEW t, tracks' = With(id, t)
    PROVE  /\ Live' = Live \union {id} /\ tracks'[id] = t
           /\ \A i \in Live : tracks'[i] = tracks[i]
           /\ Cardinality(Live') = Cardinality(Live) + 1
<1>1. tracks' = [i \in Live \union {id} |-> IF i = id THEN t ELSE tracks[i]]
  BY DEF With
<1>2. Live' = Live \union {id}
  BY <1>1 DEF Live
<1> QED BY <1>1, <1>2, LiveIsFinite, FS_AddElement

LEMMA ReclaimStep == ASSUME TrackerInv, NEW g \in ghosts, Reclaim(g) PROVE TrackerInv'
<1> DEFINE id == g.id
           u == tracks'[id]
           h == Hit(g.track, frame, now)
<1>1. /\ TrackerShape /\ g \in Ghosts /\ g.track \in Track /\ id \in 1 .. nextId - 1
      /\ frame \in Nat /\ now \in Int /\ id \notin Live
      /\ g.track.status # "tentative" /\ g.track.hits = NInit
  BY DEF TrackerInv, TrackerShape, Ghosts, OneGhostPerId, GhostIds, GhostsAreOfTracks
<1>2. /\ UNCHANGED <<window, cycle, frame, now, nextId>> /\ pending' = pending - 1
      /\ ghosts' = {x \in ghosts : x.id # id}
      /\ tracks' = With(id, [h EXCEPT !.status = "confirmed", !.back = TRUE])
  BY DEF Reclaim, GhostsWithout
<1>3. /\ Live' = Live \union {id} /\ u = [h EXCEPT !.status = "confirmed", !.back = TRUE]
      /\ \A i \in Live : tracks'[i] = tracks[i]
      /\ Cardinality(Live') = Cardinality(Live) + 1
  BY <1>1, <1>2, WithTrack
<1>4. /\ h \in Track /\ h.misses = 0 /\ h.lastFrame = frame /\ h.hits = NInit
  <2>1. h \in Track /\ h.misses = 0 /\ h.lastFrame = frame
    BY <1>1, HitTrack
  <2>2. h.hits = NInit
    BY <1>1, HitStreak
  <2> QED BY <2>1, <2>2
<1> HIDE DEF h, u
<1>5. /\ u \in Track /\ u.misses = 0 /\ u.lastFrame = frame /\ u.hits = NInit
      /\ u.status = "confirmed" /\ u.back = TRUE
  BY <1>3, <1>4 DEF Track
<1>6. stats' = [stats EXCEPT !.reassociated = stats.reassociated + 1] /\ stats \in Stats
  BY DEF Reclaim, TrackerInv, TrackerShape, Stats
<1>7. TrackerShape'
  <2>1. Live' \subseteq 1 .. nextId - 1 /\ \A i \in Live' : tracks'[i] \in Track
    BY <1>1, <1>3, <1>5 DEF TrackerShape, u
  <2>2. stats' \in Stats
    BY <1>6 DEF Stats
  <2> QED BY <1>1, <1>2, <2>1, <2>2 DEF TrackerShape
<1>8. OneGhostPerId'
  <2>1. \A x \in ghosts' : x \in ghosts /\ x.id # id
    BY <1>2
  <2> QED BY <1>3, <2>1 DEF TrackerInv, OneGhostPerId, GhostIds
<1>9. GhostsAreOfTracks' /\ GhostsAreRecent' /\ OnlyTimeLeavesGhosts'
  BY <1>2 DEF TrackerInv, TracksInTime, GhostsAreOfTracks, GhostsAreRecent, OnlyTimeLeavesGhosts
<1>10. MissesTakeFrames'
  <2>1. u.lastFrame + u.misses <= frame
    <3>1. u.lastFrame \in Int /\ u.misses \in Int /\ u.misses <= 0 /\ u.lastFrame <= frame
      BY <1>1, <1>5 DEF Track
    <3> QED BY <3>1, <1>1
  <2> QED BY <1>2, <1>3, <2>1 DEF TrackerInv, MissesTakeFrames, u
<1>11. StreakUnbroken' /\ CoastsWithinBudget'
  BY <1>2, <1>3, <1>5 DEF TrackerInv, TracksInTime, StreakUnbroken, CoastsWithinBudget, u
<1>12. LivesBalance'
  <2>1. /\ stats'.created = stats.created /\ stats'.reassociated = stats.reassociated + 1
        /\ stats'.expired = stats.expired /\ stats'.expiredBorder = stats.expiredBorder
        /\ {stats.created, stats.reassociated, stats.expired} \subseteq Nat
    BY <1>6 DEF Stats
  <2>2. Cardinality(Live) \in Nat
    BY <1>1, LiveIsFinite
  <2> QED BY <1>2, <1>3, <2>1, <2>2 DEF TrackerInv, LivesBalance
<1>13. NewTracksBounded'
  <2>1. {i \in Live' : ~tracks'[i].back} = {i \in Live : ~tracks[i].back}
    BY <1>1, <1>3, <1>5 DEF u
  <2> QED BY <2>1 DEF TrackerInv, NewTracksBounded
<1> QED BY <1>7, <1>8, <1>9, <1>10, <1>11, <1>12, <1>13 DEF TrackerInv, TracksInTime

LEMMA SpawnStep == TrackerInv /\ Spawn => TrackerInv'
<1> SUFFICES ASSUME TrackerInv, Spawn PROVE TrackerInv'
  OBVIOUS
<1> DEFINE u == tracks'[nextId]
<1>1. /\ TrackerShape /\ frame \in Nat /\ now \in Int /\ cycle \in Nat /\ nextId \in Nat \ {0}
      /\ nextId \notin Live /\ \A g \in ghosts : g.id # nextId
  BY DEF TrackerInv, TrackerShape
<1>2. /\ UNCHANGED <<window, cycle, frame, now, ghosts>> /\ pending' = pending - 1
      /\ nextId' = nextId + 1 /\ tracks' = With(nextId, NewTrack)
  BY DEF Spawn
<1>3. /\ Live' = Live \union {nextId} /\ u = NewTrack
      /\ \A i \in Live : tracks'[i] = tracks[i]
      /\ Cardinality(Live') = Cardinality(Live) + 1
  BY <1>1, <1>2, WithTrack
<1>4. NInit \in Nat \ {0} /\ MaxAgeFrames \in Nat
  BY TrackingConstants
<1> HIDE DEF u
<1>5. /\ u.misses = 0 /\ u.lastFrame = frame /\ u.lastTs = now /\ u.hits = 1 /\ u.born = cycle
      /\ u.status = (IF NInit <= 1 THEN "confirmed" ELSE "tentative") /\ u.back = FALSE
      /\ u.exited = FALSE
      /\ u = [status |-> u.status, hits |-> u.hits, misses |-> u.misses, exited |-> u.exited,
              lastFrame |-> u.lastFrame, lastTs |-> u.lastTs, born |-> u.born, back |-> u.back]
  BY <1>3 DEF NewTrack
<1>6. u \in Track
  <2>1. u.status \in {"tentative", "confirmed", "coasting"} /\ u.hits \in 1 .. NInit
        /\ u.misses \in (0 .. MaxAgeFrames) \union (0 .. BorderMaxAge)
    BY <1>4, <1>5
  <2> QED BY <1>1, <1>5, <2>1 DEF Track
<1>7. /\ u.status = "tentative" => u.hits = cycle - u.born + 1 /\ u.hits < NInit
      /\ u.status # "tentative" => u.hits = NInit
      /\ u.status # "coasting"
  <2>1. CASE NInit <= 1
    BY <2>1, <1>4, <1>5
  <2>2. CASE ~(NInit <= 1)
    <3>1. u.status = "tentative" /\ 1 < NInit
      BY <2>2, <1>4, <1>5
    <3>2. cycle - u.born + 1 = 1
      BY <1>1, <1>5
    <3> QED BY <3>1, <3>2, <1>5
  <2> QED BY <2>1, <2>2
<1>8. /\ stats' = [stats EXCEPT !.created = stats.created + 1,
                                !.confirmed = IF NInit <= 1 THEN stats.confirmed + 1 ELSE stats.confirmed]
      /\ stats \in Stats
  BY DEF Spawn, TrackerInv, TrackerShape, Stats
<1>9. TrackerShape'
  <2>1. Live' \subseteq 1 .. nextId' - 1 /\ \A i \in Live' : tracks'[i] \in Track
    BY <1>1, <1>2, <1>3, <1>6 DEF TrackerShape, u
  <2>2. stats' \in Stats
    <3>1. stats.created + 1 \in Nat
          /\ (IF NInit <= 1 THEN stats.confirmed + 1 ELSE stats.confirmed) \in Nat
      BY <1>8 DEF Stats
    <3> QED BY <1>8, <3>1 DEF Stats
  <2>3. \A g \in ghosts' : g.id \in 1 .. nextId' - 1
    BY <1>1, <1>2 DEF TrackerShape
  <2> QED BY <1>1, <1>2, <2>1, <2>2, <2>3 DEF TrackerShape
<1>10. OneGhostPerId'
  BY <1>1, <1>2, <1>3 DEF TrackerInv, OneGhostPerId, GhostIds
<1>11. GhostsAreOfTracks' /\ GhostsAreRecent' /\ OnlyTimeLeavesGhosts'
  BY <1>2 DEF TrackerInv, TracksInTime, GhostsAreOfTracks, GhostsAreRecent, OnlyTimeLeavesGhosts
<1>12. MissesTakeFrames'
  <2>1. u.misses <= 0 /\ u.lastFrame \in Int /\ u.misses \in Int /\ u.lastFrame <= frame
    BY <1>1, <1>5
  <2>2. u.lastFrame + u.misses <= frame
    BY <1>1, <2>1
  <2> QED BY <1>2, <1>3, <2>2 DEF TrackerInv, MissesTakeFrames, u
<1>13. StreakUnbroken' /\ CoastsWithinBudget'
  BY <1>2, <1>3, <1>7 DEF TrackerInv, TracksInTime, StreakUnbroken, CoastsWithinBudget, u
<1>14. LivesBalance'
  <2>1. /\ stats'.created = stats.created + 1 /\ stats'.reassociated = stats.reassociated
        /\ stats'.expired = stats.expired /\ stats'.expiredBorder = stats.expiredBorder
        /\ {stats.created, stats.reassociated, stats.expired} \subseteq Nat
    BY <1>8 DEF Stats
  <2>2. Cardinality(Live) \in Nat
    BY <1>1, LiveIsFinite
  <2> QED BY <1>1, <1>2, <1>3, <2>1, <2>2 DEF TrackerInv, LivesBalance
<1>15. NewTracksBounded'
  <2> DEFINE S == {i \in Live : ~tracks[i].back}
  <2>1. S' \in SUBSET Live' /\ Cardinality(Live) < MaxTracks
    BY DEF Spawn, HasRoom
  <2>2. IsFiniteSet(Live') /\ Cardinality(Live) \in Nat /\ Cardinality(Live') \in Nat
    BY <1>1, <1>9, LiveIsFinite, FS_AddElement, <1>3
  <2> HIDE DEF S
  <2>3. Cardinality(S') \in Nat /\ Cardinality(S') <= Cardinality(Live')
    BY <2>1, <2>2, FS_Subset, FS_CardinalityType
  <2>4. Cardinality(S') <= MaxTracks
    BY <1>3, <2>1, <2>2, <2>3, TrackingConstants
  <2> QED BY <2>4 DEF S, NewTracksBounded
<1> QED BY <1>9, <1>10, <1>11, <1>12, <1>13, <1>14, <1>15 DEF TrackerInv, TracksInTime

\* Dropping a detection, and a step that changes nothing.
LEMMA OtherStep == TrackerInv /\ (DropDetection \/ UNCHANGED trackerVars) => TrackerInv'
<1> SUFFICES ASSUME TrackerInv, DropDetection \/ UNCHANGED trackerVars PROVE TrackerInv'
  OBVIOUS
<1>1. UNCHANGED <<window, cycle, frame, now, tracks, ghosts, nextId>>
  BY DEF DropDetection, trackerVars
<1>2. /\ stats' \in Stats /\ pending' \in Int
      /\ stats'.created = stats.created /\ stats'.reassociated = stats.reassociated
      /\ stats'.expired = stats.expired /\ stats'.expiredBorder = stats.expiredBorder
  <2>1. stats \in Stats /\ pending \in Int
    BY DEF TrackerInv, TrackerShape
  <2>2. CASE DropDetection
    <3>1. stats' = [stats EXCEPT !.droppedMaxTracks = stats.droppedMaxTracks + 1] /\ pending' = pending - 1
      BY <2>1, <2>2 DEF DropDetection, Stats
    <3> QED BY <2>1, <3>1 DEF Stats
  <2>3. CASE UNCHANGED trackerVars
    BY <2>1, <2>3 DEF trackerVars
  <2> QED BY <2>2, <2>3
<1>3. Live' = Live /\ GhostIds' = GhostIds
  BY <1>1 DEF Live, GhostIds
<1>4. TrackerShape' /\ OneGhostPerId' /\ GhostsAreOfTracks' /\ MissesTakeFrames'
  BY <1>1, <1>2, <1>3 DEF TrackerInv, TrackerShape, OneGhostPerId, GhostsAreOfTracks, MissesTakeFrames
<1>5. LivesBalance' /\ StreakUnbroken' /\ NewTracksBounded' /\ TracksInTime'
  BY <1>1, <1>2, <1>3 DEF TrackerInv, LivesBalance, StreakUnbroken, NewTracksBounded, TracksInTime,
     CoastsWithinBudget, GhostsAreRecent, OnlyTimeLeavesGhosts
<1> QED BY <1>4, <1>5 DEF TrackerInv

LEMMA TrackerInitially == TrackerInit => TrackerInv
<1> SUFFICES ASSUME TrackerInit PROVE TrackerInv
  OBVIOUS
<1>1. Live = {} /\ ghosts = {} /\ nextId = 1 /\ GhostIds = {} /\ window \in Nat
  BY TrackingConstants DEF TrackerInit, Live, GhostIds
<1>2. Cardinality(Live) = 0 /\ Cardinality({id \in Live : ~tracks[id].back}) = 0
  <2>1. {id \in Live : ~tracks[id].back} = {}
    BY <1>1
  <2> QED BY <1>1, <2>1, FS_EmptySet
<1>3. TrackerShape
  BY <1>1 DEF TrackerInit, TrackerShape, Stats
<1>4. OneGhostPerId /\ GhostsAreOfTracks /\ MissesTakeFrames /\ StreakUnbroken /\ TracksInTime
  BY <1>1 DEF OneGhostPerId, GhostsAreOfTracks, MissesTakeFrames, StreakUnbroken, TracksInTime,
     CoastsWithinBudget, GhostsAreRecent, OnlyTimeLeavesGhosts
<1>5. LivesBalance /\ NewTracksBounded
  BY <1>1, <1>2, TrackingConstants DEF TrackerInit, LivesBalance, NewTracksBounded
<1> QED BY <1>3, <1>4, <1>5 DEF TrackerInv

LEMMA TrackerInvariant == TrackerSpec => []TrackerInv
<1>1. TrackerInv /\ [TrackerNext]_trackerVars => TrackerInv'
  BY CycleStep, ReclaimStep, SpawnStep, OtherStep DEF TrackerNext
<1> QED BY <1>1, TrackerInitially, PTL DEF TrackerSpec

---------------------------------------------------------------------------
\* An id is one life, live or a ghost; it was confirmed by an unbroken streak; the
\* counters of TrackerStats balance with the lives, and the tracks that never were
\* ghosts are within max_tracks.
THEOREM IdentityHolds == TrackerSpec => []IdentityIsOneLife
<1>1. TrackerInv => OneLifePerId
  <2> SUFFICES ASSUME TrackerInv PROVE OneLifePerId
    OBVIOUS
  <2> DEFINE f == [g \in ghosts |-> g.id]
  <2>1. f \in Bijection(ghosts, GhostIds)
    <3>1. f \in Injection(ghosts, GhostIds)
      BY Fun_IsInj DEF TrackerInv, OneGhostPerId, GhostIds
    <3>2. f \in Surjection(ghosts, GhostIds)
      BY Fun_IsSurj DEF GhostIds
    <3> QED BY <3>1, <3>2 DEF Bijection
  <2>2. IsFiniteSet(1 .. nextId - 1) /\ GhostIds \in SUBSET (1 .. nextId - 1)
    BY FS_Interval DEF TrackerInv, TrackerShape, GhostIds
  <2>3. IsFiniteSet(GhostIds)
    BY <2>2, FS_Subset
  <2>4. IsFiniteSet(ghosts) /\ (Cardinality(ghosts) = Cardinality(GhostIds))
    BY <2>1, <2>3, FS_Injection, FS_Surjection DEF Bijection
  <2> QED BY <2>4 DEF TrackerInv, OneGhostPerId, OneLifePerId
<1>2. TrackerInv => IdentityIsOneLife
  BY <1>1 DEF TrackerInv, IdentityIsOneLife
<1> QED BY <1>2, TrackerInvariant, PTL

\* A track coasts within its budgets, a ghost within the window, and with a window
\* no longer than max_age_frames none of them had used up its misses.
THEOREM TimesAreKept == TrackerSpec => []TracksInTime
<1>1. TrackerInv => TracksInTime
  BY DEF TrackerInv
<1> QED BY <1>1, TrackerInvariant, PTL

---------------------------------------------------------------------------
(* The engine's memory of its last poses, when one stream uses it.         *)

\* The stream that uses the engine, unless the API shares it.
Owner == IF mode = "live" THEN "live" ELSE "recorded"

InferenceFields == {"at", "frame", "idx", "reused", "poses", "id", "ts"}
IsInference(x) == DOMAIN x = InferenceFields /\ x = [f \in InferenceFields |-> x[f]]

EngineShape ==
    /\ mode \in {"live", "script"}
    /\ infer = [u \in Users |-> infer[u]] /\ newest = [u \in Users |-> newest[u]]
    /\ \A u \in Users : IsInference(infer[u]) /\ (u # Owner => At(u, "idle"))

\* x: the stream's inference; n: its newest successful one. What the engine remembers of
\* it, while its three fields are stored one after the other, ...
MemoryIsNewest(x, n, poses, id, ts) ==
    /\ n = [id |-> n.id, ts |-> n.ts, poses |-> n.poses]
    /\ poses = n.poses
    /\ x.at # "storeId" => id = n.id
    /\ x.at \notin {"storeId", "storeTs"} => ts = n.ts
    /\ x.at \in {"storeId", "storeTs"} => n.id = x.frame.id /\ n.ts = x.frame.ts

\* ... and what was taken of them, while they are read one after the other.
TakenIsNewest(x, n) ==
    /\ x.at \notin {"takeId", "takeTs", "done"} => x.reused = FALSE
    /\ x.at \in {"takePoses", "takeId", "takeTs"} => x.frame.ts - n.ts \in 0 .. MaxReuse
    /\ x.at \in {"takeId", "takeTs"} => x.poses = n.poses
    /\ x.at = "takeTs" => x.id = n.id
    /\ x.at = "done" /\ x.reused =>
          n = [id |-> x.id, ts |-> x.ts, poses |-> x.poses] /\ x.frame.ts - x.ts \in 0 .. MaxReuse

Reuses(x, n, poses, id, ts) == MemoryIsNewest(x, n, poses, id, ts) /\ TakenIsNewest(x, n)

EngineInv == EngineShape /\ Reuses(infer[Owner], newest[Owner], lastPoses, lastId, lastTs)

LEMMA EngineInvInit ==
    ASSUME mode # "api", PerceptionInit
    PROVE  EngineInv
<1>1. /\ mode \in {"live", "script"} /\ infer = [u \in Users |-> Idle] /\ newest = [u \in Users |-> NoInference]
      /\ lastPoses = NoPoses /\ lastId = -1 /\ lastTs = NoTime
  BY PerceptionAssumption DEF PerceptionInit
<1>2. Owner \in Users /\ IsInference(Idle) /\ Idle.at = "idle" /\ Idle.reused = FALSE
  BY DEF Owner, Users, IsInference, InferenceFields, Idle
<1>3. EngineShape
  BY <1>1, <1>2 DEF EngineShape, At
<1>4. MemoryIsNewest(Idle, NoInference, lastPoses, lastId, lastTs)
  BY <1>1, <1>2 DEF MemoryIsNewest, NoInference
<1>5. TakenIsNewest(Idle, NoInference)
  BY <1>2 DEF TakenIsNewest
<1> QED BY <1>1, <1>2, <1>3, <1>4, <1>5 DEF EngineInv, Reuses

\* The owner's inference takes another value.
LEMMA OwnerMoves ==
    ASSUME EngineInv, NEW u \in Users, NEW x, infer' = [infer EXCEPT ![u] = x], IsInference(x), mode' = mode,
           newest' = [v \in Users |-> newest'[v]],
           u = Owner, Reuses(x, newest'[Owner], lastPoses', lastId', lastTs')
    PROVE  EngineInv'
<1>1. infer' = [v \in Users |-> infer'[v]] /\ infer'[u] = x /\ \A v \in Users \ {u} : infer'[v] = infer[v]
  BY DEF EngineInv, EngineShape
<1>2. Owner' = Owner
  BY DEF Owner
<1>3. EngineShape'
  BY <1>1, <1>2 DEF EngineInv, EngineShape, At
<1> QED BY <1>1, <1>2, <1>3 DEF EngineInv

\* A step of the inference: the place it is at, and what it has taken so far.
LEMMA InferStep ==
    ASSUME EngineInv, NEW u \in Users, Infer(u)
    PROVE  EngineInv'
<1> DEFINE x == infer[u]
           n == newest[u]
<1>1. x.at # "idle"
  BY DEF Infer, DecidePose, RunPose, StoreId, StoreTs, CheckReuse, TakePoses, TakeId, TakeTs, At
<1>2. /\ u = Owner /\ IsInference(x) /\ newest = [v \in Users |-> newest[v]] /\ infer = [v \in Users |-> infer[v]]
      /\ Reuses(x, n, lastPoses, lastId, lastTs)
  BY <1>1 DEF EngineInv, EngineShape, At
<1>3. ASSUME NEW y, infer' = [infer EXCEPT ![u] = y], IsInference(y), mode' = mode, newest' = newest,
             Reuses(y, n, lastPoses', lastId', lastTs')
      PROVE  EngineInv'
  BY <1>2, <1>3, OwnerMoves
<1>4. ASSUME NEW st
      PROVE  /\ [infer EXCEPT ![u].at = st] = [infer EXCEPT ![u] = [x EXCEPT !.at = st]]
             /\ IsInference([x EXCEPT !.at = st]) /\ [x EXCEPT !.at = st].at = st
             /\ [x EXCEPT !.at = st].frame = x.frame /\ [x EXCEPT !.at = st].reused = x.reused
             /\ [x EXCEPT !.at = st].poses = x.poses /\ [x EXCEPT !.at = st].id = x.id
             /\ [x EXCEPT !.at = st].ts = x.ts
  BY <1>2 DEF IsInference, InferenceFields
<1>5. CASE DecidePose(u)
  <2>1. PICK st \in {"pose", "reuse"} : infer' = [infer EXCEPT ![u].at = st]
    BY <1>5 DEF DecidePose
  <2>2. x.at = "cadence" /\ UNCHANGED <<mode, newest, lastPoses, lastId, lastTs>>
    BY <1>5 DEF DecidePose, At, settings, reuseState
  <2>3. Reuses([x EXCEPT !.at = st], n, lastPoses', lastId', lastTs')
    BY <1>2, <1>4, <2>2 DEF Reuses, MemoryIsNewest, TakenIsNewest
  <2> QED BY <1>3, <1>4, <2>1, <2>2, <2>3
<1>6. CASE RunPose(u)
  <2>1. x.at = "pose" /\ UNCHANGED <<mode, lastId, lastTs>>
    BY <1>6 DEF RunPose, At, settings
  <2>2. CASE x.frame.pose = "fails"
    <3>1. infer' = [infer EXCEPT ![u].at = "done"] /\ UNCHANGED <<newest, lastPoses>>
      BY <1>6, <2>2 DEF RunPose
    <3>2. Reuses([x EXCEPT !.at = "done"], n, lastPoses', lastId', lastTs')
      BY <1>2, <1>4, <2>1, <3>1 DEF Reuses, MemoryIsNewest, TakenIsNewest
    <3> QED BY <1>3, <1>4, <2>1, <3>1, <3>2
  <2>3. CASE x.frame.pose # "fails"
    <3> DEFINE found == PosesOf(u, x.frame)
               y == [x EXCEPT !.at = "storeId", !.poses = found]
               m == [id |-> x.frame.id, ts |-> x.frame.ts, poses |-> found]
    <3>1. /\ infer' = [infer EXCEPT ![u].at = "storeId", ![u].poses = found]
          /\ lastPoses' = found /\ newest' = [newest EXCEPT ![u] = m]
      BY <1>6, <2>3 DEF RunPose, PosesKept
    <3> HIDE DEF found
    <3>2. infer' = [infer EXCEPT ![u] = y]
      BY <1>2, <3>1
    <3>3. IsInference(y) /\ y.at = "storeId" /\ y.poses = found /\ y.frame = x.frame /\ y.reused = x.reused
      BY <1>2 DEF IsInference, InferenceFields
    <3>4. newest' = [v \in Users |-> newest'[v]] /\ newest'[u] = m
      BY <1>2, <3>1
    <3>5. Reuses(y, m, lastPoses', lastId', lastTs')
      BY <1>2, <2>1, <3>1, <3>3 DEF Reuses, MemoryIsNewest, TakenIsNewest
    <3> HIDE DEF y, m
    <3> QED BY <1>2, <2>1, <3>2, <3>3, <3>4, <3>5, OwnerMoves
  <2> QED BY <2>2, <2>3
<1>7. CASE StoreId(u)
  <2>1. /\ infer' = [infer EXCEPT ![u].at = "storeTs"] /\ x.at = "storeId" /\ lastId' = x.frame.id
        /\ UNCHANGED <<mode, newest, lastPoses, lastTs>>
    BY <1>7 DEF StoreId, At, settings
  <2>2. Reuses([x EXCEPT !.at = "storeTs"], n, lastPoses', lastId', lastTs')
    BY <1>2, <1>4, <2>1 DEF Reuses, MemoryIsNewest, TakenIsNewest
  <2> QED BY <1>3, <1>4, <2>1, <2>2
<1>8. CASE StoreTs(u)
  <2>1. /\ infer' = [infer EXCEPT ![u].at = "done"] /\ x.at = "storeTs" /\ lastTs' = x.frame.ts
        /\ UNCHANGED <<mode, newest, lastPoses, lastId>>
    BY <1>8 DEF StoreTs, At, settings
  <2>2. Reuses([x EXCEPT !.at = "done"], n, lastPoses', lastId', lastTs')
    BY <1>2, <1>4, <2>1 DEF Reuses, MemoryIsNewest, TakenIsNewest
  <2> QED BY <1>3, <1>4, <2>1, <2>2
<1>9. CASE CheckReuse(u)
  <2>1. x.at = "reuse" /\ UNCHANGED <<mode, newest, lastPoses, lastId, lastTs>>
    BY <1>9 DEF CheckReuse, At, settings, reuseState
  <2>2. \/ infer' = [infer EXCEPT ![u].at = "done"]
        \/ infer' = [infer EXCEPT ![u].at = "takePoses"] /\ x.frame.ts - lastTs \in 0 .. MaxReuse
    BY <1>9 DEF CheckReuse, Reusable
  <2>3. CASE infer' = [infer EXCEPT ![u].at = "done"]
    <3>1. Reuses([x EXCEPT !.at = "done"], n, lastPoses', lastId', lastTs')
      BY <1>2, <1>4, <2>1 DEF Reuses, MemoryIsNewest, TakenIsNewest
    <3> QED BY <1>3, <1>4, <2>1, <2>3, <3>1
  <2>4. CASE infer' = [infer EXCEPT ![u].at = "takePoses"] /\ x.frame.ts - lastTs \in 0 .. MaxReuse
    <3>1. Reuses([x EXCEPT !.at = "takePoses"], n, lastPoses', lastId', lastTs')
      BY <1>2, <1>4, <2>1, <2>4 DEF Reuses, MemoryIsNewest, TakenIsNewest
    <3> QED BY <1>3, <1>4, <2>1, <2>4, <3>1
  <2> QED BY <2>2, <2>3, <2>4
<1>10. CASE TakePoses(u)
  <2> DEFINE y == [x EXCEPT !.at = "takeId", !.poses = lastPoses, !.reused = TRUE]
  <2>1. /\ infer' = [infer EXCEPT ![u].at = "takeId", ![u].poses = lastPoses, ![u].reused = TRUE]
        /\ x.at = "takePoses" /\ UNCHANGED <<mode, newest, lastPoses, lastId, lastTs>>
    BY <1>10 DEF TakePoses, At, settings, reuseState
  <2>2. infer' = [infer EXCEPT ![u] = y]
    BY <1>2, <2>1
  <2>3. IsInference(y) /\ y.at = "takeId" /\ y.poses = lastPoses /\ y.frame = x.frame
    BY <1>2 DEF IsInference, InferenceFields
  <2>4. Reuses(y, n, lastPoses', lastId', lastTs')
    BY <1>2, <2>1, <2>3 DEF Reuses, MemoryIsNewest, TakenIsNewest
  <2> HIDE DEF y
  <2> QED BY <1>3, <2>1, <2>2, <2>3, <2>4
<1>11. CASE TakeId(u)
  <2> DEFINE y == [x EXCEPT !.at = "takeTs", !.id = lastId]
  <2>1. /\ infer' = [infer EXCEPT ![u].at = "takeTs", ![u].id = lastId]
        /\ x.at = "takeId" /\ UNCHANGED <<mode, newest, lastPoses, lastId, lastTs>>
    BY <1>11 DEF TakeId, At, settings, reuseState
  <2>2. infer' = [infer EXCEPT ![u] = y]
    BY <1>2, <2>1
  <2>3. IsInference(y) /\ y.at = "takeTs" /\ y.id = lastId /\ y.poses = x.poses /\ y.frame = x.frame
    BY <1>2 DEF IsInference, InferenceFields
  <2>4. Reuses(y, n, lastPoses', lastId', lastTs')
    BY <1>2, <2>1, <2>3 DEF Reuses, MemoryIsNewest, TakenIsNewest
  <2> HIDE DEF y
  <2> QED BY <1>3, <2>1, <2>2, <2>3, <2>4
<1>12. CASE TakeTs(u)
  <2> DEFINE y == [x EXCEPT !.at = "done", !.ts = lastTs]
  <2>1. /\ infer' = [infer EXCEPT ![u].at = "done", ![u].ts = lastTs]
        /\ x.at = "takeTs" /\ UNCHANGED <<mode, newest, lastPoses, lastId, lastTs>>
    BY <1>12 DEF TakeTs, At, settings, reuseState
  <2>2. infer' = [infer EXCEPT ![u] = y]
    BY <1>2, <2>1
  <2>3. IsInference(y) /\ y.at = "done" /\ y.id = x.id /\ y.ts = lastTs /\ y.poses = x.poses /\ y.frame = x.frame
    BY <1>2 DEF IsInference, InferenceFields
  <2>4. Reuses(y, n, lastPoses', lastId', lastTs')
    BY <1>2, <2>1, <2>3 DEF Reuses, MemoryIsNewest, TakenIsNewest
  <2> HIDE DEF y
  <2> QED BY <1>3, <2>1, <2>2, <2>3, <2>4
<1> QED BY <1>5, <1>6, <1>7, <1>8, <1>9, <1>10, <1>11, <1>12 DEF Infer

LEMMA EngineInvStep ==
    ASSUME EngineInv, [PerceptionNext]_perceptionVars
    PROVE  EngineInv'
<1>0. /\ mode \in {"live", "script"} /\ newest = [v \in Users |-> newest[v]] /\ infer = [v \in Users |-> infer[v]]
      /\ "live" \in Users /\ "recorded" \in Users
      /\ \A u \in Users : IsInference(infer[u]) /\ (u # Owner => At(u, "idle"))
  BY DEF EngineInv, EngineShape, Users
<1>a. ASSUME NEW u \in Users, NEW y, u = Owner, y.at \in {"idle", "cadence"}, y.reused = FALSE, IsInference(y),
             infer' = [infer EXCEPT ![u] = y], infer[u].at \in {"idle", "done"},
             UNCHANGED <<mode, newest, lastPoses, lastId, lastTs>>
      PROVE  EngineInv'
  <2>1. Reuses(y, newest[u], lastPoses', lastId', lastTs')
    BY <1>a DEF EngineInv, Reuses, MemoryIsNewest, TakenIsNewest
  <2> QED BY <1>0, <1>a, <2>1, OwnerMoves
<1>b. IsInference(Idle) /\ Idle.at = "idle" /\ Idle.reused = FALSE
  BY DEF IsInference, InferenceFields, Idle
<1>c. ASSUME NEW u \in Users, u = Owner, NEW fr, Start(u, fr), At(u, "idle"), UNCHANGED <<mode, newest, reuseState>>
      PROVE  EngineInv'
  <2>1. PICK i : infer' = [infer EXCEPT ![u] = [Idle EXCEPT !.at = "cadence", !.frame = fr, !.idx = i]]
    BY <1>c DEF Start
  <2> DEFINE y == [Idle EXCEPT !.at = "cadence", !.frame = fr, !.idx = i]
  <2>2. IsInference(y) /\ y.at = "cadence" /\ y.reused = FALSE
    BY DEF IsInference, InferenceFields, Idle
  <2> HIDE DEF y
  <2> QED BY <1>a, <1>c, <2>1, <2>2 DEF y, At, reuseState
<1>1. CASE TakeLiveFrame
  <2>1. mode = "live" /\ Owner = "live" /\ At("live", "idle") /\ UNCHANGED <<mode, newest, reuseState>>
    BY <1>0, <1>1 DEF TakeLiveFrame, Owner, settings
  <2>2. \E fr : Start("live", fr)
    BY <1>1 DEF TakeLiveFrame
  <2> QED BY <1>0, <1>c, <2>1, <2>2
<1>2. CASE ReadFile
  <2>1. mode = "script" /\ Owner = "recorded" /\ At("recorded", "idle") /\ UNCHANGED <<mode, newest, reuseState>>
    BY <1>0, <1>2 DEF ReadFile, Owner, settings
  <2>2. \E fr : Start("recorded", fr)
    BY <1>2 DEF ReadFile
  <2> QED BY <1>0, <1>c, <2>1, <2>2
<1>3. CASE PublishLive
  <2>1. /\ infer["live"].at = "done" /\ infer' = [infer EXCEPT !["live"] = Idle]
        /\ UNCHANGED <<mode, newest, lastPoses, lastId, lastTs>>
    BY <1>3 DEF PublishLive, At, settings, reuseState
  <2>2. Owner = "live"
    BY <1>0, <2>1 DEF At
  <2> QED BY <1>0, <1>a, <1>b, <2>1, <2>2
<1>4. CASE WriteLine
  <2>1. /\ infer["recorded"].at = "done" /\ infer' = [infer EXCEPT !["recorded"] = Idle]
        /\ UNCHANGED <<mode, newest, lastPoses, lastId, lastTs>>
    BY <1>4 DEF WriteLine, At, settings, reuseState
  <2>2. Owner = "recorded"
    BY <1>0, <2>1 DEF At
  <2> QED BY <1>0, <1>a, <1>b, <2>1, <2>2
<1>5. CASE EndRun \/ UNCHANGED perceptionVars
  <2>1. UNCHANGED <<mode, infer, newest, lastPoses, lastId, lastTs>>
    BY <1>5 DEF EndRun, perceptionVars, settings, reuseState
  <2> QED BY <2>1 DEF EngineInv, EngineShape, Owner, At
<1> QED BY <1>1, <1>2, <1>3, <1>4, <1>5, InferStep DEF PerceptionNext

\* The poses a stream reuses are the newest it inferred, under the frame and the
\* time they came from, and no older than pose_max_reuse_ms, at every cadence
\* and whatever the pose model does, as long as one stream uses the engine
\* (PerceptionEngine.infer; the API's recorded analysis shares it).
THEOREM ReusedPosesAreNewest == PerceptionSpec => [](mode # "api" => ReuseIsSound)
<1> DEFINE Inv == mode # "api" => EngineInv
<1>1. PerceptionInit => Inv
  BY EngineInvInit
<1>2. ASSUME [PerceptionNext]_perceptionVars
      PROVE  mode' = mode
  BY <1>2 DEF PerceptionNext, perceptionVars, TakeLiveFrame, PublishLive, ReadFile, WriteLine, EndRun, Infer,
              DecidePose, RunPose, StoreId, StoreTs, CheckReuse, TakePoses, TakeId, TakeTs, settings
<1>3. Inv /\ [PerceptionNext]_perceptionVars => Inv'
  BY <1>2, EngineInvStep
<1>4. Inv => (mode # "api" => ReuseIsSound)
  BY DEF EngineInv, EngineShape, Reuses, TakenIsNewest, ReuseIsSound, At
<1> QED BY <1>1, <1>3, <1>4, PTL DEF PerceptionSpec

---------------------------------------------------------------------------
(* From the profile to the last thread.                                    *)

LEMMA FirstOfPreference ==
    ASSUME NEW S
    PROVE  First(S) = IF "cuda" \in S THEN 1 ELSE IF "directml" \in S THEN 2 ELSE IF "cpu" \in S THEN 3 ELSE 0
<1> DEFINE I == {i \in 1 .. 3 : Preference[i] \in S}
           m == IF "cuda" \in S THEN 1 ELSE IF "directml" \in S THEN 2 ELSE 3
<1>1. First(S) = IF I # {} THEN Min(I) ELSE 0
  BY DEF First, SelectInSeq, Preference
<1>2. Preference[1] = "cuda" /\ Preference[2] = "directml" /\ Preference[3] = "cpu"
  BY DEF Preference
<1>3. I # {} => m \in I /\ \A j \in I : m <= j
  BY <1>2
<1>4. I = {} <=> S \cap {"cuda", "directml", "cpu"} = {}
  BY <1>2
<1>5. I # {} => Min(I) = m
  <2>1. SUFFICES ASSUME I # {}
                 PROVE  Min(I) = m
    OBVIOUS
  <2>2. I \subseteq Nat
    OBVIOUS
  <2> HIDE DEF I, m
  <2> DEFINE n == Min(I)
  <2>3. n \in I /\ \A j \in I : n <= j
    BY <1>3, <2>1 DEF Min
  <2> HIDE DEF n
  <2>4. n \in Nat /\ m \in Nat /\ n <= m /\ m <= n
    BY <1>3, <2>1, <2>2, <2>3
  <2>5. n = m
    BY <2>4
  <2> QED BY <2>5 DEF n
<1> HIDE DEF I
<1> QED BY <1>1, <1>4, <1>5

\* The provider c asks for, or under auto the best there is.
AsAsked(c, p) ==
    /\ c.provider # "auto" => p = c.provider
    /\ c.provider = "auto" => \A q \in machine.present : First({q}) # 0 => First({p}) <= First({q})
    /\ p \notin machine.broken

LEMMA ResolvedIsAsAsked ==
    ASSUME NEW c, SessionStarts(ResolveProvider(c.provider))
    PROVE  AsAsked(c, Actual(ResolveProvider(c.provider)))
<1> DEFINE p == ResolveProvider(c.provider)
<1>1. p # None /\ p \notin machine.broken /\ Actual(p) = p
  BY DEF SessionStarts, Actual
<1>2. CASE c.provider # "auto"
  BY <1>1, <1>2 DEF ResolveProvider, AsAsked
<1>3. CASE c.provider = "auto"
  <2>1. ASSUME NEW q \in machine.present, First({q}) # 0
        PROVE  First({p}) <= First({q})
    <3>1. q \in {"cuda", "directml", "cpu"}
      BY <2>1, FirstOfPreference
    <3>2. First(machine.present) = IF "cuda" \in machine.present THEN 1 ELSE
                                   IF "directml" \in machine.present THEN 2 ELSE
                                   IF "cpu" \in machine.present THEN 3 ELSE 0
      BY FirstOfPreference
    <3>3. p = IF First(machine.present) = 0 THEN "cpu" ELSE Preference[First(machine.present)]
      BY <1>3 DEF ResolveProvider
    <3>4. p = IF "cuda" \in machine.present THEN "cuda" ELSE
              IF "directml" \in machine.present THEN "directml" ELSE "cpu"
      BY <3>2, <3>3 DEF Preference
    <3> HIDE DEF p
    <3>5. CASE p = "cuda"
      <4>1. First({p}) = 1
        BY <3>5, FirstOfPreference
      <4>2. First({q}) \in 1 .. 3
        BY <3>1, FirstOfPreference
      <4> QED BY <4>1, <4>2
    <3>6. CASE p = "directml"
      <4>1. First({p}) = 2 /\ q # "cuda"
        BY <3>4, <3>6, FirstOfPreference
      <4>2. First({q}) \in 2 .. 3
        BY <3>1, <4>1, FirstOfPreference
      <4> QED BY <4>1, <4>2
    <3>7. CASE p = "cpu"
      <4>1. First({p}) = 3 /\ q = "cpu"
        BY <3>1, <3>4, <3>7, FirstOfPreference
      <4> QED BY <3>7, <4>1
    <3> QED BY <3>4, <3>5, <3>6, <3>7
  <2> QED BY <1>1, <1>3, <2>1 DEF AsAsked
<1> QED BY <1>2, <1>3

SessionsAsAsked == \A r \in Roles : sessions[r] # None => AsAsked(config, sessions[r])

BeforeServing == {"load", "source", "engine", "loop", "app", "start", "refused"}

\* How far the process has come, and what there is by then.
Progress ==
    /\ step \in BeforeServing \cup {"serving", "manifest", "draining", "ended", "stopped"}
    /\ step \notin {"load", "source", "refused"} => SourceFits(config) /\ source = config.kind
    /\ step \in {"load", "source"} => sessions = [r \in Roles |-> None]
    /\ step \in {"load", "source", "engine", "loop"} => shown = Unset
    /\ step \in {"load", "source", "engine"} => sessions = [r \in Roles |-> None]
    /\ DOMAIN sessions = Roles
    /\ step # "refused" => SessionsAsAsked

Reports ==
    /\ step \notin {"load", "source", "engine", "loop", "refused"} => identity.classifier = loaded
    /\ step \in BeforeServing => shown = Unset
    /\ shown # Unset => /\ shown.classifier = loaded
                        /\ shown.provider = ActiveProvider

Shutdown ==
    /\ executor \in {None, "open", "closing", "closed"}
    /\ loop \in [threads : {"new", "running", "overdue", "stopped"}, error : BOOLEAN]
    /\ step \in BeforeServing => loop.threads = "new"
    /\ step \in {"manifest", "draining", "ended"} => loop.threads = "stopped" \/ loop.error
    /\ step = "stopped" => loop.threads = "stopped"
    /\ step \in {"draining", "ended", "stopped"} => executor # "open"
    /\ step \in {"ended", "stopped"} => executor \in {None, "closed"} /\ jobs = 0

StartupInv == Progress /\ Reports /\ Shutdown

LEMMA StartupInvInit == StartupInit => StartupInv
<1> SUFFICES ASSUME StartupInit
             PROVE  StartupInv
  OBVIOUS
<1>1. /\ step = "load" /\ sessions = [r \in Roles |-> None] /\ shown = Unset /\ executor = None
      /\ loop = [threads |-> "new", error |-> FALSE]
  BY DEF StartupInit
<1>2. Progress
  BY <1>1 DEF Progress, SessionsAsAsked, BeforeServing
<1>3. Reports
  BY <1>1 DEF Reports
<1>4. Shutdown
  BY <1>1 DEF Shutdown, BeforeServing
<1> QED BY <1>2, <1>3, <1>4 DEF StartupInv

LEMMA StartupInvStep ==
    ASSUME StartupInv, [StartupNext]_startupVars
    PROVE  StartupInv'
<1>0. Progress /\ Reports /\ Shutdown
  BY DEF StartupInv
<1>a. ASSUME UNCHANGED <<machine, config, sessions, source>>,
             step' = step \/ (step' \in BeforeServing \cup {"serving", "manifest", "draining", "ended", "stopped"}
                              /\ step \notin {"load", "source", "engine", "refused"} /\ step' \notin {"load", "source", "engine", "loop"}),
             shown' = Unset \/ step' \notin {"load", "source", "engine", "loop"}
      PROVE  Progress'
  BY <1>0, <1>a DEF Progress, SessionsAsAsked, AsAsked, SourceFits
<1>b. UNCHANGED machine
  BY DEF StartupNext, startupVars, Fixed, LoadConfig, BuildSource, BuildPerception, BuildLoop, CreateApp, StartServing,
         SubmitJob, FinishJob, EditRegistries, ReportRuntime, StopLoop, OverdueThreadEnds,
         CloseExecutor, LifespanEnds, ProcessEnds
<1>1. CASE LoadConfig
  <2>1. /\ step = "load" /\ step' = "source" /\ UNCHANGED <<source, sessions, identity, loaded, loop, jobs, executor, shown>>
    BY <1>1 DEF LoadConfig, Proposals, Reported
  <2>2. sessions' = [r \in Roles |-> None] /\ shown' = Unset
    BY <1>0, <2>1 DEF Progress
  <2>3. Progress'
    BY <2>1, <2>2 DEF Progress, SessionsAsAsked, BeforeServing
  <2>4. Reports' /\ Shutdown'
    BY <1>0, <2>1, <2>2 DEF Reports, Shutdown, BeforeServing
  <2> QED BY <2>3, <2>4 DEF StartupInv
<1>2. CASE BuildSource
  <2>1. /\ step = "source" /\ step' \in {"engine", "refused"}
        /\ step' = "engine" => SourceFits(config) /\ source' = config.kind
        /\ UNCHANGED <<config, sessions, identity, loaded, loop, jobs, executor, shown>>
    BY <1>2 DEF BuildSource, Proposals, Reported
  <2>2. sessions' = [r \in Roles |-> None] /\ shown' = Unset
    BY <1>0, <2>1 DEF Progress
  <2>3. Progress'
    BY <1>b, <2>1, <2>2 DEF Progress, SessionsAsAsked, BeforeServing, SourceFits
  <2>4. Reports' /\ Shutdown'
    BY <1>0, <2>1, <2>2 DEF Reports, Shutdown, BeforeServing
  <2> QED BY <2>3, <2>4 DEF StartupInv
<1>3. CASE BuildPerception
  <2> DEFINE alias == ResolveProvider(config.provider)
  <2>1. /\ step = "engine" /\ UNCHANGED <<config, source, identity, loaded, loop, jobs, executor, shown>>
        /\ \/ step' = "refused" /\ UNCHANGED sessions
           \/ step' = "loop" /\ UNCHANGED sessions
           \/ /\ step' = "loop" /\ SessionStarts(alias)
              /\ sessions' = [r \in Roles |-> IF r \in config.wants THEN Actual(alias) ELSE None]
    BY <1>3 DEF BuildPerception, EngineStarts, Proposals, Reported
  <2>2. sessions = [r \in Roles |-> None] /\ shown' = Unset /\ source = config.kind /\ SourceFits(config)
    BY <1>0, <2>1 DEF Progress
  <2>3. \A r \in Roles : sessions'[r] # None => AsAsked(config, sessions'[r])
    <3>1. CASE UNCHANGED sessions
      BY <2>2, <3>1
    <3>2. CASE SessionStarts(alias) /\ sessions' = [r \in Roles |-> IF r \in config.wants THEN Actual(alias) ELSE None]
      BY <3>2, ResolvedIsAsAsked
    <3> QED BY <2>1, <3>1, <3>2
  <2>4. DOMAIN sessions' = Roles
    BY <2>1, <2>2
  <2>5. SessionsAsAsked'
    BY <1>b, <2>1, <2>3 DEF SessionsAsAsked, AsAsked
  <2>6. Progress'
    BY <1>b, <2>1, <2>2, <2>4, <2>5 DEF Progress, BeforeServing, SourceFits
  <2>7. Reports' /\ Shutdown'
    BY <1>0, <2>1, <2>2 DEF Reports, Shutdown, BeforeServing
  <2> QED BY <2>6, <2>7 DEF StartupInv
<1>4. CASE BuildLoop
  <2> DEFINE alias == ResolveProvider(config.provider)
             active == config.classifier /\ entry.version # NoVersion
             starts == active /\ entry.loads /\ SessionStarts(alias)
  <2>1. /\ step = "loop" /\ step' = "app" /\ UNCHANGED <<config, source, loop, jobs, executor, shown>>
        /\ sessions' = [sessions EXCEPT !["classifier"] = IF starts THEN Actual(alias) ELSE None]
    BY <1>4 DEF BuildLoop, Proposals, Reported
  <2>2. loaded' = identity'.classifier
    BY <1>4 DEF BuildLoop, NamedVersion
  <2>3. SessionsAsAsked /\ DOMAIN sessions = Roles /\ shown = Unset /\ source = config.kind /\ SourceFits(config)
    BY <1>0, <2>1 DEF Progress
  <2>4. ASSUME NEW r \in Roles, sessions'[r] # None
        PROVE  AsAsked(config, sessions'[r])
    <3>1. starts => AsAsked(config, Actual(alias))
      BY ResolvedIsAsAsked
    <3> HIDE DEF starts, alias
    <3>2. CASE r = "classifier"
      BY <2>1, <2>3, <2>4, <3>1, <3>2
    <3>3. CASE r # "classifier"
      BY <2>1, <2>3, <2>4, <3>3 DEF SessionsAsAsked
    <3> QED BY <3>2, <3>3
  <2>5. SessionsAsAsked' /\ DOMAIN sessions' = Roles
    <3>1. DOMAIN sessions' = Roles
      BY <2>1, <2>3
    <3> QED BY <1>b, <2>1, <2>4, <3>1 DEF SessionsAsAsked, AsAsked
  <2>6. Progress'
    BY <1>b, <2>1, <2>3, <2>5 DEF Progress, BeforeServing, SourceFits
  <2>7. Reports' /\ Shutdown'
    BY <1>0, <2>1, <2>2, <2>3 DEF Reports, Shutdown, BeforeServing
  <2> QED BY <2>6, <2>7 DEF StartupInv
<1>5. CASE CreateApp
  <2>1. /\ step = "app" /\ step' = "start" /\ executor' \in {None, "open"}
        /\ UNCHANGED <<config, source, sessions, identity, loaded, loop, jobs, shown>>
    BY <1>5 DEF CreateApp, Reported
  <2>2. shown' = Unset
    BY <1>0, <2>1 DEF Reports, BeforeServing
  <2>3. Reports' /\ Shutdown'
    BY <1>0, <2>1, <2>2 DEF Reports, Shutdown, BeforeServing
  <2> QED BY <1>a, <1>b, <2>1, <2>2, <2>3 DEF StartupInv, BeforeServing
<1>6. CASE StartServing
  <2>1. /\ step = "start" /\ step' \in {"refused", "serving"}
        /\ UNCHANGED <<config, source, sessions, identity, loaded, jobs, executor, shown>>
        /\ step' = "refused" => loop' = loop
        /\ step' = "serving" => loop' = [loop EXCEPT !.threads = "running"]
    BY <1>6 DEF StartServing, Proposals, Reported
  <2>2. shown' = Unset
    BY <1>0, <2>1 DEF Reports, BeforeServing
  <2>3. Reports' /\ Shutdown'
    BY <1>0, <2>1, <2>2 DEF Reports, Shutdown, BeforeServing
  <2> QED BY <1>a, <1>b, <2>1, <2>2, <2>3 DEF StartupInv, BeforeServing
<1>7. CASE SubmitJob
  <2>1. step = "serving" /\ UNCHANGED <<step, config, source, sessions, identity, loaded, loop, executor, shown>>
    BY <1>7 DEF SubmitJob, Reported
  <2>2. Reports' /\ Shutdown'
    BY <1>0, <2>1 DEF Reports, Shutdown, ActiveProvider, BeforeServing
  <2> QED BY <1>a, <1>b, <2>1, <2>2 DEF StartupInv
<1>8. CASE FinishJob
  <2>1. executor \in {"open", "closing"} /\ UNCHANGED <<step, config, source, sessions, identity, loaded, loop, executor, shown>>
    BY <1>8 DEF FinishJob, Reported
  <2>2. step \notin {"ended", "stopped"}
    BY <1>0, <2>1 DEF Shutdown, None
  <2>3. Reports' /\ Shutdown'
    BY <1>0, <2>1, <2>2 DEF Reports, Shutdown, ActiveProvider, BeforeServing
  <2>4. Progress'
    BY <1>0, <1>b, <2>1 DEF Progress, SessionsAsAsked, AsAsked, SourceFits
  <2> QED BY <2>3, <2>4 DEF StartupInv
<1>9. CASE EditRegistries \/ UNCHANGED startupVars
  <2>1. UNCHANGED <<step, config, source, sessions, identity, loaded, loop, executor, jobs, shown>>
    BY <1>9 DEF EditRegistries, startupVars, Proposals, Reported
  <2>2. Reports' /\ Shutdown'
    BY <1>0, <2>1 DEF Reports, Shutdown, ActiveProvider, BeforeServing
  <2>3. Progress'
    BY <1>0, <1>b, <2>1 DEF Progress, SessionsAsAsked, AsAsked, SourceFits
  <2> QED BY <2>2, <2>3 DEF StartupInv
<1>10. CASE ReportRuntime \/ CloseExecutor
  <2>1. /\ shown' = [provider |-> ActiveProvider, classifier |-> identity.classifier]
        /\ UNCHANGED <<config, source, sessions, identity, loaded, loop, jobs>>
        /\ \/ step = "serving" /\ step' = step /\ executor' = executor
           \/ step = "manifest" /\ step' = "draining" /\ executor' = IF executor = "open" THEN "closing" ELSE executor
    BY <1>10 DEF ReportRuntime, CloseExecutor, Proposals
  <2>2. shown'.classifier = loaded' /\ shown'.provider = ActiveProvider'
    BY <1>0, <2>1 DEF Reports, ActiveProvider
  <2>3. Reports' /\ Shutdown'
    BY <1>0, <2>1, <2>2 DEF Reports, Shutdown, BeforeServing
  <2> QED BY <1>a, <1>b, <2>1, <2>3 DEF StartupInv
<1>11. CASE StopLoop
  <2>1. /\ step = "serving" /\ step' = "manifest"
        /\ UNCHANGED <<config, source, sessions, identity, loaded, jobs, executor, shown>>
        /\ loop'.threads = "stopped" \/ loop'.error
        /\ loop' \in [threads : {"stopped", "overdue"}, error : BOOLEAN]
    BY <1>11 DEF StopLoop, Proposals, Reported
  <2>2. Reports' /\ Shutdown'
    BY <1>0, <2>1 DEF Reports, Shutdown, BeforeServing, ActiveProvider
  <2> QED BY <1>a, <1>b, <2>1, <2>2 DEF StartupInv
<1>12. CASE OverdueThreadEnds
  <2>1. /\ loop.threads = "overdue" /\ loop' = [loop EXCEPT !.threads = "stopped"]
        /\ UNCHANGED <<step, config, source, sessions, identity, loaded, jobs, executor, shown>>
    BY <1>12 DEF OverdueThreadEnds, Proposals, Reported
  <2>2. loop'.threads = "stopped" /\ step \notin BeforeServing
    BY <1>0, <2>1 DEF Shutdown
  <2>3. Reports' /\ Shutdown'
    BY <1>0, <2>1, <2>2 DEF Reports, Shutdown, BeforeServing, ActiveProvider
  <2>4. Progress'
    BY <1>0, <1>b, <2>1 DEF Progress, SessionsAsAsked, AsAsked, SourceFits
  <2> QED BY <2>3, <2>4 DEF StartupInv
<1>13. CASE LifespanEnds \/ ProcessEnds
  <2>1. /\ UNCHANGED <<config, source, sessions, identity, loaded, loop, jobs, shown>>
        /\ \/ step = "ended" /\ step' = "stopped" /\ loop.threads = "stopped" /\ executor' = executor
           \/ /\ step = "draining" /\ step' = "ended" /\ jobs = 0
              /\ executor' = IF executor = "closing" THEN "closed" ELSE executor
    BY <1>13 DEF LifespanEnds, ProcessEnds, Drained, Proposals, Reported
  <2>2. Reports' /\ Shutdown'
    BY <1>0, <2>1 DEF Reports, Shutdown, BeforeServing, ActiveProvider
  <2> QED BY <1>a, <1>b, <2>1, <2>2 DEF StartupInv
<1> QED BY <1>1, <1>2, <1>3, <1>4, <1>5, <1>6, <1>7, <1>8, <1>9, <1>10, <1>11, <1>12, <1>13 DEF StartupNext

\* Whatever the profile, the command line, the machine and the registries: a
\* process that serves takes its frames from the side that owns the camera, all
\* its sessions are on the provider that was asked for, what it reports is of
\* what it runs, a thread that outlasts its join is on record as an error, and
\* when the process is over its jobs have run and its threads have ended
\* (settings.py, runtime.py, loop.py, app.py).
THEOREM ServesWhatWasAsked == StartupSpec => []ServesAsAsked
<1>1. StartupInv => ServesAsAsked
  <2> SUFFICES ASSUME StartupInv
               PROVE  ServesAsAsked
    OBVIOUS
  <2>1. RunsAsAsked
    BY DEF StartupInv, Progress, RunsAsAsked, Serving, SessionsAsAsked, AsAsked, SourceFits
  <2>2. ReportIsOfWhatRuns
    BY DEF StartupInv, Reports, ReportIsOfWhatRuns, ActiveProvider
  <2>3. NothingOutlivesShutdown
    BY DEF StartupInv, Shutdown, Progress, BeforeServing, NothingOutlivesShutdown, ThreadsLeft
  <2> QED BY <2>1, <2>2, <2>3 DEF ServesAsAsked
<1> QED BY <1>1, StartupInvInit, StartupInvStep, PTL DEF StartupSpec

---------------------------------------------------------------------------
(* One frame, one set of candidate pairs or one evaluated image.           *)

LEMMA RecognitionConstants ==
    /\ "unknown" \notin Universe /\ "Unknown" \notin Universe
    /\ Threshold \in [Universe -> Int]
    /\ \A k \in Kinds : k.class \in Universe /\ k.score \in Int
    /\ NBoxes \in Nat \ {0} /\ NScored \in Nat \ {0} /\ MaxDetections \in Nat \ {0}
    /\ Grades \subseteq Nat
    /\ \E top \in Grades : \A x \in Grades : x <= top
BY RecognitionAssumption DEF Detections

\* A set of naturals has a least element.
LEMMA LeastOfNaturals ==
    ASSUME NEW S \in SUBSET Nat, S # {}
    PROVE  \E x \in S : \A y \in S : x <= y
<1> DEFINE R == OpToRel(<, Nat)
<1>1. \E x \in S : \A y \in S : ~ (<<y, x>> \in R)
  BY WFMin, NatLessThanWellFounded
<1>2. \A x, y \in Nat : x < y => <<x, y>> \in R
  BY DEF OpToRel
<1> HIDE DEF R
<1>3. PICK x \in S : \A y \in S : ~ (<<y, x>> \in R)
  BY <1>1
<1>4. ASSUME NEW y \in S
      PROVE  x <= y
  <2>1. y \in Nat /\ x \in Nat /\ ~ (y < x)
    BY <1>2, <1>3
  <2> QED BY <2>1
<1> QED BY <1>4

\* Suppression, part way: of the boxes looked at, those kept come by falling
\* score, none of a class clashing, and each one dropped gave way to a better.
KeptSound(f, rest, keep) ==
    /\ \A k \in ToSet(keep), d \in rest : f.boxes[k].score >= f.boxes[d].score
    /\ \A i, j \in DOMAIN keep : i < j => f.boxes[keep[i]].score >= f.boxes[keep[j]].score
    /\ \A d \in Boxes \ (rest \cup ToSet(keep)) : \E k \in ToSet(keep) :
            /\ f.boxes[k].class = f.boxes[d].class /\ Clash(f, k, d)
            /\ f.boxes[k].score >= f.boxes[d].score
    /\ \A k, d \in ToSet(keep) : (k # d /\ Clash(f, k, d)) => f.boxes[k].class # f.boxes[d].class

LEMMA SortedSoFar ==
    ASSUME NEW f, f.boxes \in [Boxes -> Kinds], NEW rest \in SUBSET Boxes, NEW keep \in Seq(Boxes),
           KeptSound(f, rest, keep),
           NEW d \in rest, \A e \in rest : f.boxes[d].score >= f.boxes[e].score,
           NEW more \in Seq(Boxes), more = IF Suppressed(f, keep, d) THEN keep ELSE Append(keep, d)
    PROVE  KeptSound(f, rest \ {d}, more)
<1>1. \A x \in Boxes : f.boxes[x].score \in Int
  BY RecognitionConstants
<1>2. \A a, b : Clash(f, a, b) <=> Clash(f, b, a)
  BY DEF Clash
<1>3. ToSet(keep) \subseteq Boxes
  BY DEF ToSet
<1>4. CASE Suppressed(f, keep, d)
  <2>1. PICK k \in ToSet(keep) : f.boxes[k].class = f.boxes[d].class /\ Clash(f, k, d)
    BY <1>4 DEF Suppressed
  <2>2. f.boxes[k].score >= f.boxes[d].score
    BY <2>1 DEF KeptSound
  <2> QED BY <1>4, <2>1, <2>2 DEF KeptSound
<1>5. CASE ~ Suppressed(f, keep, d)
  <2>1. more = Append(keep, d)
    BY <1>5
  <2>2. Len(keep) \in Nat /\ DOMAIN keep = 1 .. Len(keep) /\ DOMAIN more = 1 .. Len(keep) + 1
    BY <2>1, AppendProperties, LenProperties
  <2>3. more[Len(keep) + 1] = d /\ \A i \in DOMAIN keep : more[i] = keep[i]
    BY <2>1, <2>2, AppendProperties
  <2>4. ToSet(more) = ToSet(keep) \cup {d}
    BY <2>2, <2>3 DEF ToSet
  <2>5. \A k \in ToSet(more), e \in rest \ {d} : f.boxes[k].score >= f.boxes[e].score
    BY <2>4 DEF KeptSound
  <2>6. ASSUME NEW i \in DOMAIN more, NEW j \in DOMAIN more, i < j
        PROVE  f.boxes[more[i]].score >= f.boxes[more[j]].score
    <3>1. i \in DOMAIN keep
      BY <2>2, <2>6
    <3>2. CASE j \in DOMAIN keep
      BY <2>3, <2>6, <3>1, <3>2 DEF KeptSound
    <3>3. CASE j = Len(keep) + 1
      <4>1. more[i] \in ToSet(keep) /\ more[j] = d
        BY <2>3, <3>1, <3>3 DEF ToSet
      <4> QED BY <4>1 DEF KeptSound
    <3> QED BY <2>2, <3>2, <3>3
  <2>7. \A e \in Boxes \ ((rest \ {d}) \cup ToSet(more)) : \E k \in ToSet(more) :
            /\ f.boxes[k].class = f.boxes[e].class /\ Clash(f, k, e)
            /\ f.boxes[k].score >= f.boxes[e].score
    BY <2>4 DEF KeptSound
  <2>8. \A k \in ToSet(keep) : Clash(f, k, d) => f.boxes[k].class # f.boxes[d].class
    BY <1>5 DEF Suppressed
  <2>9. \A k, e \in ToSet(more) : (k # e /\ Clash(f, k, e)) => f.boxes[k].class # f.boxes[e].class
    BY <1>2, <2>4, <2>8 DEF KeptSound
  <2> QED BY <2>5, <2>6, <2>7, <2>9 DEF KeptSound
<1> QED BY <1>4, <1>5

LEMMA CapKeepsTheBest ==
    ASSUME NEW f, NEW rest, NEW keep \in Seq(Boxes), KeptSound(f, rest, keep),
           NEW d \in ToSet(keep) \ ToSet(Capped(keep)), NEW k \in ToSet(Capped(keep))
    PROVE  f.boxes[k].score >= f.boxes[d].score
<1>1. Len(keep) > MaxDetections /\ Capped(keep) = SubSeq(keep, 1, MaxDetections)
  BY RecognitionConstants, LenProperties DEF Capped
<1>2. Len(keep) \in Nat /\ DOMAIN keep = 1 .. Len(keep)
  BY LenProperties
<1>3. /\ DOMAIN Capped(keep) = 1 .. MaxDetections
      /\ \A i \in 1 .. MaxDetections : Capped(keep)[i] = keep[i]
  BY <1>1, <1>2, RecognitionConstants
<1>4. PICK i \in 1 .. MaxDetections : k = keep[i]
  BY <1>3 DEF ToSet
<1>5. PICK j \in DOMAIN keep : d = keep[j]
  BY DEF ToSet
<1>6. j \notin 1 .. MaxDetections
  BY <1>3, <1>5 DEF ToSet
<1>7. i \in DOMAIN keep /\ i < j
  BY <1>1, <1>2, <1>4, <1>5, <1>6, RecognitionConstants
<1> QED BY <1>4, <1>5, <1>7 DEF KeptSound

\* What is drawn under its class name passes the rules.
LEMMA DrawnPasses ==
    ASSUME NEW r, NEW v, NEW k \in Kinds, v.domain, Drawn(r, v, k) = k.class
    PROVE  Passes(r, v, k)
<1>1. k.class # "unknown" /\ k.class # "Unknown" /\ Threshold[k.class] \in Int /\ k.score \in Int
  BY RecognitionConstants
<1>2. SUFFICES ASSUME r.enabled, v.policy
               PROVE  Passes(r, v, k)
  BY DEF Passes
<1>3. \/ PolicyState(r, k) = "unknown_margin" /\ ~ v.margin
      \/ PolicyState(r, k) \in {"accepted", "accepted_secondary"}
  BY <1>1, <1>2 DEF Drawn
<1>4. ~ k.small /\ ~ (r.domain /\ Tier(k.class) = "implausible")
  BY <1>2, <1>3 DEF PolicyState
<1>5. PolicyState(r, k) = IF k.score < Threshold[k.class] THEN "unknown_low_confidence"
                          ELSE IF k.close THEN "unknown_margin"
                          ELSE IF Tier(k.class) = "secondary" THEN "accepted_secondary" ELSE "accepted"
  BY <1>2, <1>4 DEF PolicyState
<1>6. ~ (k.score < Threshold[k.class]) /\ (v.margin => ~ k.close)
  BY <1>3, <1>5
<1> QED BY <1>1, <1>4, <1>6 DEF Passes

\* Tracks and detections, part way: pairs still to look at score no more than
\* those taken, and each one passed over shares a side with one that was taken.
PairsSound(s, rest, m) ==
    /\ m \subseteq Eligible(s) /\ rest \subseteq Eligible(s)
    /\ \A q \in m, p \in rest : s[q] >= s[p]
    /\ \A p, q \in m : p # q => p[1] # q[1] /\ p[2] # q[2]
    /\ \A p \in Eligible(s) \ (rest \cup m) : \E q \in m : (q[1] = p[1] \/ q[2] = p[2]) /\ s[q] >= s[p]

LEMMA PairedSoFar ==
    ASSUME NEW s \in [Boxes \X Boxes -> Grades], NEW rest, NEW m, PairsSound(s, rest, m),
           NEW p \in rest, \A q \in rest \ {p} : Before(s, p, q)
    PROVE  PairsSound(s, rest \ {p}, IF \E q \in m : q[1] = p[1] \/ q[2] = p[2] THEN m ELSE m \cup {p})
<1>1. \A q \in Eligible(s) : s[q] \in Nat
  BY RecognitionConstants DEF Eligible
<1>2. \A q \in rest \ {p} : s[p] >= s[q]
  BY <1>1 DEF Before, PairsSound
<1> HIDE DEF Eligible
<1>3. CASE \E q \in m : q[1] = p[1] \/ q[2] = p[2]
  BY <1>3 DEF PairsSound
<1>4. CASE ~ \E q \in m : q[1] = p[1] \/ q[2] = p[2]
  BY <1>2, <1>4 DEF PairsSound
<1> QED BY <1>3, <1>4

\* An evaluated image, part way: the predictions looked at score no less than
\* the others, and each one that overlaps a box enough is in a pair, or the
\* box is.
ClaimsSound(f, rest, m) ==
    /\ \A q \in m : q \in Scored \X Scored /\ q[2] \notin rest /\ f.iou[q] >= 1
    /\ \A p, q \in m : p # q => p[1] # q[1] /\ p[2] # q[2]
    /\ \A q \in m, p \in rest : f.preds[q[2]].score >= f.preds[p].score
    /\ \A g \in Scored, p \in Scored \ rest : f.iou[<<g, p>>] >= 1 =>
            \/ \E q \in m : q[2] = p /\ f.iou[q] >= f.iou[<<g, p>>]
            \/ \E q \in m : q[1] = g /\ f.preds[q[2]].score >= f.preds[p].score

\* While a box is free there is a nearest, and a first of those.
LEMMA SomeNearest ==
    ASSUME NEW f, f.iou \in [Scored \X Scored -> Grades], NEW m, NEW p \in Scored,
           NEW h \in Scored, Free(m, h)
    PROVE  \E g \in Nearest(f, m, p) : \A e \in Nearest(f, m, p) : g <= e
<1>1. PICK top \in Nat : \A g \in Scored : f.iou[<<g, p>>] \in Nat /\ f.iou[<<g, p>>] <= top
  BY RecognitionConstants
<1> DEFINE far(g) == top - f.iou[<<g, p>>]
           D == {far(g) : g \in {x \in Scored : Free(m, x)}}
           N == Nearest(f, m, p)
<1>2. D \in SUBSET Nat /\ D # {}
  <2>1. \A g \in Scored : far(g) \in Nat
    BY <1>1
  <2>2. far(h) \in D
    OBVIOUS
  <2> QED BY <2>1, <2>2
<1>3. PICK x \in D : \A y \in D : x <= y
  <2> HIDE DEF D
  <2> QED BY <1>2, LeastOfNaturals
<1>4. PICK g \in Scored : Free(m, g) /\ x = far(g)
  BY <1>3
<1>5. ASSUME NEW e \in Scored, Free(m, e)
      PROVE  f.iou[<<g, p>>] >= f.iou[<<e, p>>]
  <2>1. far(g) <= far(e)
    BY <1>3, <1>4, <1>5
  <2> QED BY <1>1, <1>4, <2>1
<1>6. N \in SUBSET Nat /\ N # {}
  BY <1>4, <1>5, RecognitionConstants DEF Nearest, Scored
<1> HIDE DEF N
<1>7. \E y \in N : \A e \in N : y <= e
  BY <1>6, LeastOfNaturals
<1> QED BY <1>7 DEF N

LEMMA ClaimedSoFar ==
    ASSUME NEW f, f.iou \in [Scored \X Scored -> Grades],
           \A x \in Scored : f.preds[x].score \in Nat,
           NEW rest \in SUBSET Scored, NEW m, ClaimsSound(f, rest, m),
           NEW p \in rest, \A q \in rest \ {p} : Earlier(f.preds, p, q),
           NEW new, new = {q \in Nearest(f, m, p) \X {p} :
                               f.iou[q] >= 1 /\ \A g \in Nearest(f, m, p) : q[1] <= g}
    PROVE  ClaimsSound(f, rest \ {p}, m \cup new)
<1>1. \A q \in Scored \X Scored : f.iou[q] \in Nat
  BY RecognitionConstants
<1>2. \A q \in rest \ {p} : f.preds[p].score >= f.preds[q].score
  BY DEF Earlier
<1>3. \A q \in new : /\ q \in Scored \X Scored /\ q[1] \in Nearest(f, m, p) /\ q[2] = p
                      /\ f.iou[q] >= 1 /\ Free(m, q[1])
  BY DEF Nearest
<1>4. \A q, r \in new : q = r
  <2>1. SUFFICES ASSUME NEW q \in new, NEW r \in new
                 PROVE  q = r
    OBVIOUS
  <2>2. q[1] \in Nat /\ r[1] \in Nat
    BY <1>3 DEF Scored
  <2>3. q[1] <= r[1] /\ r[1] <= q[1]
    BY <1>3
  <2>4. q[1] = r[1]
    BY <2>2, <2>3
  <2>5. q = <<q[1], q[2]>> /\ r = <<r[1], r[2]>>
    BY <1>3
  <2> QED BY <1>3, <2>4, <2>5
<1>5. \A q \in m : q \in Scored \X Scored /\ q[2] \notin rest /\ f.iou[q] >= 1
  BY DEF ClaimsSound
<1>6. \A q \in m \cup new : q \in Scored \X Scored /\ q[2] \notin rest \ {p} /\ f.iou[q] >= 1
  BY <1>3, <1>5
<1>7. \A q \in m, r \in new : q[1] # r[1] /\ q[2] # r[2]
  BY <1>3, <1>5 DEF Free
<1>8. \A q, r \in m \cup new : q # r => q[1] # r[1] /\ q[2] # r[2]
  BY <1>4, <1>7 DEF ClaimsSound
<1>9. \A q \in m \cup new, r \in rest \ {p} : f.preds[q[2]].score >= f.preds[r].score
  BY <1>2, <1>3 DEF ClaimsSound
<1>10. ASSUME NEW g \in Scored, f.iou[<<g, p>>] >= 1
       PROVE  \/ \E q \in m \cup new : q[2] = p /\ f.iou[q] >= f.iou[<<g, p>>]
              \/ \E q \in m \cup new : q[1] = g /\ f.preds[q[2]].score >= f.preds[p].score
  <2>1. CASE Free(m, g)
    <3>1. PICK n \in Nearest(f, m, p) : \A e \in Nearest(f, m, p) : n <= e
      BY <2>1, SomeNearest
    <3>2. n \in Scored /\ f.iou[<<n, p>>] >= f.iou[<<g, p>>]
      BY <2>1 DEF Nearest
    <3>3. f.iou[<<n, p>>] >= 1
      BY <1>1, <1>10, <3>2
    <3>4. <<n, p>> \in new
      BY <3>1, <3>3
    <3> QED BY <3>2, <3>4
  <2>2. CASE ~ Free(m, g)
    <3>1. PICK q \in m : q[1] = g
      BY <2>2 DEF Free
    <3> QED BY <3>1 DEF ClaimsSound
  <2> QED BY <2>1, <2>2
<1>11. ASSUME NEW g \in Scored, NEW r \in Scored \ (rest \ {p}), f.iou[<<g, r>>] >= 1
       PROVE  \/ \E q \in m \cup new : q[2] = r /\ f.iou[q] >= f.iou[<<g, r>>]
              \/ \E q \in m \cup new : q[1] = g /\ f.preds[q[2]].score >= f.preds[r].score
  <2>1. CASE r = p
    BY <1>10, <1>11, <2>1
  <2>2. CASE r # p
    <3>1. \/ \E q \in m : q[2] = r /\ f.iou[q] >= f.iou[<<g, r>>]
          \/ \E q \in m : q[1] = g /\ f.preds[q[2]].score >= f.preds[r].score
      BY <1>11, <2>2 DEF ClaimsSound
    <3> QED BY <3>1
  <2> QED BY <2>1, <2>2
<1> QED BY <1>6, <1>8, <1>9, <1>11 DEF ClaimsSound

\* A sum over a set, for the lemmas that follow.
SumOver(F, S) == MapThenSumSet(LAMBDA c : F[c], S)

IsTotal(Total, F, S) ==
    /\ Total[{}] = 0
    /\ \A s \in SUBSET S : \A x \in s : Total[s] = F[x] + Total[s \ {x}]

\* A sum over a set is what any function makes of it that starts at 0 and grows
\* by the term of each element that comes in.
LEMMA SumIsTotal ==
    ASSUME NEW S, IsFiniteSet(S), NEW F, NEW Total, IsTotal(Total, F, S)
    PROVE  SumOver(F, S) = Total[S]
<1> DEFINE One(s) == CHOOSE x \in s : TRUE
           Def(g, s) == IF s = {} THEN 0 ELSE F[One(s)] + g[s \ {One(s)}]
           IsSum(g) == g = [s \in SUBSET S |-> Def(g, s)]
           total == [s \in SUBSET S |-> Total[s]]
           iter == CHOOSE g : IsSum(g)
<1>0. /\ Total[{}] = 0
      /\ \A s \in SUBSET S : \A x \in s : Total[s] = F[x] + Total[s \ {x}]
  BY DEF IsTotal
<1>1. IsSum(total)
  <2>1. \A s \in SUBSET S : Total[s] = Def(total, s)
    <3>1. SUFFICES ASSUME NEW s \in SUBSET S
                   PROVE  Total[s] = Def(total, s)
      OBVIOUS
    <3>2. CASE s = {}
      BY <1>0, <3>2
    <3>3. CASE s # {}
      <4>1. One(s) \in s
        BY <3>3
      <4>2. s \ {One(s)} \in SUBSET S
        OBVIOUS
      <4> HIDE DEF One
      <4>3. total[s \ {One(s)}] = Total[s \ {One(s)}]
        BY <4>2
      <4> QED BY <1>0, <3>3, <4>1, <4>3
    <3> QED BY <3>2, <3>3
  <2> QED BY <2>1, Zenon
<1>2. IsSum(iter)
  BY <1>1, Zenon
<1> HIDE DEF iter
<1>3. \A s \in SUBSET S : iter[s] = Def(iter, s)
  <2>1. iter = [s \in SUBSET S |-> Def(iter, s)]
    BY <1>2
  <2> HIDE DEF Def
  <2> QED BY <2>1
<1>4. \A s \in SUBSET S : s # {} => One(s) \in s
  OBVIOUS
<1> HIDE DEF One
<1>5. \A s \in SUBSET S : iter[s] = Total[s]
  <2>1. SUFFICES ASSUME \E s \in SUBSET S : iter[s] # Total[s]
                 PROVE  FALSE
    OBVIOUS
  <2> DEFINE Sizes == {Cardinality(s) : s \in {t \in SUBSET S : iter[t] # Total[t]}}
  <2>2. \A s \in SUBSET S : IsFiniteSet(s) /\ Cardinality(s) \in Nat
    BY FS_Subset, FS_CardinalityType
  <2>3. Sizes \in SUBSET Nat /\ Sizes # {}
    BY <2>1, <2>2
  <2> HIDE DEF Sizes
  <2>4. PICK n \in Sizes : \A m \in Sizes : n <= m
    BY <2>3, LeastOfNaturals
  <2>5. PICK s \in SUBSET S : iter[s] # Total[s] /\ n = Cardinality(s)
    BY <2>4 DEF Sizes
  <2>6. s # {}
    BY <1>0, <1>3, <2>5
  <2>7. One(s) \in s
    BY <1>4, <2>6
  <2>8. Cardinality(s \ {One(s)}) = Cardinality(s) - 1
    BY <2>2, <2>7, FS_RemoveElement
  <2>9. iter[s \ {One(s)}] = Total[s \ {One(s)}]
    <3>1. s \ {One(s)} \in SUBSET S
      OBVIOUS
    <3>2. SUFFICES ASSUME iter[s \ {One(s)}] # Total[s \ {One(s)}]
                   PROVE  FALSE
      OBVIOUS
    <3>3. Cardinality(s \ {One(s)}) \in Sizes
      BY <3>1, <3>2 DEF Sizes
    <3> QED BY <2>2, <2>4, <2>5, <2>8, <3>3
  <2> QED BY <1>0, <1>3, <2>5, <2>6, <2>7, <2>9
<1>6. SumOver(F, S) = iter[S]
  BY DEF SumOver, MapThenSumSet, MapThenFoldSet, iter, One
<1> QED BY <1>5, <1>6

LEMMA OverLabelsIsSum == \A F : OverLabels(F) = SumOver(F, Labels)
BY DEF OverLabels, SumOver, MapThenSumSet, MapThenFoldSet

LEMMA DisjointCount ==
    ASSUME NEW A, NEW B, IsFiniteSet(A), IsFiniteSet(B), A \cap B = {}
    PROVE  IsFiniteSet(A \cup B) /\ Cardinality(A \cup B) = Cardinality(A) + Cardinality(B)
<1>1. Cardinality(A \cap B) = 0
  BY FS_EmptySet
<1> QED BY <1>1, FS_Union, FS_CardinalityType

TwoCounts(F, S, A, la, B, lb) ==
    \A c \in S : F[c] = Cardinality({q \in A : la[q] = c}) + Cardinality({q \in B : lb[q] = c})

\* Adding up how many have each of a set of labels, over two sets.
LEMMA LabelsAddUp ==
    ASSUME NEW S, IsFiniteSet(S), NEW A, IsFiniteSet(A), NEW B, IsFiniteSet(B), NEW la, NEW lb, NEW F,
           TwoCounts(F, S, A, la, B, lb)
    PROVE  SumOver(F, S)
             = Cardinality({q \in A : la[q] \in S}) + Cardinality({q \in B : lb[q] \in S})
<1> DEFINE In(s) == {q \in A : la[q] \in s}
           Also(s) == {q \in B : lb[q] \in s}
           Total == [s \in SUBSET S |-> Cardinality(In(s)) + Cardinality(Also(s))]
<1>1. \A s : /\ IsFiniteSet(In(s)) /\ Cardinality(In(s)) \in Nat
             /\ IsFiniteSet(Also(s)) /\ Cardinality(Also(s)) \in Nat
  BY FS_Subset, FS_CardinalityType
<1>2. Total[{}] = 0
  <2>1. In({}) = {} /\ Also({}) = {}
    OBVIOUS
  <2> HIDE DEF In, Also
  <2> QED BY <2>1, FS_EmptySet
<1>3. ASSUME NEW s \in SUBSET S, NEW x \in s
      PROVE  Total[s] = F[x] + Total[s \ {x}]
  <2>1. /\ In(s) = In({x}) \cup In(s \ {x}) /\ In({x}) \cap In(s \ {x}) = {}
        /\ Also(s) = Also({x}) \cup Also(s \ {x}) /\ Also({x}) \cap Also(s \ {x}) = {}
    BY <1>3
  <2>2. F[x] = Cardinality(In({x})) + Cardinality(Also({x}))
    <3>1. In({x}) = {q \in A : la[q] = x} /\ Also({x}) = {q \in B : lb[q] = x}
      OBVIOUS
    <3> QED BY <3>1, <1>3 DEF TwoCounts
  <2> HIDE DEF In, Also
  <2>3. /\ Cardinality(In(s)) = Cardinality(In({x})) + Cardinality(In(s \ {x}))
        /\ Cardinality(Also(s)) = Cardinality(Also({x})) + Cardinality(Also(s \ {x}))
    BY <1>1, <2>1, DisjointCount
  <2>4. s \ {x} \in SUBSET S
    OBVIOUS
  <2> QED BY <1>1, <2>2, <2>3, <2>4
<1>4. Total[S] = Cardinality(In(S)) + Cardinality(Also(S))
  OBVIOUS
<1> HIDE DEF Total
<1>5. IsTotal(Total, F, S)
  BY <1>2, <1>3 DEF IsTotal
<1>6. SumOver(F, S) = Total[S]
  BY <1>5, SumIsTotal
<1> QED BY <1>4, <1>6

LEMMA CountedOnce ==
    ASSUME NEW m, IsFiniteSet(m), NEW side, \A p, q \in m : p # q => side[p] # side[q]
    PROVE  IsFiniteSet({side[q] : q \in m}) /\ Cardinality({side[q] : q \in m}) = Cardinality(m)
<1> DEFINE T == {side[q] : q \in m}
           f == [q \in m |-> side[q]]
<1>1. f \in Bijection(m, T)
  BY DEF Bijection, Injection, Surjection, IsInjective
<1> QED BY <1>1, FS_Bijection DEF ExistsBijection

\* What has been claimed of an evaluated image, and its labels.
LabelsKnown(f, p) == f.preds[p].label \in Labels \cup {"unknown"} /\ f.truth[p] \in Labels
ScoredSound(f, m) ==
    /\ m \in SUBSET (Scored \X Scored)
    /\ \A p, q \in m : p # q => p[1] # q[1] /\ p[2] # q[2]
    /\ \A p \in Scored : LabelsKnown(f, p)

LEMMA ScoredIsFinite == IsFiniteSet(Scored) /\ Cardinality(Scored) = NScored
<1>1. NScored \in Int /\ NScored >= 1 /\ 1 \in Int
  BY RecognitionConstants
<1>2. IsFiniteSet(1 .. NScored) /\ Cardinality(1 .. NScored) = NScored - 1 + 1
  BY <1>1, FS_Interval
<1> QED BY <1>1, <1>2 DEF Scored

LEMMA TalliesReconcile ==
    ASSUME NEW f, NEW m, ScoredSound(f, m), task = "score", input = f, answer = Tally(f, m)
    PROVE  ScoresReconcile
<1> DEFINE preds == {q[2] : q \in m}
           truth == {q[1] : q \in m}
           freePreds == Scored \ preds
           freeTruth == Scored \ truth
           guess == [q \in m |-> f.preds[q[2]].label]
           true == [q \in m |-> f.truth[q[1]]]
           alone == [p \in Scored |-> f.preds[p].label]
           right == Right(f, m)
           wrong == Wrong(f, m)
           vague == Vague(f, m)
<1>1. NScored \in Nat /\ IsFiniteSet(Labels) /\ "unknown" \notin Labels
  <2>1. IsFiniteSet(Universe) /\ Labels \subseteq Universe
    BY RecognitionAssumption, Zenon
  <2>2. IsFiniteSet(Labels)
    BY <2>1, FS_Subset
  <2> QED BY <2>1, <2>2, RecognitionConstants
<1>2. IsFiniteSet(Scored) /\ Cardinality(Scored) = NScored
  BY ScoredIsFinite
<1>3. IsFiniteSet(m)
  <2>1. IsFiniteSet(Scored \X Scored)
    BY <1>2, FS_Product
  <2> QED BY <2>1, FS_Subset DEF ScoredSound, LabelsKnown
<1>4. \A q \in m : q[1] \in Scored /\ q[2] \in Scored
  BY DEF ScoredSound, LabelsKnown
<1>5. \A R \in SUBSET m : IsFiniteSet(R) /\ Cardinality(R) \in Nat
  BY <1>3, FS_Subset, FS_CardinalityType
<1>6. \A P \in SUBSET Scored : IsFiniteSet(P) /\ Cardinality(P) \in Nat
  BY <1>2, FS_Subset, FS_CardinalityType
<1>7. /\ m = right \cup (wrong \cup vague) /\ right \cap (wrong \cup vague) = {} /\ wrong \cap vague = {}
      /\ right \in SUBSET m /\ wrong \in SUBSET m /\ vague \in SUBSET m /\ wrong \cup vague \in SUBSET m
  BY <1>1, <1>4 DEF Right, Wrong, Vague, ScoredSound, LabelsKnown
<1>8. Cardinality(m) = Cardinality(right) + Cardinality(wrong) + Cardinality(vague)
  <2> HIDE DEF right, wrong, vague
  <2>1. Cardinality(wrong \cup vague) = Cardinality(wrong) + Cardinality(vague)
    BY <1>5, <1>7, DisjointCount
  <2>2. Cardinality(m) = Cardinality(right) + Cardinality(wrong \cup vague)
    BY <1>5, <1>7, DisjointCount
  <2> QED BY <1>5, <1>7, <2>1, <2>2
\* A claimed box and a claiming prediction stand for their pair.
<1>9. ASSUME NEW R \in SUBSET m
      PROVE  /\ Cardinality({q[1] : q \in R}) = Cardinality(R)
             /\ Cardinality({q[2] : q \in R}) = Cardinality(R)
  <2>1. IsFiniteSet(R)
    BY <1>5
  <2> DEFINE first == [q \in m |-> q[1]]
             second == [q \in m |-> q[2]]
  <2>2. \A p, q \in R : p # q => first[p] # first[q] /\ second[p] # second[q]
    BY DEF ScoredSound, LabelsKnown
  <2>3. {first[q] : q \in R} = {q[1] : q \in R} /\ {second[q] : q \in R} = {q[2] : q \in R}
    OBVIOUS
  <2> HIDE DEF first, second
  <2>4. Cardinality({first[q] : q \in R}) = Cardinality(R)
    BY <2>1, <2>2, CountedOnce
  <2>5. Cardinality({second[q] : q \in R}) = Cardinality(R)
    BY <2>1, <2>2, CountedOnce
  <2> QED BY <2>3, <2>4, <2>5
<1>10. Cardinality(m) + Cardinality(freePreds) = NScored
  <2>1. Cardinality(preds) = Cardinality(m)
    BY <1>9
  <2>2. preds \in SUBSET Scored /\ freePreds \in SUBSET Scored /\ preds \cap freePreds = {}
        /\ preds \cup freePreds = Scored
    BY <1>4
  <2> HIDE DEF preds, freePreds
  <2> QED BY <1>2, <1>6, <2>1, <2>2, DisjointCount
<1>11. ASSUME NEW c \in Labels
       PROVE  Cardinality({q \in right : f.truth[q[1]] = c}) + Cardinality({q \in wrong \cup vague : f.truth[q[1]] = c})
                + Cardinality({g \in freeTruth : f.truth[g] = c})
                  = Cardinality({g \in Scored : f.truth[g] = c})
  <2> DEFINE hit == {q \in right : f.truth[q[1]] = c}
             miss == {q \in wrong \cup vague : f.truth[q[1]] = c}
             paired == {q \in m : f.truth[q[1]] = c}
             boxes == {q[1] : q \in paired}
             others == {g \in freeTruth : f.truth[g] = c}
             all == {g \in Scored : f.truth[g] = c}
  <2>1. /\ hit \in SUBSET m /\ miss \in SUBSET m /\ paired \in SUBSET m
        /\ paired = hit \cup miss /\ hit \cap miss = {}
    BY <1>7
  <2>2. /\ boxes \in SUBSET Scored /\ others \in SUBSET Scored
        /\ all = boxes \cup others /\ boxes \cap others = {}
    BY <1>4
  <2>3. Cardinality(boxes) = Cardinality(paired)
    BY <1>9, <2>1
  <2> HIDE DEF hit, miss, paired, boxes, others, all
  <2>4. Cardinality(paired) = Cardinality(hit) + Cardinality(miss)
    BY <1>5, <2>1, DisjointCount
  <2>5. Cardinality(all) = Cardinality(boxes) + Cardinality(others)
    BY <1>6, <2>2, DisjointCount
  <2> QED BY <2>3, <2>4, <2>5 DEF hit, miss, others, all
<1>12. \A c \in Labels : answer.tp[c] + answer.fn[c] = Cardinality({g \in Scored : f.truth[g] = c})
  <2>1. SUFFICES ASSUME NEW c \in Labels
                 PROVE  answer.tp[c] + answer.fn[c] = Cardinality({g \in Scored : f.truth[g] = c})
    OBVIOUS
  <2>2. /\ answer.tp[c] = Cardinality({q \in right : f.truth[q[1]] = c})
        /\ answer.fn[c] = Cardinality({q \in wrong \cup vague : f.truth[q[1]] = c})
                            + Cardinality({g \in freeTruth : f.truth[g] = c})
    BY DEF Tally
  <2>3. /\ Cardinality({q \in right : f.truth[q[1]] = c}) \in Nat
        /\ Cardinality({q \in wrong \cup vague : f.truth[q[1]] = c}) \in Nat
    <3> HIDE DEF right, wrong, vague
    <3>1. {q \in right : f.truth[q[1]] = c} \in SUBSET m /\ {q \in wrong \cup vague : f.truth[q[1]] = c} \in SUBSET m
      BY <1>7
    <3> QED BY <3>1, <1>5
  <2>4. Cardinality({g \in freeTruth : f.truth[g] = c}) \in Nat
    <3>1. {g \in freeTruth : f.truth[g] = c} \in SUBSET Scored
      OBVIOUS
    <3> QED BY <3>1, <1>6
  <2> DEFINE hit == {q \in right : f.truth[q[1]] = c}
             miss == {q \in wrong \cup vague : f.truth[q[1]] = c}
             others == {g \in freeTruth : f.truth[g] = c}
             all == {g \in Scored : f.truth[g] = c}
  <2>5. Cardinality(hit) + Cardinality(miss) + Cardinality(others) = Cardinality(all)
    BY <1>11
  <2>6. answer.tp[c] = Cardinality(hit) /\ answer.fn[c] = Cardinality(miss) + Cardinality(others)
    BY <2>2
  <2>7. Cardinality(hit) \in Nat /\ Cardinality(miss) \in Nat /\ Cardinality(others) \in Nat
    BY <2>3, <2>4
  <2> HIDE DEF hit, miss, others, all
  <2>8. answer.tp[c] + answer.fn[c] = Cardinality(all)
    BY <2>5, <2>6, <2>7
  <2> QED BY <2>8 DEF all
\* The two sums over the labels.
<1>13. OverLabels(answer.tp) = Cardinality(right)
  <2> DEFINE F == answer.tp
  <2>1. TwoCounts(F, Labels, right, true, {}, true)
    <3>1. SUFFICES ASSUME NEW c \in Labels
                   PROVE  F[c] = Cardinality({q \in right : true[q] = c}) + Cardinality({q \in {} : true[q] = c})
      BY DEF TwoCounts
    <3>2. F[c] = Cardinality({q \in right : f.truth[q[1]] = c})
      BY DEF Tally
    <3>3. {q \in right : f.truth[q[1]] = c} = {q \in right : true[q] = c} /\ {q \in {} : true[q] = c} = {}
      BY <1>7
    <3>4. Cardinality({q \in right : true[q] = c}) \in Nat
      <4> HIDE DEF right
      <4> QED BY <1>5, <1>7
    <3> DEFINE of == {q \in right : true[q] = c}
               none == {q \in {} : true[q] = c}
    <3>5. F[c] = Cardinality(of) /\ none = {} /\ Cardinality(of) \in Nat
      BY <3>2, <3>3, <3>4
    <3> HIDE DEF of, none
    <3>6. F[c] = Cardinality(of) + Cardinality(none)
      BY <3>5, FS_EmptySet
    <3> QED BY <3>6 DEF of, none
  <2>2. {q \in right : true[q] \in Labels} = right /\ {q \in {} : true[q] \in Labels} = {}
    BY <1>4, <1>7 DEF ScoredSound, LabelsKnown
  <2>3. IsFiniteSet(right) /\ IsFiniteSet({}) /\ Cardinality(right) \in Nat
    BY <1>5, <1>7, FS_EmptySet
  <2> HIDE DEF F, right, true
  <2>4. SumOver(F, Labels)
          = Cardinality({q \in right : true[q] \in Labels}) + Cardinality({q \in {} : true[q] \in Labels})
    BY <1>1, <2>1, <2>3, LabelsAddUp
  <2> QED BY <2>2, <2>3, <2>4, FS_EmptySet, OverLabelsIsSum DEF F
<1>14. OverLabels(answer.fp)
         = Cardinality(wrong) + Cardinality({p \in freePreds : f.preds[p].label \in Labels})
  <2> DEFINE F == answer.fp
  <2>1. TwoCounts(F, Labels, wrong, guess, freePreds, alone)
    <3>1. SUFFICES ASSUME NEW c \in Labels
                   PROVE  F[c] = Cardinality({q \in wrong : guess[q] = c}) + Cardinality({p \in freePreds : alone[p] = c})
      BY DEF TwoCounts
    <3>2. F[c] = Cardinality({q \in wrong : f.preds[q[2]].label = c})
                    + Cardinality({p \in freePreds : f.preds[p].label = c})
      BY DEF Tally
    <3>3. /\ {q \in wrong : f.preds[q[2]].label = c} = {q \in wrong : guess[q] = c}
          /\ {p \in freePreds : f.preds[p].label = c} = {p \in freePreds : alone[p] = c}
      BY <1>7
    <3> HIDE DEF wrong, freePreds, F, guess, alone
    <3> QED BY <3>2, <3>3
  <2>2. /\ {q \in wrong : guess[q] \in Labels} = wrong
        /\ {p \in freePreds : alone[p] \in Labels} = {p \in freePreds : f.preds[p].label \in Labels}
    BY <1>4, <1>7 DEF ScoredSound, LabelsKnown, Wrong
  <2>3. IsFiniteSet(wrong) /\ IsFiniteSet(freePreds)
    BY <1>5, <1>6, <1>7
  <2> HIDE DEF F, wrong, freePreds, guess, alone
  <2>4. SumOver(F, Labels)
          = Cardinality({q \in wrong : guess[q] \in Labels}) + Cardinality({p \in freePreds : alone[p] \in Labels})
    BY <1>1, <2>1, <2>3, LabelsAddUp
  <2> QED BY <2>2, <2>4, OverLabelsIsSum DEF F
<1>15. Cardinality({p \in freePreds : f.preds[p].label \in Labels})
         + Cardinality({p \in Scored : f.preds[p].label = "unknown"}) - Cardinality(vague)
           = Cardinality(freePreds)
  <2> DEFINE named == {p \in freePreds : f.preds[p].label \in Labels}
             unnamed == {p \in freePreds : f.preds[p].label = "unknown"}
             claimed == {q[2] : q \in vague}
             unknown == {p \in Scored : f.preds[p].label = "unknown"}
  <2>1. /\ named \in SUBSET Scored /\ unnamed \in SUBSET Scored /\ claimed \in SUBSET Scored
        /\ freePreds = named \cup unnamed /\ named \cap unnamed = {}
        /\ unknown = unnamed \cup claimed /\ unnamed \cap claimed = {}
    BY <1>1, <1>4, <1>7 DEF ScoredSound, LabelsKnown, Vague
  <2>2. Cardinality(claimed) = Cardinality(vague)
    <3> HIDE DEF vague
    <3> QED BY <1>7, <1>9
  <2> HIDE DEF named, unnamed, claimed, unknown, freePreds
  <2>3. Cardinality(freePreds) = Cardinality(named) + Cardinality(unnamed)
    BY <1>6, <2>1, DisjointCount
  <2>4. Cardinality(unknown) = Cardinality(unnamed) + Cardinality(claimed)
    BY <1>6, <2>1, DisjointCount
  <2> QED BY <1>6, <2>1, <2>2, <2>3, <2>4 DEF named, unknown
<1>16. /\ answer.matches = m /\ answer.falseClass = Cardinality(wrong)
       /\ answer.background = Cardinality(freePreds) /\ answer.vague = Cardinality(vague)
  BY DEF Tally
<1>17. /\ Cardinality(right) \in Nat /\ Cardinality(wrong) \in Nat /\ Cardinality(vague) \in Nat
       /\ Cardinality(m) \in Nat /\ Cardinality(freePreds) \in Nat
       /\ Cardinality({p \in freePreds : f.preds[p].label \in Labels}) \in Nat
       /\ Cardinality({p \in Scored : f.preds[p].label = "unknown"}) \in Nat
  <2>1. /\ freePreds \in SUBSET Scored /\ {p \in freePreds : f.preds[p].label \in Labels} \in SUBSET Scored
        /\ {p \in Scored : f.preds[p].label = "unknown"} \in SUBSET Scored /\ m \in SUBSET m
    OBVIOUS
  <2> HIDE DEF right, wrong, vague, freePreds
  <2> QED BY <2>1, <1>5, <1>6, <1>7
<1> HIDE DEF right, wrong, vague, freePreds
<1> QED BY <1>8, <1>10, <1>12, <1>13, <1>14, <1>15, <1>16, <1>17 DEF ScoresReconcile

\* The inductive invariant: what each loop has made so far is sound, and the
\* answer is what the last action makes of it.
RecognitionInv ==
    /\ task \in {"tiers", "show", "track", "score"}
    /\ task = "tiers" =>
            \/ answer = NoAnswer
            \/ answer = [done |-> TRUE, accepted |-> IsPartition(input),
                         tier |-> [c \in Universe |-> TierFor(input, c)]]
    /\ task = "show" =>
            /\ input.boxes \in [Boxes -> Kinds] /\ left \in SUBSET Boxes /\ taken \in Seq(Boxes)
            /\ KeptSound(input, left, taken)
            /\ \/ answer = NoAnswer
               \/ /\ left = {} /\ answer.kept = taken /\ answer.capped = Capped(taken)
                  /\ answer.drawn = [d \in ToSet(Capped(taken)) |->
                                        Drawn(answer.rules, answer.view, input.boxes[d])]
    /\ task = "track" =>
            /\ input \in [Boxes \X Boxes -> Grades]
            /\ PairsSound(input, left, taken)
            /\ answer = NoAnswer \/ (left = {} /\ answer.pairs = taken)
    /\ task = "score" =>
            /\ input.iou \in [Scored \X Scored -> Grades]
            /\ \A p \in Scored : input.preds[p].score \in Nat /\ LabelsKnown(input, p)
            /\ left \in SUBSET Scored /\ ClaimsSound(input, left, taken)
            /\ answer = NoAnswer \/ (left = {} /\ answer = Tally(input, taken))

LEMMA RecognitionInitHolds == RecognitionInit => RecognitionInv
<1>1. SUFFICES ASSUME RecognitionInit
               PROVE  RecognitionInv
  OBVIOUS
<1>2. answer = NoAnswer
  BY <1>1 DEF RecognitionInit
<1>3. CASE task = "tiers"
  BY <1>2, <1>3 DEF RecognitionInv
<1>4. CASE task = "show"
  <2>1. left = Boxes /\ taken = << >> /\ input.boxes \in [Boxes -> Kinds]
    BY <1>1, <1>4 DEF RecognitionInit, Decoded
  <2>2. ToSet(taken) = {} /\ DOMAIN taken = {} /\ taken \in Seq(Boxes)
    BY <2>1 DEF ToSet
  <2>3. KeptSound(input, left, taken)
    BY <2>1, <2>2 DEF KeptSound
  <2> QED BY <1>2, <1>4, <2>1, <2>2, <2>3 DEF RecognitionInv
<1>5. CASE task = "track"
  BY <1>1, <1>2, <1>5 DEF RecognitionInit, RecognitionInv, PairsSound
<1>6. CASE task = "score"
  <2>1. left = Scored /\ taken = {} /\ input.iou \in [Scored \X Scored -> Grades]
    BY <1>1, <1>6 DEF RecognitionInit
  <2>2. \A p \in Scored : input.preds[p].score \in Nat /\ LabelsKnown(input, p)
    BY <1>1, <1>6, RecognitionConstants DEF RecognitionInit, LabelsKnown
  <2>3. ClaimsSound(input, left, taken)
    BY <2>1 DEF ClaimsSound
  <2> QED BY <1>2, <1>6, <2>1, <2>2, <2>3 DEF RecognitionInv
<1> QED BY <1>1, <1>3, <1>4, <1>5, <1>6 DEF RecognitionInit

LEMMA RecognitionSteps ==
    ASSUME RecognitionInv, [RecognitionNext]_recognitionVars
    PROVE  RecognitionInv'
<1>1. CASE UNCHANGED recognitionVars
  BY <1>1 DEF RecognitionInv, recognitionVars, KeptSound, PairsSound, ClaimsSound
<1>2. CASE RecognitionNext
  <2>1. ~ answer.done /\ UNCHANGED <<task, input>>
    BY <1>2 DEF RecognitionNext
  <2>2. CASE LoadTiers
    BY <2>1, <2>2 DEF LoadTiers, RecognitionInv
  <2>3. CASE KeepOrDrop
    <3>1. PICK d \in left :
            /\ \A e \in left : input.boxes[d].score >= input.boxes[e].score
            /\ left' = left \ {d}
            /\ taken' = IF Suppressed(input, taken, d) THEN taken ELSE Append(taken, d)
      BY <2>3 DEF KeepOrDrop
    <3>2. task = "show" /\ answer' = answer /\ left # {}
      BY <2>3, <3>1 DEF KeepOrDrop
    <3>3. /\ input.boxes \in [Boxes -> Kinds] /\ left \in SUBSET Boxes /\ taken \in Seq(Boxes)
          /\ KeptSound(input, left, taken) /\ answer = NoAnswer
      BY <3>2 DEF RecognitionInv
    <3>4. left' \in SUBSET Boxes /\ taken' \in Seq(Boxes)
      BY <3>1, <3>3
    <3>5. KeptSound(input, left', taken')
      BY <3>1, <3>3, <3>4, SortedSoFar
    <3>6. KeptSound(input, left, taken)'
      BY <2>1, <3>5 DEF KeptSound
    <3> QED BY <2>1, <3>2, <3>3, <3>4, <3>6 DEF RecognitionInv
  <2>4. CASE ShowFrame
    <3>1. /\ task = "show" /\ left = {} /\ left' = left /\ taken' = taken
          /\ answer'.kept = taken /\ answer'.capped = Capped(taken)
          /\ answer'.drawn = [d \in ToSet(Capped(taken)) |->
                                Drawn(answer'.rules, answer'.view, input.boxes[d])]
      BY <2>4 DEF ShowFrame
    <3>2. /\ input.boxes \in [Boxes -> Kinds] /\ left \in SUBSET Boxes /\ taken \in Seq(Boxes)
          /\ KeptSound(input, left, taken)
      BY <3>1 DEF RecognitionInv
    <3>3. KeptSound(input, left, taken)'
      BY <2>1, <3>1, <3>2 DEF KeptSound
    <3> QED BY <2>1, <3>1, <3>2, <3>3 DEF RecognitionInv
  <2>5. CASE TakePair
    <3>1. PICK p \in left :
            /\ \A q \in left \ {p} : Before(input, p, q)
            /\ left' = left \ {p}
            /\ taken' = IF \E q \in taken : q[1] = p[1] \/ q[2] = p[2] THEN taken ELSE taken \cup {p}
      BY <2>5 DEF TakePair
    <3>2. task = "track" /\ answer' = answer /\ left # {}
      BY <2>5, <3>1 DEF TakePair
    <3>3. input \in [Boxes \X Boxes -> Grades] /\ PairsSound(input, left, taken) /\ answer = NoAnswer
      BY <3>2 DEF RecognitionInv
    <3>4. PairsSound(input, left', taken')
      BY <3>1, <3>3, PairedSoFar
    <3>5. PairsSound(input, left, taken)'
      BY <2>1, <3>4 DEF PairsSound
    <3> QED BY <2>1, <3>2, <3>3, <3>5 DEF RecognitionInv
  <2>6. CASE MatchTracks
    <3>1. task = "track" /\ left = {} /\ left' = left /\ taken' = taken /\ answer'.pairs = taken
      BY <2>6 DEF MatchTracks
    <3>2. input \in [Boxes \X Boxes -> Grades] /\ PairsSound(input, left, taken)
      BY <3>1 DEF RecognitionInv
    <3>3. PairsSound(input, left, taken)'
      BY <2>1, <3>1, <3>2 DEF PairsSound
    <3> QED BY <2>1, <3>1, <3>2, <3>3 DEF RecognitionInv
  <2>7. CASE ClaimBox
    <3>1. PICK p \in left :
            /\ \A q \in left \ {p} : Earlier(input.preds, p, q)
            /\ left' = left \ {p}
            /\ taken' = taken \cup {q \in Nearest(input, taken, p) \X {p} :
                                     input.iou[q] >= 1 /\ \A g \in Nearest(input, taken, p) : q[1] <= g}
      BY <2>7 DEF ClaimBox
    <3>2. task = "score" /\ answer' = answer /\ left # {}
      BY <2>7, <3>1 DEF ClaimBox
    <3>3. /\ input.iou \in [Scored \X Scored -> Grades]
          /\ \A x \in Scored : input.preds[x].score \in Nat /\ LabelsKnown(input, x)
          /\ left \in SUBSET Scored /\ ClaimsSound(input, left, taken)
          /\ answer = NoAnswer
      BY <3>2 DEF RecognitionInv
    <3>4. ClaimsSound(input, left', taken')
      BY <3>1, <3>3, ClaimedSoFar
    <3>5. ClaimsSound(input, left, taken)'
      BY <2>1, <3>4 DEF ClaimsSound
    <3>6. left' \in SUBSET Scored
      BY <3>1, <3>3
    <3> QED BY <2>1, <3>2, <3>3, <3>5, <3>6 DEF RecognitionInv
  <2>8. CASE ScoreImage
    <3>1. task = "score" /\ left = {} /\ left' = left /\ taken' = taken /\ answer' = Tally(input, taken)
      BY <2>8 DEF ScoreImage
    <3>2. /\ input.iou \in [Scored \X Scored -> Grades]
          /\ \A x \in Scored : input.preds[x].score \in Nat /\ LabelsKnown(input, x)
          /\ left \in SUBSET Scored /\ ClaimsSound(input, left, taken)
      BY <3>1 DEF RecognitionInv
    <3>3. ClaimsSound(input, left, taken)'
      BY <2>1, <3>1, <3>2 DEF ClaimsSound
    <3> QED BY <2>1, <3>1, <3>2, <3>3 DEF RecognitionInv
  <2> QED BY <1>2, <2>2, <2>3, <2>4, <2>5, <2>6, <2>7, <2>8 DEF RecognitionNext
<1> QED BY <1>1, <1>2

LEMMA AnswersAreRight == RecognitionInv => LabelsFollowTheRules /\ PairingsAreStable
<1>1. SUFFICES ASSUME RecognitionInv
               PROVE  LabelsFollowTheRules /\ PairingsAreStable
  OBVIOUS
<1>2. ~ NoAnswer.done
  BY DEF NoAnswer
<1>3. TiersArePartition
  BY <1>1, <1>2 DEF RecognitionInv, TiersArePartition, IsPartition, TierFor, TierNames
<1>4. DroppedForABetter
  <2>1. SUFFICES ASSUME task = "show", answer.done
                 PROVE  DroppedForABetter
    BY DEF DroppedForABetter
  <2>2. /\ left = {} /\ answer.kept = taken /\ answer.capped = Capped(taken)
        /\ taken \in Seq(Boxes) /\ KeptSound(input, {}, taken)
    BY <1>1, <1>2, <2>1 DEF RecognitionInv
  <2>3. \A d \in ToSet(taken) \ ToSet(Capped(taken)), k \in ToSet(Capped(taken)) :
            input.boxes[k].score >= input.boxes[d].score
    BY <2>2, CapKeepsTheBest
  <2> QED BY <2>2, <2>3 DEF KeptSound, DroppedForABetter
<1>5. DrawnPassesTheRules
  <2>1. SUFFICES ASSUME task = "show", answer.done, answer.view.domain, NEW d \in DOMAIN answer.drawn,
                        answer.drawn[d] = input.boxes[d].class
                 PROVE  Passes(answer.rules, answer.view, input.boxes[d])
    BY DEF DrawnPassesTheRules
  <2>2. /\ input.boxes \in [Boxes -> Kinds] /\ taken \in Seq(Boxes)
        /\ answer.drawn = [x \in ToSet(Capped(taken)) |->
                                Drawn(answer.rules, answer.view, input.boxes[x])]
    BY <1>1, <1>2, <2>1 DEF RecognitionInv
  <2>3. d \in ToSet(Capped(taken))
    BY <2>1, <2>2
  <2>4. Capped(taken) \in Seq(Boxes)
    BY <2>2, RecognitionConstants, LenProperties DEF Capped
  <2>5. d \in Boxes
    BY <2>3, <2>4 DEF ToSet
  <2>6. Drawn(answer.rules, answer.view, input.boxes[d]) = input.boxes[d].class
    BY <2>1, <2>2, <2>3
  <2> QED BY <2>1, <2>2, <2>5, <2>6, DrawnPasses
<1>6. MatchingIsStable
  BY <1>1, <1>2 DEF RecognitionInv, MatchingIsStable, PairsSound
<1>7. ClaimsAreStable
  BY <1>1, <1>2 DEF RecognitionInv, ClaimsAreStable, ClaimsSound, Tally
<1> QED BY <1>3, <1>4, <1>5, <1>6, <1>7 DEF LabelsFollowTheRules, PairingsAreStable

LEMMA CountsAreRight == RecognitionInv => ScoresReconcile
<1>1. SUFFICES ASSUME RecognitionInv
               PROVE  ScoresReconcile
  OBVIOUS
<1>2. CASE ~ (task = "score" /\ answer.done)
  BY <1>2, Zenon DEF ScoresReconcile
<1>3. CASE task = "score" /\ answer.done
  <2>1. /\ left = {} /\ answer = Tally(input, taken) /\ ClaimsSound(input, {}, taken)
        /\ \A p \in Scored : LabelsKnown(input, p)
    <3>1. ~ NoAnswer.done
      BY DEF NoAnswer
    <3> QED BY <1>1, <1>3, <3>1 DEF RecognitionInv
  <2>2. ScoredSound(input, taken)
    BY <2>1 DEF ScoredSound, ClaimsSound
  <2> QED BY <1>3, <2>1, <2>2, TalliesReconcile
<1> QED BY <1>2, <1>3

\* The numbers of an evaluation reconcile, for any number of boxes, predictions
\* and labels: hits and misses are the ground truth, and every prediction is
\* counted once.
THEOREM ScoresAddUp == RecognitionSpec => []ScoresReconcile
<1>1. RecognitionInit => RecognitionInv
  BY RecognitionInitHolds
<1>2. RecognitionInv /\ [RecognitionNext]_recognitionVars => RecognitionInv'
  BY RecognitionSteps
<1> QED BY <1>1, <1>2, CountsAreRight, PTL DEF RecognitionSpec

\* However many boxes, tracks and classes a frame has: suppression, the rules of
\* the policy and both greedy matchings do what they claim, and tallies reconcile.
THEOREM FramesAreRead == RecognitionSpec => []FramesAreReadRight
<1>1. RecognitionInit => RecognitionInv
  BY RecognitionInitHolds
<1>2. RecognitionInv /\ [RecognitionNext]_recognitionVars => RecognitionInv'
  BY RecognitionSteps
<1> QED BY <1>1, <1>2, AnswersAreRight, ScoresAddUp, PTL DEF RecognitionSpec, FramesAreReadRight

---------------------------------------------------------------------------
(* What is said of a track, for any votes, overlaps and ages.              *)

Times == Nat \cup {Never}
BoundPoses == [at : Times, isNew : BOOLEAN]
Bindings == [at : Times, clock : Times, isNew : BOOLEAN]

OutputShape ==
    /\ clock \in Nat /\ phase \in {"bind", "done"} /\ live \in SUBSET Tracks
    /\ history \in [Tracks -> Seq(Names)] /\ said \in [Tracks -> Seq(Names)]
    /\ measured \in Times /\ offered \in Nat /\ isNew \in BOOLEAN
    /\ pose \in [Tracks -> BoundPoses] /\ boundAt \in [Tracks -> Bindings]

\* What a track remembers is the end of what it was observed as.
TailOf(h, s) ==
    /\ Len(h) = IF Len(s) <= VoteHistory THEN Len(s) ELSE VoteHistory
    /\ \A i \in 1 .. Len(h) : h[i] = s[Len(s) - Len(h) + i]

HistoriesSound ==
    /\ \A t \in Tracks : TailOf(history[t], said[t])
    /\ \A t \in live : history[t] # << >>

\* The poses at hand.
MeasuredInTime ==
    /\ measured <= clock
    /\ phase = "bind" /\ offered > 0 => measured # Never /\ (isNew => measured = clock)

\* A pose on a track is the one bound last, stamped with its own time.
PoseSound(p, b) ==
    /\ p.at = b.at /\ p.isNew = b.isNew
    /\ b.at <= clock /\ b.clock <= clock
    /\ b.isNew => b.at = b.clock /\ b.at # Never
PosesSound ==
    /\ \A t \in Tracks : PoseSound(pose[t], boundAt[t])
    /\ \A t \in live : boundAt[t].clock = clock => Majority(history[t]) = Person

AsShown == phase = "done" => DOMAIN output = live /\ \A t \in live : output[t] = ToTrack(t)

OutputInv == OutputShape /\ HistoriesSound /\ MeasuredInTime /\ PosesSound /\ AsShown

---------------------------------------------------------------------------
(* Votes.                                                                  *)

LEMMA OutputConstants ==
    /\ Person \in Names /\ VoteHistory \in Nat \ {0} /\ PoseMaxAge \in Nat
    /\ Ticks \subseteq Nat \ {0} /\ MaxPoses \in Nat
  BY OutputAssumption

LEMMA VotesAreCounts ==
    ASSUME NEW h \in Seq(Names), NEW c
    PROVE  /\ Votes(h, c) \in Nat /\ Votes(h, c) <= Len(h)
           /\ IsFiniteSet({i \in DOMAIN h : h[i] = c})
  <1>1. DOMAIN h = 1 .. Len(h) /\ Len(h) \in Nat
    BY LenProperties
  <1>2. IsFiniteSet(1 .. Len(h)) /\ Cardinality(1 .. Len(h)) = Len(h)
    BY <1>1, FS_Interval
  <1> DEFINE S == {i \in DOMAIN h : h[i] = c}
  <1>3. S \in SUBSET (1 .. Len(h))
    BY <1>1
  <1>4. Votes(h, c) = Cardinality(S)
    BY DEF Votes
  <1> HIDE DEF S
  <1>5. IsFiniteSet(S) /\ Cardinality(S) <= Cardinality(1 .. Len(h))
    BY <1>2, <1>3, FS_Subset
  <1>6. Cardinality(S) \in Nat
    BY <1>5, FS_CardinalityType
  <1>7. Votes(h, c) \in Nat /\ Votes(h, c) <= Len(h)
    BY <1>1, <1>2, <1>4, <1>5, <1>6
  <1>8. QED
    BY <1>5, <1>7 DEF S

LEMMA NoVoteWithoutObservation ==
    ASSUME NEW h \in Seq(Names), NEW c, \A i \in DOMAIN h : h[i] # c
    PROVE  Votes(h, c) = 0
  <1>1. {i \in DOMAIN h : h[i] = c} = {}
    OBVIOUS
  <1>2. QED
    BY <1>1, FS_EmptySet DEF Votes

\* The class with most votes that was seen latest is there.
LEMMA MajorityIsSeen ==
    ASSUME NEW h \in Seq(Names), h # << >>
    PROVE  \E i \in Leaders(h) : Majority(h) = h[i] /\ \A j \in Leaders(h) : j <= i
  <1>1. DOMAIN h = 1 .. Len(h) /\ Len(h) \in Nat /\ 1 \in DOMAIN h
    BY LenProperties, EmptySeq
  <1>2. \A i \in DOMAIN h : Votes(h, h[i]) \in Nat /\ Votes(h, h[i]) <= Len(h)
    BY VotesAreCounts
  <1> DEFINE lack(i) == Len(h) - Votes(h, h[i])
             S == {lack(i) : i \in DOMAIN h}
  <1>3. S \in SUBSET Nat /\ S # {}
    BY <1>1, <1>2
  <1> HIDE DEF S
  <1>4. PICK x \in S : \A y \in S : x <= y
    BY <1>3, LeastOfNaturals
  <1>5. PICK k \in DOMAIN h : x = lack(k)
    BY <1>4 DEF S
  <1>6. ASSUME NEW j \in DOMAIN h
        PROVE  Votes(h, h[j]) <= Votes(h, h[k])
    <2>1. lack(k) <= lack(j)
      BY <1>4, <1>5 DEF S
    <2>2. QED
      BY <1>1, <1>2, <2>1
  <1>7. k \in Leaders(h)
    BY <1>6 DEF Leaders
  <1> DEFINE T == {Len(h) - j : j \in Leaders(h)}
  <1>8. Leaders(h) \subseteq 1 .. Len(h)
    BY <1>1 DEF Leaders
  <1>9. T \in SUBSET Nat /\ T # {}
    BY <1>1, <1>7, <1>8
  <1> HIDE DEF T
  <1>10. PICK y \in T : \A z \in T : y <= z
    BY <1>9, LeastOfNaturals
  <1>11. PICK i \in Leaders(h) : y = Len(h) - i
    BY <1>10 DEF T
  <1>12. ASSUME NEW j \in Leaders(h)
         PROVE  j <= i
    <2>1. Len(h) - i <= Len(h) - j
      BY <1>10, <1>11 DEF T
    <2>2. QED
      BY <1>1, <1>8, <2>1
  <1> DEFINE IsLast(n) == n \in Leaders(h) /\ \A j \in Leaders(h) : j <= n
             m == CHOOSE n \in Leaders(h) : \A j \in Leaders(h) : j <= n
  <1>13. m \in Leaders(h) /\ \A j \in Leaders(h) : j <= m
    BY <1>12
  <1>14. Majority(h) = h[m]
    BY DEF Majority
  <1>15. QED
    BY <1>13, <1>14

\* Votes in what is remembered are observations that still count.
LEMMA VotesAreSaid ==
    ASSUME OutputShape, NEW t \in Tracks, TailOf(history[t], said[t]), NEW c
    PROVE  Said(t, c) = Votes(history[t], c)
  <1> DEFINE h == history[t]
             s == said[t]
             off == Len(s) - Len(h)
             A == {i \in DOMAIN h : h[i] = c}
             B == {i \in Counted(t) : s[i] = c}
  <1>1. h \in Seq(Names) /\ s \in Seq(Names)
    BY DEF OutputShape
  <1>2. Len(h) \in Nat /\ Len(s) \in Nat /\ DOMAIN h = 1 .. Len(h)
    BY <1>1, LenProperties
  <1>3. Len(h) = IF Len(s) <= VoteHistory THEN Len(s) ELSE VoteHistory
    BY DEF TailOf
  <1>4. \A i \in 1 .. Len(h) : h[i] = s[off + i]
    BY <1>2 DEF TailOf
  <1> HIDE DEF h, s
  <1>5. Counted(t) = off + 1 .. Len(s) /\ off \in Nat
    <2>1. CASE Len(s) <= VoteHistory
      BY <1>2, <1>3, <2>1 DEF Counted, s
    <2>2. CASE ~(Len(s) <= VoteHistory)
      <3>1. Len(h) = VoteHistory /\ VoteHistory \in Nat
        BY <1>3, <2>2, OutputConstants
      <3>2. Counted(t) = Len(s) - VoteHistory + 1 .. Len(s)
        BY <2>2 DEF Counted, s
      <3>3. off \in Nat
        BY <1>2, <2>2, <3>1
      <3>4. QED
        BY <3>1, <3>2, <3>3
    <2>3. QED
      BY <2>1, <2>2
  <1> DEFINE f == [i \in A |-> off + i]
  <1>6. f \in Bijection(A, B)
    <2>1. \A i \in A : off + i \in B
      BY <1>2, <1>4, <1>5
    <2>2. \A k \in B : k - off \in A /\ off + (k - off) = k
      BY <1>2, <1>4, <1>5
    <2>3. \A i, j \in A : off + i = off + j => i = j
      BY <1>2, <1>5
    <2>4. f \in [A -> B]
      BY <2>1
    <2>5. \A i, j \in A : f[i] = f[j] => i = j
      BY <2>3
    <2>6. \A k \in B : \E i \in A : f[i] = k
      BY <2>2
    <2>7. QED
      BY <2>4, <2>5, <2>6 DEF Bijection, Injection, Surjection, IsInjective
  <1>7. ExistsBijection(A, B)
    BY <1>6 DEF ExistsBijection
  <1>8. IsFiniteSet(A)
    BY <1>1, VotesAreCounts
  <1>9. Cardinality(B) = Cardinality(A)
    BY <1>7, <1>8, FS_Bijection
  <1>10. QED
    BY <1>9 DEF Said, Votes, h, s

\* One more observation, the oldest forgotten when there are too many.
LEMMA RememberedIsTail ==
    ASSUME NEW h \in Seq(Names), NEW s \in Seq(Names), NEW c \in Names, TailOf(h, s)
    PROVE  /\ Remembered(h, c) \in Seq(Names) /\ Remembered(h, c) # << >>
           /\ Append(s, c) \in Seq(Names)
           /\ TailOf(Remembered(h, c), Append(s, c))
  <1> DEFINE s2 == Append(s, c)
  <1>1. Len(h) \in Nat /\ Len(s) \in Nat
    BY LenProperties
  <1>2. s2 \in Seq(Names) /\ Len(s2) = Len(s) + 1 /\ s2[Len(s) + 1] = c /\ \A i \in 1 .. Len(s) : s2[i] = s[i]
    BY AppendProperties
  <1>3. VoteHistory \in Nat \ {0}
    BY OutputConstants
  <1>4. Len(h) = IF Len(s) <= VoteHistory THEN Len(s) ELSE VoteHistory
    BY DEF TailOf
  <1>5. \A i \in 1 .. Len(h) : h[i] = s[Len(s) - Len(h) + i]
    BY DEF TailOf
  <1> HIDE DEF s2
  <1>6. CASE Len(h) < VoteHistory
    <2> DEFINE r == Append(h, c)
    <2>1. Remembered(h, c) = r
      BY <1>6 DEF Remembered
    <2>2. r \in Seq(Names) /\ r # << >> /\ Len(r) = Len(h) + 1 /\ r[Len(h) + 1] = c /\ \A i \in 1 .. Len(h) : r[i] = h[i]
      BY AppendProperties
    <2> HIDE DEF r
    <2>3. Len(s) = Len(h) /\ Len(s) < VoteHistory
      BY <1>1, <1>3, <1>4, <1>6
    <2>4. Len(r) = IF Len(s2) <= VoteHistory THEN Len(s2) ELSE VoteHistory
      BY <1>1, <1>2, <1>3, <2>2, <2>3
    <2>5. \A i \in 1 .. Len(r) : r[i] = s2[Len(s2) - Len(r) + i]
      BY <1>1, <1>2, <1>5, <2>2, <2>3
    <2>6. QED
      BY <1>2, <2>1, <2>2, <2>4, <2>5 DEF TailOf, s2
  <1>7. CASE ~(Len(h) < VoteHistory)
    <2> DEFINE q == Tail(h)
               r == Append(q, c)
    <2>1. Remembered(h, c) = r
      BY <1>7 DEF Remembered
    <2>2. Len(h) = VoteHistory /\ Len(s) >= VoteHistory
      BY <1>1, <1>3, <1>4, <1>7
    <2>3. h # << >>
      BY <1>3, <2>2, EmptySeq
    <2>4. q \in Seq(Names) /\ Len(q) = Len(h) - 1 /\ \A i \in 1 .. Len(q) : q[i] = h[i + 1]
      BY <2>3, HeadTailProperties
    <2> HIDE DEF q
    <2>5. r \in Seq(Names) /\ r # << >> /\ Len(r) = Len(q) + 1 /\ r[Len(q) + 1] = c /\ \A i \in 1 .. Len(q) : r[i] = q[i]
      BY <2>4, AppendProperties
    <2> HIDE DEF r
    <2>6. Len(r) = VoteHistory
      BY <1>3, <2>2, <2>4, <2>5
    <2>7. Len(r) = IF Len(s2) <= VoteHistory THEN Len(s2) ELSE VoteHistory
      BY <1>1, <1>2, <1>3, <2>2, <2>6
    <2>8. ASSUME NEW i \in 1 .. Len(r)
          PROVE  r[i] = s2[Len(s2) - Len(r) + i]
      <3>1. CASE i = Len(r)
        <4>1. Len(s2) - Len(r) + i = Len(s) + 1 /\ Len(q) + 1 = i
          BY <1>1, <1>2, <2>2, <2>4, <2>5, <3>1
        <4>2. QED
          BY <1>2, <2>5, <4>1
      <3>2. CASE i # Len(r)
        <4>1. i \in 1 .. Len(q) /\ i + 1 \in 1 .. Len(h)
          BY <1>1, <2>4, <2>5, <3>2
        <4>2. r[i] = s[Len(s) - Len(h) + (i + 1)]
          BY <1>5, <2>4, <2>5, <4>1
        <4>3. Len(s) - Len(h) + (i + 1) \in 1 .. Len(s)
          BY <1>1, <1>3, <2>2, <4>1
        <4>4. Len(s2) - Len(r) + i = Len(s) - Len(h) + (i + 1)
          BY <1>1, <1>2, <1>3, <2>2, <2>6
        <4>5. QED
          BY <1>2, <4>2, <4>3, <4>4
      <3>3. QED
        BY <3>1, <3>2
    <2>9. QED
      BY <1>2, <2>1, <2>5, <2>7, <2>8 DEF TailOf, s2
  <1>8. QED
    BY <1>6, <1>7

---------------------------------------------------------------------------
LEMMA OutputInitHolds ==
    ASSUME OutputInit
    PROVE  OutputInv
  <1>1. << >> \in Seq(Names) /\ Len(<< >>) = 0 /\ DOMAIN << >> = {}
    BY EmptySeq, LenProperties
  <1>2. Never \in Times /\ Never = -1
    BY DEF Times, Never
  <1>3. NoPose \in BoundPoses /\ NotBound \in Bindings
    BY <1>2 DEF NoPose, NotBound, BoundPoses, Bindings
  <1>4. OutputShape
    BY <1>1, <1>2, <1>3 DEF OutputInit, OutputShape
  <1>5. VoteHistory \in Nat
    BY OutputConstants
  <1>6. TailOf(<< >>, << >>)
    BY <1>1, <1>5 DEF TailOf
  <1>7. HistoriesSound
    BY <1>6 DEF OutputInit, HistoriesSound
  <1>8. MeasuredInTime
    BY <1>2 DEF OutputInit, MeasuredInTime
  <1>9. PosesSound
    <2>1. clock = 0 /\ live = {} /\ \A t \in Tracks : pose[t] = NoPose /\ boundAt[t] = NotBound
      BY DEF OutputInit
    <2>2. /\ NoPose.at = -1 /\ NoPose.isNew = FALSE
          /\ NotBound.at = -1 /\ NotBound.isNew = FALSE /\ NotBound.clock = -1
      BY <1>2 DEF NoPose, NotBound
    <2>3. PoseSound(NoPose, NotBound)
      <3>1. NotBound.at <= clock /\ NotBound.clock <= clock
        BY <2>1, <2>2
      <3>2. ~NotBound.isNew /\ NoPose.isNew = NotBound.isNew /\ NoPose.at = NotBound.at
        BY <2>2
      <3>3. QED
        BY <3>1, <3>2 DEF PoseSound
    <2>4. QED
      BY <2>1, <2>3 DEF PosesSound, PoseSound
  <1>10. AsShown
    BY <1>1 DEF OutputInit, AsShown
  <1>11. QED
    BY <1>4, <1>7, <1>8, <1>9, <1>10 DEF OutputInv

LEMMA ObserveKeeps ==
    ASSUME OutputInv, Observe
    PROVE  OutputInv'
  <1> USE DEF OutputInv
  <1>1. PICK met \in SUBSET {t \in Tracks : Len(said[t]) < MaxSeen}, gone \in SUBSET live :
           \E seen \in [met -> Names] : Meet(met, gone, seen)
    BY DEF Observe
  <1>2. PICK seen \in [met -> Names] :
             /\ live' = (live \ gone) \cup met
             /\ history' = [t \in Tracks |-> IF t \in met THEN Remembered(history[t], seen[t]) ELSE history[t]]
             /\ said' = [t \in Tracks |-> IF t \in met THEN Append(said[t], seen[t]) ELSE said[t]]
    BY <1>1 DEF Meet
  <1>3. clock' \in Nat /\ clock' > clock /\ clock \in Nat
    BY OutputConstants DEF Observe, OutputShape
  <1>4. /\ measured' \in Times /\ measured' <= clock' /\ offered' \in Nat /\ isNew' \in BOOLEAN
        /\ offered' > 0 => measured' # Never /\ (isNew' => measured' = clock')
    <2>1. Never = -1 /\ measured \in Times /\ measured <= clock
      BY DEF Never, OutputShape, MeasuredInTime
    <2>2. CASE offered' = 0 /\ isNew' = TRUE /\ UNCHANGED measured
      BY <1>3, <2>1, <2>2 DEF Times
    <2>3. CASE offered' \in 1 .. MaxPoses /\ isNew' = TRUE /\ measured' = clock'
      BY <1>3, <2>1, <2>3, OutputConstants DEF Times
    <2>4. CASE measured # Never /\ offered' \in 1 .. MaxPoses /\ isNew' = FALSE /\ UNCHANGED measured
      <3>1. offered' \in Nat
        BY <2>4, OutputConstants
      <3>2. measured' <= clock'
        BY <1>3, <2>1, <2>4 DEF Times
      <3>3. QED
        BY <2>1, <2>4, <3>1, <3>2
    <2>5. QED
      BY <2>2, <2>3, <2>4 DEF Observe
  <1>5. \A t \in met : t \in Tracks /\ seen[t] \in Names
    BY <1>2
  <1>6. ASSUME NEW t \in Tracks
        PROVE  /\ history'[t] \in Seq(Names) /\ said'[t] \in Seq(Names) /\ TailOf(history'[t], said'[t])
               /\ t \in live' => history'[t] # << >>
    <2>1. history[t] \in Seq(Names) /\ said[t] \in Seq(Names) /\ TailOf(history[t], said[t])
      BY DEF OutputShape, HistoriesSound
    <2>2. CASE t \in met
      <3>1. history'[t] = Remembered(history[t], seen[t]) /\ said'[t] = Append(said[t], seen[t])
        BY <1>2, <2>2
      <3>2. QED
        BY <1>5, <2>1, <2>2, <3>1, RememberedIsTail
    <2>3. CASE t \notin met
      <3>1. history'[t] = history[t] /\ said'[t] = said[t]
        BY <1>2, <2>3
      <3>2. t \in live' => t \in live
        BY <1>2, <2>3
      <3>3. QED
        BY <2>1, <3>1, <3>2 DEF HistoriesSound
    <2>4. QED
      BY <2>2, <2>3
  <1>7. live' \in SUBSET Tracks
    BY <1>2, <1>5 DEF OutputShape
  <1>8. history' \in [Tracks -> Seq(Names)] /\ said' \in [Tracks -> Seq(Names)]
    BY <1>2, <1>6
  <1>9. phase' = "bind" /\ UNCHANGED <<pose, output, boundAt>>
    BY DEF Observe
  <1>10. OutputShape'
    BY <1>3, <1>4, <1>7, <1>8, <1>9 DEF OutputShape
  <1>11. HistoriesSound'
    BY <1>6, <1>7 DEF HistoriesSound, TailOf
  <1>12. MeasuredInTime'
    BY <1>4 DEF MeasuredInTime
  <1>13. \A t \in Tracks : boundAt[t].at \in Int /\ boundAt[t].clock \in Int
    BY DEF OutputShape, Bindings, Times, Never
  <1>14. \A t \in Tracks : boundAt'[t].clock < clock'
    BY <1>3, <1>9, <1>13 DEF PosesSound, PoseSound
  <1>15. PosesSound'
    <2>1. \A t \in Tracks : PoseSound(pose[t], boundAt[t])'
      BY <1>3, <1>9, <1>13 DEF PosesSound, PoseSound
    <2>2. \A t \in live' : boundAt'[t].clock # clock'
      BY <1>3, <1>7, <1>9, <1>13, <1>14
    <2>3. QED
      BY <2>1, <2>2 DEF PosesSound
  <1>16. AsShown'
    BY <1>9 DEF AsShown
  <1>17. QED
    BY <1>10, <1>11, <1>12, <1>15, <1>16

LEMMA BindKeeps ==
    ASSUME OutputInv, BindPose
    PROVE  OutputInv'
  <1> USE DEF OutputInv
  <1>1. PICK overlap \in [Persons -> Overlaps] :
          /\ pose' = [t \in Tracks |-> IF t \in BestOf(overlap) THEN Bound ELSE pose[t]]
          /\ boundAt' = [t \in Tracks |-> IF t \in BestOf(overlap)
                                          THEN [at |-> measured, clock |-> clock, isNew |-> isNew]
                                          ELSE boundAt[t]]
    BY DEF BindPose
  <1>2. /\ UNCHANGED <<clock, phase, live, history, measured, isNew, output, said>>
        /\ phase = "bind" /\ offered > 0 /\ offered' = offered - 1
    BY DEF BindPose
  <1>3. measured # Never /\ (isNew => measured = clock) /\ measured <= clock
    BY <1>2 DEF MeasuredInTime
  <1>4. clock \in Nat /\ clock \in Times /\ measured \in Times /\ isNew \in BOOLEAN /\ offered \in Nat
    BY DEF OutputShape, Times
  <1>5. Bound \in BoundPoses /\ [at |-> measured, clock |-> clock, isNew |-> isNew] \in Bindings
    BY <1>4 DEF Bound, BoundPoses, Bindings
  <1>6. pose' \in [Tracks -> BoundPoses] /\ boundAt' \in [Tracks -> Bindings]
    BY <1>1, <1>5 DEF OutputShape
  <1>7. offered' \in Nat
    BY <1>2, <1>4
  <1>8. OutputShape'
    BY <1>2, <1>6, <1>7 DEF OutputShape
  <1>9. HistoriesSound'
    BY <1>2 DEF HistoriesSound, TailOf
  <1>10. MeasuredInTime'
    BY <1>2, <1>3 DEF MeasuredInTime
  <1>11. ASSUME NEW t \in Tracks
         PROVE  PoseSound(pose[t], boundAt[t])'
    <2>1. CASE t \in BestOf(overlap)
      <3>1. pose'[t] = Bound /\ boundAt'[t] = [at |-> measured, clock |-> clock, isNew |-> isNew]
        BY <1>1, <2>1
      <3>2. QED
        BY <1>2, <1>3, <1>4, <3>1 DEF PoseSound, Bound
    <2>2. CASE t \notin BestOf(overlap)
      <3>1. pose'[t] = pose[t] /\ boundAt'[t] = boundAt[t]
        BY <1>1, <2>2
      <3>2. QED
        BY <1>2, <3>1 DEF PosesSound, PoseSound
    <2>3. QED
      BY <2>1, <2>2
  <1>12. ASSUME NEW t \in live, boundAt'[t].clock = clock
         PROVE  Majority(history[t]) = Person
    <2>1. CASE t \in BestOf(overlap)
      BY <2>1 DEF BestOf, Persons
    <2>2. CASE t \notin BestOf(overlap)
      BY <1>1, <1>12, <2>2 DEF PosesSound, OutputShape
    <2>3. QED
      BY <2>1, <2>2
  <1>13. PosesSound'
    BY <1>2, <1>11, <1>12 DEF PosesSound
  <1>14. AsShown'
    BY <1>2 DEF AsShown
  <1>15. QED
    BY <1>8, <1>9, <1>10, <1>13, <1>14

LEMMA ShowKeeps ==
    ASSUME OutputInv, Show
    PROVE  OutputInv'
  <1> USE DEF OutputInv
  <1>1. OutputShape' /\ HistoriesSound'
    BY DEF Show, OutputShape, HistoriesSound, TailOf
  <1>2. MeasuredInTime' /\ PosesSound'
    BY DEF Show, MeasuredInTime, PosesSound, PoseSound
  <1>3. AsShown'
    BY DEF Show, AsShown, ToTrack, InDate, Age, IsFresh
  <1>4. QED
    BY <1>1, <1>2, <1>3

LEMMA OutputStep ==
    ASSUME OutputInv, [OutputNext]_outputVars
    PROVE  OutputInv'
  <1>1. CASE UNCHANGED outputVars
    <2>1. OutputShape' /\ HistoriesSound'
      BY <1>1 DEF outputVars, OutputInv, OutputShape, HistoriesSound, TailOf
    <2>2. MeasuredInTime' /\ PosesSound'
      BY <1>1 DEF outputVars, OutputInv, MeasuredInTime, PosesSound, PoseSound
    <2>3. AsShown'
      BY <1>1 DEF outputVars, OutputInv, AsShown, ToTrack, InDate, Age, IsFresh
    <2>4. QED
      BY <2>1, <2>2, <2>3 DEF OutputInv
  <1>2. QED
    BY <1>1, ObserveKeeps, BindKeeps, ShowKeeps DEF OutputNext

---------------------------------------------------------------------------
LEMMA LabelsFollowVotes ==
    ASSUME OutputInv
    PROVE  LabelsAreMajorities
  <1> SUFFICES ASSUME NEW t \in Shown
               PROVE  \E i \in Counted(t) :
                        /\ said[t][i] = output[t].class
                        /\ \A c \in Names : Said(t, c) <= Said(t, output[t].class)
                        /\ \A j \in Counted(t) : j > i => Said(t, said[t][j]) < Said(t, output[t].class)
    BY DEF LabelsAreMajorities
  <1>1. t \in live /\ t \in Tracks /\ output[t] = ToTrack(t)
    BY DEF Shown, OutputInv, AsShown, OutputShape
  <1>2. output[t].class = Majority(history[t])
    BY <1>1 DEF ToTrack
  <1>3. history[t] \in Seq(Names) /\ said[t] \in Seq(Names) /\ TailOf(history[t], said[t]) /\ history[t] # << >>
    BY <1>1 DEF OutputInv, OutputShape, HistoriesSound
  <1>4. \A c : Said(t, c) = Votes(history[t], c)
    BY <1>1, <1>3, VotesAreSaid DEF OutputInv
  <1> DEFINE h == history[t]
             s == said[t]
             off == Len(s) - Len(h)
  <1>5. PICK k \in Leaders(h) : Majority(h) = h[k] /\ \A j \in Leaders(h) : j <= k
    BY <1>3, MajorityIsSeen
  <1>6. Len(h) \in Nat /\ Len(s) \in Nat /\ DOMAIN h = 1 .. Len(h) /\ k \in 1 .. Len(h)
    BY <1>3, <1>5, LenProperties DEF Leaders
  <1>7. \A c : Votes(h, c) \in Nat
    BY <1>3, VotesAreCounts
  <1>8. \A j \in DOMAIN h : Votes(h, h[j]) <= Votes(h, h[k])
    BY <1>5 DEF Leaders
  <1>9. off \in Nat /\ Counted(t) = off + 1 .. Len(s) /\ \A i \in 1 .. Len(h) : h[i] = s[off + i]
    <2>1. Len(h) = (IF Len(s) <= VoteHistory THEN Len(s) ELSE VoteHistory) /\ VoteHistory \in Nat
      BY <1>3, OutputConstants DEF TailOf
    <2>2. \A i \in 1 .. Len(h) : h[i] = s[off + i]
      BY <1>3 DEF TailOf
    <2>3. Counted(t) = IF Len(s) <= VoteHistory THEN 1 .. Len(s) ELSE Len(s) - VoteHistory + 1 .. Len(s)
      BY DEF Counted
    <2>4. CASE Len(s) <= VoteHistory
      BY <1>6, <2>1, <2>2, <2>3, <2>4
    <2>5. CASE ~(Len(s) <= VoteHistory)
      BY <1>6, <2>1, <2>2, <2>3, <2>5
    <2>6. QED
      BY <2>4, <2>5
  <1> HIDE DEF h, s
  <1>10. ASSUME NEW c \in Names
         PROVE  Votes(h, c) <= Votes(h, h[k])
    <2>1. CASE \E j \in DOMAIN h : h[j] = c
      BY <1>8, <2>1
    <2>2. CASE \A j \in DOMAIN h : h[j] # c
      <3>1. Votes(h, c) = 0
        BY <1>3, <2>2, NoVoteWithoutObservation DEF h
      <3>2. QED
        BY <1>7, <3>1
    <2>3. QED
      BY <2>1, <2>2
  <1>11. ASSUME NEW j \in Counted(t), j > off + k
         PROVE  Votes(h, s[j]) < Votes(h, h[k])
    <2>1. j - off \in DOMAIN h /\ j - off > k /\ off + (j - off) = j
      BY <1>6, <1>9, <1>11
    <2>2. h[j - off] = s[j]
      BY <1>6, <1>9, <2>1
    <2>3. j - off \notin Leaders(h)
      BY <1>5, <1>6, <2>1
    <2>4. PICK m \in DOMAIN h : ~(Votes(h, h[m]) <= Votes(h, h[j - off]))
      BY <2>1, <2>3 DEF Leaders
    <2>5. Votes(h, h[m]) \in Nat /\ Votes(h, h[j - off]) \in Nat /\ Votes(h, h[k]) \in Nat /\ Votes(h, h[m]) <= Votes(h, h[k])
      BY <1>7, <1>8
    <2>6. Votes(h, h[j - off]) < Votes(h, h[k])
      BY <2>4, <2>5
    <2>7. QED
      BY <2>2, <2>6
  <1>12. off + k \in Counted(t) /\ s[off + k] = h[k]
    BY <1>6, <1>9
  <1>13. Said(t, output[t].class) = Votes(h, h[k]) /\ h[k] = output[t].class
    BY <1>2, <1>4, <1>5 DEF h
  <1>14. \A c \in Names : Said(t, c) <= Said(t, output[t].class)
    BY <1>4, <1>10, <1>13 DEF h
  <1>15. \A j \in Counted(t) : j > off + k => Said(t, s[j]) < Said(t, output[t].class)
    BY <1>4, <1>11, <1>13 DEF h
  <1>16. QED
    BY <1>12, <1>13, <1>14, <1>15 DEF s

LEMMA PosesAgeHonestly ==
    ASSUME OutputInv
    PROVE  PosesTellTheirAge
  <1> SUFFICES ASSUME NEW t \in Shown
               PROVE  LET age == clock - boundAt[t].at IN
                      /\ output[t].at # Never =>
                            output[t].at = boundAt[t].at /\ output[t].age = age /\ age <= PoseMaxAge
                      /\ output[t].at = Never => boundAt[t].at = Never \/ age > PoseMaxAge
                      /\ output[t].fresh <=> boundAt[t].isNew /\ boundAt[t].clock = clock
                      /\ boundAt[t].clock = clock => output[t].class = Person
    BY DEF PosesTellTheirAge
  <1>1. t \in live /\ t \in Tracks /\ output[t] = ToTrack(t)
    BY DEF Shown, OutputInv, AsShown, OutputShape
  <1>2. PoseSound(pose[t], boundAt[t])
    BY <1>1 DEF OutputInv, PosesSound
  <1>3. /\ pose[t].at = boundAt[t].at /\ (pose[t].isNew <=> boundAt[t].isNew)
        /\ boundAt[t].isNew => boundAt[t].at = boundAt[t].clock /\ boundAt[t].at # Never
    BY <1>2 DEF PoseSound
  <1>4. clock \in Nat /\ boundAt[t].at \in Int /\ PoseMaxAge \in Nat /\ boundAt[t].clock \in Int
    BY <1>1, OutputConstants DEF OutputInv, OutputShape, Bindings, Times, Never
  <1>5. /\ output[t].class = Majority(history[t])
        /\ output[t].at = IF InDate(t) THEN pose[t].at ELSE Never
        /\ output[t].age = IF InDate(t) THEN Age(t) ELSE 0
        /\ output[t].fresh <=> InDate(t) /\ IsFresh(t)
    <2>1. /\ output[t].class = Majority(history[t])
          /\ output[t].at = IF InDate(t) THEN pose[t].at ELSE Never
          /\ output[t].age = IF InDate(t) THEN Age(t) ELSE 0
      BY <1>1 DEF ToTrack
    <2>2. output[t].fresh <=> InDate(t) /\ IsFresh(t)
      <3>1. output[t].fresh = (InDate(t) /\ IsFresh(t))
        BY <1>1 DEF ToTrack
      <3>2. QED
        BY <3>1
    <2>3. QED
      BY <2>1, <2>2
  <1>6. InDate(t) <=> boundAt[t].at # Never /\ clock - boundAt[t].at <= PoseMaxAge
    BY <1>3 DEF InDate, Age
  <1>7. Age(t) = clock - boundAt[t].at
    BY <1>3 DEF Age
  <1>8. output[t].at # Never =>
            output[t].at = boundAt[t].at /\ output[t].age = clock - boundAt[t].at /\ clock - boundAt[t].at <= PoseMaxAge
    BY <1>3, <1>5, <1>6, <1>7
  <1>9. output[t].at = Never => boundAt[t].at = Never \/ clock - boundAt[t].at > PoseMaxAge
    <2>1. CASE InDate(t)
      BY <1>3, <1>5, <2>1
    <2>2. CASE ~InDate(t)
      BY <1>4, <1>6, <2>2
    <2>3. QED
      BY <2>1, <2>2
  <1>10. output[t].fresh <=> boundAt[t].isNew /\ boundAt[t].clock = clock
    <2>1. ASSUME boundAt[t].isNew, boundAt[t].clock = clock
          PROVE  InDate(t) /\ IsFresh(t)
      <3>1. boundAt[t].at = clock /\ boundAt[t].at # Never
        BY <1>3, <2>1
      <3>2. clock - boundAt[t].at = 0
        BY <1>4, <3>1
      <3>3. clock - boundAt[t].at <= PoseMaxAge
        BY <1>4, <3>2
      <3>4. QED
        BY <1>3, <1>6, <1>7, <2>1, <3>1, <3>2, <3>3 DEF IsFresh
    <2>2. ASSUME InDate(t), IsFresh(t)
          PROVE  boundAt[t].isNew /\ boundAt[t].clock = clock
      <3>1. boundAt[t].isNew /\ clock - boundAt[t].at = 0
        BY <1>3, <1>7, <2>2 DEF IsFresh
      <3>2. boundAt[t].at = clock
        BY <1>4, <3>1
      <3>3. QED
        BY <1>3, <3>1, <3>2
    <2>3. QED
      BY <1>5, <2>1, <2>2
  <1>11. boundAt[t].clock = clock => output[t].class = Person
    BY <1>1, <1>5 DEF OutputInv, PosesSound
  <1>12. QED
    BY <1>8, <1>9, <1>10, <1>11

(***************************************************************************)
(* A track's label is the majority of what was seen of it last, and its    *)
(* pose is as old as is said, shown while in date, and called fresh in the *)
(* update it was measured for (tracking/track_state.py, _bind_poses).      *)
(***************************************************************************)
THEOREM TracksStayTrue == OutputSpec => []TracksSayWhatWasSeen
  <1>1. OutputInit => OutputInv
    BY OutputInitHolds
  <1>2. OutputInv /\ [OutputNext]_outputVars => OutputInv'
    BY OutputStep
  <1>3. OutputInv => TracksSayWhatWasSeen
    BY LabelsFollowVotes, PosesAgeHonestly DEF TracksSayWhatWasSeen
  <1>4. QED
    BY <1>1, <1>2, <1>3, PTL DEF OutputSpec
==============================================================================
