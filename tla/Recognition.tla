----------------------------- MODULE Recognition -----------------------------
(***************************************************************************)
(* What becomes of the detector's boxes on one frame, as operators on what *)
(* the rules tell apart: duplicate suppression (perception/postprocess.py),*)
(* the recognition policy over its three tiers (perception/policy.py,      *)
(* vocabulary.py), the overlay's own view of the decision                  *)
(* (features/policy.js), the tracker's matching (tracking/association.py)  *)
(* and the scoring of an evaluation run (eval/matching.py, metrics.py).    *)
(* Each task takes its inputs at the start and works one frame: a loop of  *)
(* the code is an action that takes one element of what is `left` into, or *)
(* away from, what is `taken`; the last action gives the answer.           *)
(*                                                                         *)
(* Abstracted: a score, an overlap or an association score is a small      *)
(* integer; whether two boxes overlap too much is a relation.              *)
(***************************************************************************)
EXTENDS Integers, Sequences, FiniteSets, FiniteSetsExt, SequencesExt

CONSTANTS
    Universe,        \* classes the detector can emit
    Typo,            \* a name it cannot
    Entries,         \* bound: names in a configured tier
    Kinds,           \* detections to consider
    NBoxes,          \* detections or tracks on a frame
    NScored,         \* predictions and ground-truth boxes of an evaluated image
    Threshold,       \* class -> least score
    MaxDetections,   \* cap after suppression
    Grades,          \* scores of a pair; 0: ineligible, or below the minimum
    Labels           \* labels an evaluation scores, within Universe

\* The tiers of a vocabulary: each a list of class names.
TierNames == {"primary", "secondary", "implausible"}

\* A Detection before the policy, with the tier of its class; small or close: the
\* size rule, or the margin rule, would object to it.
Detections == [class : Universe, tier : TierNames, score : Int, small : BOOLEAN, close : BOOLEAN]

ASSUME RecognitionAssumption ==
    /\ IsFiniteSet(Universe)
    /\ Typo \notin Universe /\ "unknown" \notin Universe /\ "Unknown" \notin Universe
    /\ Labels \subseteq Universe /\ Threshold \in [Universe -> Int] /\ 0 \in Grades /\ Grades \subseteq Nat
    /\ \E top \in Grades : \A x \in Grades : x <= top
    /\ Kinds \subseteq Detections
    /\ \A n \in {NBoxes, NScored, MaxDetections, Entries} : n \in Nat \ {0}

VARIABLES
    task,        \* what this frame is for
    input,       \* the frame, or the configured tiers
    left,        \* boxes, pairs or predictions still to look at
    taken,       \* what a loop has made of the others
    answer       \* what the code made of it, once it has run

recognitionVars == <<task, input, left, taken, answer>>

Boxes == 1..NBoxes
Scored == 1..NScored
NoAnswer == [done |-> FALSE]
BoxPairs == {p \in Boxes \X Boxes : p[1] < p[2]}
Tiers == [c \in Universe |-> CHOOSE t \in TierNames : \E k \in Kinds : k.class = c /\ k.tier = t]
Rules == {r \in [enabled : BOOLEAN, domain : BOOLEAN, emit : BOOLEAN] : r.domain \/ r.emit => r.enabled}
\* The tracker's candidates: a pair that is eligible and scores the minimum.
Eligible(s) == {p \in Boxes \X Boxes : s[p] >= 1}

\* What ObjectDetector.infer has before suppression: the boxes that reach the
\* threshold of their class, and which of them overlap by more than nms_iou.
Decoded == [boxes : [Boxes -> Kinds], overlap : SUBSET BoxPairs]

View == {v \in [policy : BOOLEAN, domain : BOOLEAN, margin : BOOLEAN] : v.domain \/ v.margin => v.policy}

RecognitionInit ==
    /\ answer = NoAnswer
    /\ \/ /\ task = "tiers" /\ left = {} /\ taken = {}
          /\ input \in [TierNames -> BoundedSeq(Universe \cup {Typo}, Entries)]
       \/ /\ task = "show" /\ left = Boxes /\ taken = << >>
          /\ input \in Decoded
       \/ /\ task = "track"
          /\ input \in [Boxes \X Boxes -> Grades]
          /\ left = Eligible(input) /\ taken = {}
       \/ /\ task = "score" /\ left = Scored /\ taken = {}
          /\ input \in [preds : [Scored -> [label : Labels \cup {"unknown"}, score : Grades \ {0}]],
                        truth : [Scored -> Labels], iou : [Scored \X Scored -> Grades]]

-----------------------------------------------------------------------------
\* validate_partition: every name known, once in its tier, in one tier, and
\* every class of the detector in some tier.
IsPartition(tiers) ==
    /\ UNION {ToSet(tiers[t]) : t \in TierNames} = Universe
    /\ \A t \in TierNames : IsInjective(tiers[t])
    /\ \A t, u \in TierNames : t /= u => ToSet(tiers[t]) \cap ToSet(tiers[u]) = {}

\* tier_for: the first tier that names the class.
TierFor(tiers, c) ==
    CASE c \in ToSet(tiers["primary"]) -> "primary"
      [] c \notin ToSet(tiers["primary"]) /\ c \in ToSet(tiers["secondary"]) -> "secondary"
      [] c \notin ToSet(tiers["primary"]) \cup ToSet(tiers["secondary"]) /\ c \in ToSet(tiers["implausible"]) -> "implausible"
      [] OTHER -> "unlisted"

LoadTiers ==
    /\ task = "tiers"
    /\ answer' = [done |-> TRUE, accepted |-> IsPartition(input),
                  tier |-> [c \in Universe |-> TierFor(input, c)]]
    /\ UNCHANGED <<left, taken>>

-----------------------------------------------------------------------------
Clash(f, a, b) == <<a, b>> \in f.overlap \/ <<b, a>> \in f.overlap

\* Mutant: suppression across classes.
SuppressAny(f, keep, d) == \E k \in ToSet(keep) : Clash(f, k, d)

\* class_aware_nms: the best box of a class drops those of its class that
\* overlap it too much.
Suppressed(f, keep, d) == \E k \in ToSet(keep) : f.boxes[k].class = f.boxes[d].class /\ Clash(f, k, d)

\* The next box by falling score; the sort leaves ties in any order.
KeepOrDrop ==
    /\ task = "show"
    /\ \E d \in left :
        /\ \A e \in left : input.boxes[d].score >= input.boxes[e].score
        /\ left' = left \ {d}
        /\ taken' = IF Suppressed(input, taken, d) THEN taken ELSE Append(taken, d)
    /\ UNCHANGED answer

Capped(s) == IF Len(s) <= MaxDetections THEN s ELSE SubSeq(s, 1, MaxDetections)

Tier(c) == Tiers[c]

\* RecognitionPolicy._apply: the first rule that fails names the state.
PolicyState(r, k) ==
    CASE ~r.enabled -> "accepted"
      [] r.enabled /\ k.small -> "rejected_size"
      [] r.enabled /\ ~k.small /\ r.domain /\ Tier(k.class) = "implausible" -> "suppressed_implausible"
      [] OTHER -> IF k.score < Threshold[k.class] THEN "unknown_low_confidence"
                  ELSE IF k.close THEN "unknown_margin"
                  ELSE IF Tier(k.class) = "secondary" THEN "accepted_secondary" ELSE "accepted"

\* The label the backend publishes.
Decided(r, k) ==
    IF PolicyState(r, k) \in {"accepted", "accepted_secondary"} \/ ~r.emit THEN k.class ELSE "unknown"

\* effectiveDetection: the viewer's toggles re-derive what is drawn.
Drawn(r, v, k) ==
    LET state == PolicyState(r, k)
    IN  IF \/ ~v.policy
           \/ state = "unknown_margin" /\ ~v.margin
           \/ state = "suppressed_implausible" /\ ~v.domain
        THEN k.class
        ELSE IF state \in {"accepted", "accepted_secondary"} THEN Decided(r, k) ELSE "Unknown"

\* Under any rules of the backend, and any view of the user.
ShowFrame ==
    /\ task = "show" /\ left = {}
    /\ \E rules \in Rules, view \in View :
        answer' = [done |-> TRUE, kept |-> taken, capped |-> Capped(taken), rules |-> rules, view |-> view,
                   drawn |-> [d \in ToSet(Capped(taken)) |-> Drawn(rules, view, input.boxes[d])]]
    /\ UNCHANGED <<left, taken>>

-----------------------------------------------------------------------------
\* The tracker's matcher: eligible pairs, best first, each side once. Pairs of
\* equal score go by track, then by detection.
Before(s, p, q) ==
    \/ s[p] > s[q]
    \/ s[p] = s[q] /\ (p[1] < q[1] \/ (p[1] = q[1] /\ p[2] < q[2]))

TakePair ==
    /\ task = "track"
    /\ \E p \in left :
        /\ \A q \in left \ {p} : Before(input, p, q)
        /\ left' = left \ {p}
        /\ taken' = IF \E q \in taken : q[1] = p[1] \/ q[2] = p[2] THEN taken ELSE taken \cup {p}
    /\ UNCHANGED answer

MatchTracks ==
    /\ task = "track" /\ left = {}
    /\ answer' = [done |-> TRUE, pairs |-> taken]
    /\ UNCHANGED <<left, taken>>

-----------------------------------------------------------------------------
\* eval.greedy_match: predictions by falling score (stable: by index among
\* equals) claim the box of highest overlap not yet claimed, the first among
\* equals, if it reaches the threshold.
Free(m, g) == \A q \in m : q[1] /= g

\* The free boxes that overlap p most, of which argmax takes the first.
Nearest(f, m, p) ==
    {g \in Scored : Free(m, g) /\ \A h \in Scored : Free(m, h) => f.iou[<<g, p>>] >= f.iou[<<h, p>>]}

\* Higher scores first; the sort is stable.
Earlier(preds, p, q) == preds[p].score > preds[q].score \/ (preds[p].score = preds[q].score /\ p < q)

ClaimBox ==
    /\ task = "score"
    /\ \E p \in left :
        /\ \A q \in left \ {p} : Earlier(input.preds, p, q)
        /\ left' = left \ {p}
        /\ taken' = taken \cup {q \in Nearest(input, taken, p) \X {p} :
                                 input.iou[q] >= 1 /\ \A g \in Nearest(input, taken, p) : q[1] <= g}
    /\ UNCHANGED answer

Right(f, m) == {q \in m : f.preds[q[2]].label = f.truth[q[1]]}
Vague(f, m) == {q \in m : f.preds[q[2]].label = "unknown"}

Wrong(f, m) == {q \in m : f.preds[q[2]].label \notin {"unknown", f.truth[q[1]]}}

\* evaluate: true and false positives and misses of each class, and the totals.
Tally(f, m) ==
    LET freePreds == Scored \ {q[2] : q \in m}
        freeTruth == Scored \ {q[1] : q \in m}
    IN  [done |-> TRUE, matches |-> m, falseClass |-> Cardinality(Wrong(f, m)),
         background |-> Cardinality(freePreds), vague |-> Cardinality(Vague(f, m)),
         tp |-> [c \in Labels |-> Cardinality({q \in Right(f, m) : f.truth[q[1]] = c})],
         fp |-> [c \in Labels |-> Cardinality({q \in Wrong(f, m) : f.preds[q[2]].label = c})
                                + Cardinality({p \in freePreds : f.preds[p].label = c})],
         fn |-> [c \in Labels |-> Cardinality({q \in Wrong(f, m) \cup Vague(f, m) : f.truth[q[1]] = c})
                                + Cardinality({g \in freeTruth : f.truth[g] = c})]]

ScoreImage ==
    /\ task = "score" /\ left = {}
    /\ answer' = Tally(input, taken)
    /\ UNCHANGED <<left, taken>>

RecognitionNext ==
    /\ ~answer.done
    /\ LoadTiers \/ KeepOrDrop \/ ShowFrame \/ TakePair \/ MatchTracks \/ ClaimBox \/ ScoreImage
    /\ UNCHANGED <<task, input>>

RecognitionSpec == RecognitionInit /\ [][RecognitionNext]_recognitionVars

-----------------------------------------------------------------------------
\* A vocabulary that is accepted gives every class of the detector one tier,
\* and no order of the lists would give it another.
TiersArePartition ==
    (task = "tiers" /\ answer.done /\ answer.accepted) =>
        \A c \in Universe :
            /\ answer.tier[c] \in TierNames
            /\ \A t \in TierNames : c \in ToSet(input[t]) => t = answer.tier[c]

\* Suppression loses nothing it should keep: a box it drops overlaps a kept box
\* of its class that scores no less; kept boxes of one class never clash; and
\* the cap cuts the lowest scores.
DroppedForABetter ==
    (task = "show" /\ answer.done) =>
        /\ \A d \in Boxes \ ToSet(answer.kept) :
            \E k \in ToSet(answer.kept) :
                /\ input.boxes[k].class = input.boxes[d].class /\ Clash(input, k, d)
                /\ input.boxes[k].score >= input.boxes[d].score
        /\ \A k, d \in ToSet(answer.kept) :
            (k /= d /\ Clash(input, k, d)) => input.boxes[k].class /= input.boxes[d].class
        /\ \A d \in ToSet(answer.kept) \ ToSet(answer.capped), k \in ToSet(answer.capped) :
            input.boxes[k].score >= input.boxes[d].score

\* A detection drawn under its class name passes every rule that is on in the
\* backend and in the viewer, as long as the viewer leaves the tiers alone.
\* A detection of the implausible tier hides the later rules: see
\* SuppressedOnlyAsImplausible.
Passes(r, v, k) ==
    (r.enabled /\ v.policy) =>
        /\ ~k.small
        /\ (r.domain /\ v.domain) => Tier(k.class) /= "implausible"
        /\ k.score >= Threshold[k.class]
        /\ v.margin => ~k.close

DrawnPassesTheRules ==
    (task = "show" /\ answer.done /\ answer.view.domain) =>
        \A d \in DOMAIN answer.drawn :
            answer.drawn[d] = input.boxes[d].class => Passes(answer.rules, answer.view, input.boxes[d])

\* What policy.js:13 says of the toggle: with it off, a detection suppressed
\* only as implausible shows its raw label; one that another rule stops does not.
SuppressedOnlyAsImplausible ==
    (task = "show" /\ answer.done) =>
        \A d \in DOMAIN answer.drawn :
            answer.drawn[d] = input.boxes[d].class => Passes(answer.rules, answer.view, input.boxes[d])

\* The tracker's matching is stable: of an eligible pair it does not match, one
\* side is matched in a pair that scores no less; and no side is matched twice.
MatchingIsStable ==
    (task = "track" /\ answer.done) =>
        /\ \A p, q \in answer.pairs : p /= q => p[1] /= q[1] /\ p[2] /= q[2]
        /\ \A p \in Eligible(input) \ answer.pairs :
            \E q \in answer.pairs : (q[1] = p[1] \/ q[2] = p[2]) /\ input[q] >= input[p]

\* The same of an evaluation: no box and no prediction is claimed twice, each
\* pair overlaps enough, and of two that could have been paired one is in a
\* pair: a prediction with a box it overlaps no less, or a box with a
\* prediction that scores no less.
ClaimsAreStable ==
    (task = "score" /\ answer.done) =>
        /\ \A p, q \in answer.matches : p /= q => p[1] /= q[1] /\ p[2] /= q[2]
        /\ \A q \in answer.matches : input.iou[q] >= 1
        /\ \A g, p \in Scored : input.iou[<<g, p>>] >= 1 =>
            \/ \E q \in answer.matches : q[2] = p /\ input.iou[q] >= input.iou[<<g, p>>]
            \/ \E q \in answer.matches : q[1] = g /\ input.preds[q[2]].score >= input.preds[p].score

\* A tally over all labels.
OverLabels(f) == MapThenSumSet(LAMBDA c : f[c], Labels)

\* An evaluation's numbers reconcile: hits and misses of a class are its
\* ground-truth boxes, and every prediction is counted once.
ScoresReconcile ==
    (task = "score" /\ answer.done) =>
        LET hits == Cardinality(answer.matches)
            vagueFree == Cardinality({p \in Scored : input.preds[p].label = "unknown"}) - answer.vague
        IN  /\ \A c \in Labels : answer.tp[c] + answer.fn[c] = Cardinality({g \in Scored : input.truth[g] = c})
            /\ hits + answer.background = NScored
            /\ OverLabels(answer.tp) + answer.falseClass + answer.vague = hits
            /\ OverLabels(answer.tp) + OverLabels(answer.fp) + answer.vague + vagueFree = NScored

\* Together: what is shown of a frame follows the configured rules, the greedy
\* pairings, of tracks or of ground truth, are stable, and the tallies reconcile.
LabelsFollowTheRules == TiersArePartition /\ DroppedForABetter /\ DrawnPassesTheRules
PairingsAreStable == MatchingIsStable /\ ClaimsAreStable
FramesAreReadRight == LabelsFollowTheRules /\ PairingsAreStable /\ ScoresReconcile
=============================================================================
