---------------------------- MODULE DatasetImport ----------------------------
(***************************************************************************)
(* How pictures become training data: the import of an external download   *)
(* for one class (scripts/import_external_dataset.py), the detection       *)
(* dataset built from the download and from the Studio's samples           *)
(* (scripts/build_detection_dataset.py, external_detection_source.py,      *)
(* dataset/detection_convert.py, detection_splits.py), and the crops of a  *)
(* training run (training/dataset.py, train.py). Frames are added to the   *)
(* evaluation set and samples to the Studio while a script runs.           *)
(*                                                                         *)
(* Abstracted: what a picture shows is a number; a difference within       *)
(* DuplicateDistance is a near-duplicate (the perceptual hash), equality   *)
(* an exact copy. A box is good or fails a filter (bounds, size, aspect).  *)
(***************************************************************************)
EXTENDS Integers, FiniteSets

CONSTANTS
    Externals,          \* pictures of the download, by their ids
    PsClasses,
    NoClass,
    Looks,              \* what a picture can show
    DuplicateDistance,
    Downloads,          \* [look, labels, readable]; labels: [good, poor], classes of an image's boxes
    MaxAdded,           \* bound: evaluation frames and samples ever added
    MaxRuns,            \* bound: scripts ever run
    HardLimit,          \* --hard-negative-limit
    MinSamples          \* positives a class needs

ASSUME ImportAssumption ==
    /\ Externals \subseteq Nat /\ Looks \subseteq Int /\ DuplicateDistance \in Nat
    /\ \A d \in Downloads : d.look \in [Externals -> Int]
    /\ NoClass \notin PsClasses /\ MaxAdded \in Nat /\ MaxRuns \in Nat /\ HardLimit \in Nat /\ MinSamples \in Nat

VARIABLES
    look, labels, readable,   \* the download: fixed
    evalLooks,    \* what the evaluation frames show
    owned,        \* the Studio's committed samples: [look, class, role]
    copying,       \* the import under way
    manifests,    \* class -> the manifest written for it
    build,        \* the detection build under way, or its outcome
    taught,       \* the crops of the last training run: [class, shows]
    added, runs

importVars == <<look, labels, readable, evalLooks, owned, copying, manifests, build, taught, added, runs>>

CropRoles == {"positive", "hard_negative"}
NoJob == [class |-> NoClass]
NoManifest == [samples |-> {}, known |-> {}]
NoBuild == [step |-> "none", classes |-> {}, external |-> {}, own |-> {}, checked |-> {}]

ImportInit ==
    /\ \E d \in Downloads : look = d.look /\ labels = d.labels /\ readable = d.readable
    /\ evalLooks = {} /\ owned = {} /\ added = 0 /\ runs = 0
    /\ copying = NoJob /\ manifests = [c \in PsClasses |-> NoManifest]
    /\ build = NoBuild /\ taught = {}

Distance(a, b) == IF a > b THEN a - b ELSE b - a
Alike(a, b) == Distance(a, b) <= DuplicateDistance
AlikeAny(a, S) == \E b \in S : Alike(a, b)
Boxes(i) == labels[i].good \cup labels[i].poor
First(S, n) == {i \in S : Cardinality({j \in S : j < i}) < n}
Download == UNCHANGED <<look, labels, readable>>
Stores == UNCHANGED <<evalLooks, owned, added>>
Running == UNCHANGED runs
Begins == runs < MaxRuns /\ runs' = runs + 1

-----------------------------------------------------------------------------
AddEvalFrame ==
    /\ added < MaxAdded
    /\ \E l \in Looks : evalLooks' = evalLooks \cup {l}
    /\ added' = added + 1
    /\ UNCHANGED <<owned, copying, manifests, build, taught>> /\ Running /\ Download

CommitSample ==
    /\ added < MaxAdded
    /\ \E l \in Looks, c \in PsClasses, r \in CropRoles : owned' = owned \cup {[look |-> l, class |-> c, role |-> r]}
    /\ added' = added + 1
    /\ UNCHANGED <<evalLooks, copying, manifests, build, taught>> /\ Running /\ Download

-----------------------------------------------------------------------------
\* _existing_hashes_and_phashes and _read_target_rows: both stores are read
\* once, when the import starts, and the class's rows are grouped by image.
StartImport(c) ==
    /\ copying = NoJob
    /\ copying' = [class |-> c, pass |-> "positive", todo |-> {i \in Externals : c \in Boxes(i)},
               seen |-> {}, kept |-> {}, samples |-> {},
               evals |-> evalLooks, objects |-> {s.look : s \in owned}]
    /\ UNCHANGED <<manifests, build, taught>> /\ Begins /\ Download /\ Stores

\* The class whose boxes a pass collects: a hard negative is a box of another.
Collected(c) == IF copying.pass = "positive" THEN {c} ELSE PsClasses \ {c}

\* _build_samples_for_mid_group, the checks made once per image.
Aborts(i) == i \notin copying.seen /\ AlikeAny(look[i], copying.evals)

\* A duplicate of the Studio's or of an image already kept is left out.
Duplicate(i) ==
    /\ i \notin copying.seen
    /\ AlikeAny(look[i], copying.objects \cup {look[k] : k \in copying.kept})

\* The boxes of an image that a pass may take: all of the class, but only one, the
\* first of the file, of a hard negative; it may turn out a poor one.
Taken(i) ==
    LET good == labels[i].good \cap Collected(copying.class)
        poor == labels[i].poor \cap Collected(copying.class)
    IN  IF copying.pass = "positive" THEN {good} ELSE {{b} : b \in good} \cup {{} : b \in poor}

SamplesOf(i, boxes) ==
    {[image |-> i, shows |-> b, role |-> IF copying.pass = "positive" THEN "positive" ELSE "hard_negative"] : b \in boxes}

\* _build_samples_for_mid_group, one image, in the order of the ids: an image whose
\* size is known has been through the checks and goes straight to its boxes. A
\* collision with the evaluation set ends the import with nothing written.
ExamineImage ==
    /\ copying /= NoJob
    /\ \E i \in copying.todo :
        /\ \A j \in copying.todo : i <= j
        /\ \/ i \notin readable /\ copying' = [copying EXCEPT !.todo = @ \ {i}]
           \/ i \in readable /\ Aborts(i) /\ copying' = NoJob
           \/ i \in readable /\ ~Aborts(i) /\ Duplicate(i)
                 /\ copying' = [copying EXCEPT !.todo = @ \ {i}, !.seen = @ \cup {i}]
           \/ /\ i \in readable /\ ~Aborts(i) /\ ~Duplicate(i)
              /\ \E boxes \in Taken(i) :
                    copying' = [copying EXCEPT !.todo = @ \ {i}, !.seen = @ \cup {i}, !.kept = @ \cup {i},
                                               !.samples = @ \cup SamplesOf(i, boxes)]
    /\ UNCHANGED <<manifests, build, taught>> /\ Running /\ Download /\ Stores

\* Mutant: an image that shows the class too may be a hard negative for it.
OtherImages(c) == {i \in Externals : Boxes(i) \ {c} /= {}}

\* import_class: images with any box of the class, filtered out or not, are no
\* source of hard negatives for it.
HardImages(c) == {i \in Externals : Boxes(i) \ {c} /= {} /\ c \notin Boxes(i)}

StartHardNegatives ==
    /\ copying /= NoJob /\ copying.pass = "positive" /\ copying.todo = {}
    /\ copying' = [copying EXCEPT !.pass = "hard", !.todo = First(HardImages(copying.class), HardLimit)]
    /\ UNCHANGED <<manifests, build, taught>> /\ Running /\ Download /\ Stores

\* The manifest of the class is written whole, over the one before.
WriteManifest ==
    /\ copying /= NoJob /\ copying.pass = "hard" /\ copying.todo = {}
    /\ manifests' = [manifests EXCEPT ![copying.class] = [samples |-> copying.samples, known |-> copying.evals]]
    /\ copying' = NoJob
    /\ UNCHANGED <<build, taught>> /\ Running /\ Download /\ Stores

-----------------------------------------------------------------------------
\* query_active_classes: one pass, every image with a box of a wanted class.
ImagesWith(wanted) == {i \in Externals : Boxes(i) \cap wanted /= {}}

\* own_capture_records: every sample, whatever its role; only a positive has a box.
OwnRecords(wanted) == {s.look : s \in {t \in owned : t.class \in wanted}}

\* build_external_records: the readable images, their boxes filtered (an image may
\* keep none). The store is saved.
ExternalRecords(wanted) == ImagesWith(wanted) \cap readable

CollectRecords ==
    /\ build.step \in {"none", "built", "aborted"}
    /\ \E wanted \in (SUBSET PsClasses) \ {{}} :
        build' = [step |-> "collected", classes |-> wanted,
                  external |-> ExternalRecords(wanted), own |-> OwnRecords(wanted), checked |-> {}]
    /\ UNCHANGED <<copying, manifests, taught>> /\ Begins /\ Download /\ Stores

\* assert_no_eval_collision: a record is compared by its content hash, and by a
\* perceptual hash if its provenance has one, which only the Studio's do.
Collides(b) ==
    \/ ({look[i] : i \in b.external} \cup b.own) \cap evalLooks /= {}
    \/ \E l \in b.own : AlikeAny(l, evalLooks)

\* The evaluation set is read after the store is saved.
CheckCollisions ==
    /\ build.step = "collected"
    /\ build' = [build EXCEPT !.step = IF Collides(build) THEN "aborted" ELSE "built", !.checked = evalLooks]
    /\ UNCHANGED <<copying, manifests, taught>> /\ Running /\ Download /\ Stores

-----------------------------------------------------------------------------
\* positive_records.
Positives(crops) == {r \in crops : r.role = "positive"}

\* build_crop_records: the Studio's samples of the class and those of its
\* manifest, each with the role it was stored under.
CropsOf(c) ==
    {[class |-> c, role |-> s.role, shows |-> IF s.role = "positive" THEN c ELSE NoClass, of |-> s]
        : s \in {t \in owned : t.class = c}}
    \cup {[class |-> c, role |-> s.role, shows |-> s.shows, of |-> s] : s \in manifests[c].samples}

\* validate_dataset refuses a class with too few positives; run_training then
\* teaches the positives.
Train ==
    LET crops == UNION {CropsOf(c) : c \in PsClasses}
        present == {r.class : r \in crops}
    IN  /\ crops /= {}
        /\ \A c \in present : Cardinality({r \in crops : r.class = c /\ r.role = "positive"}) >= MinSamples
        /\ taught' = {[class |-> r.class, shows |-> r.shows] : r \in Positives(crops)}
        /\ UNCHANGED <<copying, manifests, build>> /\ Begins /\ Download /\ Stores

ImportNext ==
    \/ AddEvalFrame \/ CommitSample
    \/ \E c \in PsClasses : StartImport(c)
    \/ ExamineImage \/ StartHardNegatives \/ WriteManifest
    \/ CollectRecords \/ CheckCollisions
    \/ Train

ImportSpec == ImportInit /\ [][ImportNext]_importVars

-----------------------------------------------------------------------------
(***************************************************************************)
(* A manifest is the outcome of two passes that share one cache of images  *)
(* already examined, and an image found in the cache is not checked again. *)
(* Still no two images of a manifest are near-duplicates of each other,    *)
(* none is near an evaluation frame the import knew, and no hard negative  *)
(* comes from an image that also shows the class, even in a box that was   *)
(* filtered out.                                                           *)
(***************************************************************************)
ManifestIsClean ==
    \A c \in PsClasses : LET m == manifests[c] IN
        /\ \A s, t \in m.samples : s.image /= t.image => ~Alike(look[s.image], look[t.image])
        /\ \A s \in m.samples : ~AlikeAny(look[s.image], m.known)
        /\ \A s \in m.samples : s.role = "hard_negative" => c \notin Boxes(s.image)

(***************************************************************************)
(* Whatever was imported, committed and imported again, a crop that a      *)
(* training run teaches as a class shows that class: a hard negative is    *)
(* kept in the class's own folder and manifest, and is not one of them.    *)
(***************************************************************************)
TaughtIsTrue == \A r \in taught : r.shows = r.class

(***************************************************************************)
(* A detection dataset that was built holds no copy of an evaluation frame *)
(* that was there when it was checked, and no sample of the Studio that is *)
(* a near-duplicate of one.                                                *)
(***************************************************************************)
Built == build.step = "built"

StudioKeepsOutEval ==
    Built => /\ ({look[i] : i \in build.external} \cup build.own) \cap build.checked = {}
             /\ \A l \in build.own : ~AlikeAny(l, build.checked)

(***************************************************************************)
(* What detection_splits.py says of assert_no_eval_collision: it fails if  *)
(* any train or val image matches, "or near-duplicate-matches, anything in *)
(* data/eval". An image of the download has no perceptual hash in its      *)
(* provenance, so the build goes through with a near-duplicate of a frame. *)
(***************************************************************************)
EvalIsKeptOut ==
    Built => \A l \in {look[i] : i \in build.external} \cup build.own : ~AlikeAny(l, build.checked)

\* Together: from the download to the crops and the built set, nothing is taught
\* under a wrong name and nothing is measured on what was taught.
DataSetsAreClean == ManifestIsClean /\ TaughtIsTrue /\ StudioKeepsOutEval
==============================================================================
