----------------------------- MODULE Evaluation -----------------------------
(***************************************************************************)
(* How the detector and its policy are measured: scripts that split the    *)
(* labelled frames (build_splits.py), fit thresholds on val                *)
(* (fit_thresholds.py) and measure on val or test (eval_detection.py,      *)
(* _eval_common.py), one after the other; the developer who pastes fitted  *)
(* thresholds into the profile; and the labelling, which goes on meanwhile.*)
(* They meet in files: annotations, splits, profile, the log of test       *)
(* openings, reports. A script may fail or be interrupted at any step; the *)
(* log is written in place, so then it may have lost its rows.             *)
(*                                                                         *)
(* Abstracted: a hash is what it hashes; labels are a version number, 0 for*)
(* a frame not labelled; thresholds are the frames they were fitted on.    *)
(***************************************************************************)
EXTENDS Integers, FiniteSets

CONSTANTS
    Shots,        \* frames of the evaluation set
    SessionOf,    \* frame -> its recording session
    Revisions,    \* versions of a frame's labels, 0 among them
    Deals,        \* what a seed and shares give: labelled sessions -> those of val
    MaxRelabels,  \* bound: saves of the labelling page
    MaxRounds     \* bound: scripts run

SessionIds == {SessionOf[i] : i \in Shots}

ASSUME EvaluationAssumption ==
    /\ 0 \in Revisions /\ MaxRelabels \in Nat /\ MaxRounds \in Nat
    /\ \A d \in Deals : \A S \in SUBSET SessionIds : d[S] \subseteq S

VARIABLES
    deal,        \* fixed: seed and shares
    notes,       \* the annotation store: frame -> version of its labels
    splitDoc,    \* the split file
    thresholds,  \* what the profile's policy thresholds were fitted on
    fitted,      \* the last result of fit_thresholds.py
    openings,    \* rows of test_set_openings.md
    tool,        \* the script under way: what it was asked and what it has read
    report,      \* the report last written
    looks, reopenedLooks, \* history: times test was run, first by right, then by --allow-reopen
    cutLogs,     \* history: times a script failed while it wrote the log
    relabels, rounds

evaluationVars == <<deal, notes, splitDoc, thresholds, fitted, openings, tool, report,
                    looks, reopenedLooks, cutLogs, relabels, rounds>>

NoHash == [notes |-> << >>, val |-> {}, test |-> {}]
NoDoc == [val |-> {}, test |-> {}, hash |-> NoHash]
Unfitted == [on |-> {}, hash |-> NoHash]
NoReport == [split |-> "none", images |-> {}, rest |-> {}, labelled |-> {}, hash |-> NoHash, by |-> Unfitted]
NoTool == [does |-> "none", at |-> "none", split |-> "none", reopen |-> FALSE, by |-> Unfitted,
           prior |-> 0, doc |-> NoDoc, labelled |-> {}]

EvaluationInit ==
    /\ deal \in Deals /\ notes \in [Shots -> Revisions]
    /\ splitDoc = NoDoc /\ thresholds = Unfitted /\ fitted = Unfitted
    /\ openings = 0 /\ tool = NoTool /\ report = NoReport
    /\ looks = 0 /\ reopenedLooks = 0 /\ cutLogs = 0 /\ relabels = 0 /\ rounds = 0

LabelledShots == {i \in Shots : notes[i] # 0}
SessionsOn(S) == {SessionOf[i] : i \in S}

\* splits_content_hash.
ContentHash(val, test) == [notes |-> notes, val |-> SessionsOn(val), test |-> SessionsOn(test)]

Doing(does, at) == tool.does = does /\ tool.at = at
Advances(at) == tool' = [tool EXCEPT !.at = at]
Finishes == tool' = NoTool

Starts(does, split, reopen, by) ==
    /\ tool = NoTool /\ rounds < MaxRounds
    /\ tool' = [NoTool EXCEPT !.does = does, !.at = "start", !.split = split, !.reopen = reopen, !.by = by]
    /\ rounds' = rounds + 1

-----------------------------------------------------------------------------
\* build_splits.py: what is labelled, dealt by session. With nothing labelled it
\* refuses.
BySession ==
    LET val == {i \in LabelledShots : SessionOf[i] \in deal[SessionsOn(LabelledShots)]}
    IN  [val |-> val, test |-> LabelledShots \ val, hash |-> ContentHash(val, LabelledShots \ val)]

StartSplit ==
    /\ Starts("build", "none", FALSE, Unfitted)
    /\ UNCHANGED <<deal, notes, splitDoc, thresholds, fitted, openings, report, looks, reopenedLooks, cutLogs, relabels>>

DealShots ==
    /\ Doing("build", "start")
    /\ IF LabelledShots = {} THEN Finishes ELSE tool' = [tool EXCEPT !.at = "dealt", !.doc = BySession]
    /\ UNCHANGED <<deal, notes, splitDoc, thresholds, fitted, openings, report, looks, reopenedLooks, cutLogs, relabels, rounds>>

SaveSplits ==
    /\ Doing("build", "dealt")
    /\ splitDoc' = tool.doc /\ Finishes
    /\ UNCHANGED <<deal, notes, thresholds, fitted, openings, report, looks, reopenedLooks, cutLogs, relabels, rounds>>

-----------------------------------------------------------------------------
\* load_splits: a file that leaks, or is of other annotations, is refused.
\* Mutant: a split of older labels is used.
AnyFile(f) == TRUE

HashFits(f) == f.hash = ContentHash(f.val, f.test)
NoLeak(f) == f.val \cap f.test = {} /\ SessionsOn(f.val) \cap SessionsOn(f.test) = {}
MayLoad(f) == f # NoDoc /\ NoLeak(f) /\ HashFits(f)

\* select_split: there are frames, and all of them are labelled.
Selectable(S) == S # {} /\ S \subseteq LabelledShots

\* load_store_and_splits and select_split, for both scripts that measure.
LoadSplit ==
    /\ IF MayLoad(splitDoc) /\ Selectable(splitDoc[tool.split])
       THEN tool' = [tool EXCEPT !.at = "loaded", !.doc = splitDoc, !.labelled = LabelledShots]
       ELSE Finishes
    /\ UNCHANGED <<deal, notes, splitDoc, thresholds, fitted, openings, report, looks, reopenedLooks, cutLogs, relabels, rounds>>

\* fit_thresholds.py: only val may be asked for.
StartFit ==
    /\ Starts("fit", "val", FALSE, Unfitted)
    /\ UNCHANGED <<deal, notes, splitDoc, thresholds, fitted, openings, report, looks, reopenedLooks, cutLogs, relabels>>

LoadForFit == Doing("fit", "start") /\ LoadSplit

WriteFit ==
    /\ Doing("fit", "loaded")
    /\ fitted' = [on |-> tool.doc[tool.split], hash |-> tool.doc.hash] /\ Finishes
    /\ UNCHANGED <<deal, notes, splitDoc, thresholds, openings, report, looks, reopenedLooks, cutLogs, relabels, rounds>>

\* The developer pastes the printed block into the profile.
PasteThresholds ==
    /\ thresholds' = fitted
    /\ UNCHANGED <<deal, notes, splitDoc, fitted, openings, tool, report, looks, reopenedLooks, cutLogs, relabels, rounds>>

-----------------------------------------------------------------------------
\* eval_detection.py; the profile is read once, at the start. by: --policy.
StartEval ==
    /\ \E split \in {"val", "test"}, reopen \in BOOLEAN, by \in {thresholds, Unfitted} :
          Starts("eval", split, reopen, by)
    /\ UNCHANGED <<deal, notes, splitDoc, thresholds, fitted, openings, report, looks, reopenedLooks, cutLogs, relabels>>

\* _log_test_opening: before anything else is looked at.
MayOpen == openings = 0 \/ tool.reopen

\* Its rows are read, then the file is opened for writing, which empties it.
LogTestOpening ==
    /\ Doing("eval", "start") /\ tool.split = "test"
    /\ IF MayOpen THEN openings' = 0 /\ tool' = [tool EXCEPT !.at = "logging", !.prior = openings]
       ELSE Finishes /\ UNCHANGED openings
    /\ UNCHANGED <<deal, notes, splitDoc, thresholds, fitted, report, looks, reopenedLooks, cutLogs, relabels, rounds>>

\* The rows that were read, and one more.
WriteTestLog ==
    /\ Doing("eval", "logging")
    /\ openings' = tool.prior + 1 /\ Advances("opened")
    /\ UNCHANGED <<deal, notes, splitDoc, thresholds, fitted, report, looks, reopenedLooks, cutLogs, relabels, rounds>>

LoadForEval == Doing("eval", IF tool.split = "test" THEN "opened" ELSE "start") /\ LoadSplit

RunPredictions ==
    /\ Doing("eval", "loaded")
    /\ Advances("ran")
    /\ looks' = IF tool.split = "test" /\ ~tool.reopen THEN looks + 1 ELSE looks
    /\ reopenedLooks' = IF tool.split = "test" /\ tool.reopen THEN reopenedLooks + 1 ELSE reopenedLooks
    /\ UNCHANGED <<deal, notes, splitDoc, thresholds, fitted, openings, report, cutLogs, relabels, rounds>>

\* run_metadata: what the figures say of themselves, and the frames they are of.
Measured ==
    [split |-> tool.split, images |-> tool.doc[tool.split],
     rest |-> tool.doc[IF tool.split = "val" THEN "test" ELSE "val"],
     labelled |-> tool.labelled, hash |-> tool.doc.hash, by |-> tool.by]

WriteReports ==
    /\ Doing("eval", "ran")
    /\ report' = Measured /\ Finishes
    /\ UNCHANGED <<deal, notes, splitDoc, thresholds, fitted, openings, looks, reopenedLooks, cutLogs, relabels, rounds>>

-----------------------------------------------------------------------------
\* A detector that does not start, a frame that cannot be read, a full disk, an
\* interrupt. A log that is being written keeps the rows that reached the disk.
ScriptFails ==
    /\ tool # NoTool /\ Finishes
    /\ IF tool.at = "logging" THEN openings' \in 0 .. tool.prior + 1 /\ cutLogs' = cutLogs + 1
       ELSE UNCHANGED <<openings, cutLogs>>
    /\ UNCHANGED <<deal, notes, splitDoc, thresholds, fitted, report, looks, reopenedLooks, relabels, rounds>>

\* The labelling page saves a frame.
Relabel ==
    /\ relabels < MaxRelabels
    /\ \E i \in Shots : \E r \in Revisions \ {notes[i]} : notes' = [notes EXCEPT ![i] = r]
    /\ relabels' = relabels + 1
    /\ UNCHANGED <<deal, splitDoc, thresholds, fitted, openings, tool, report, looks, reopenedLooks, cutLogs, rounds>>

EvaluationNext ==
    \/ StartSplit \/ DealShots \/ SaveSplits
    \/ StartFit \/ LoadForFit \/ WriteFit \/ PasteThresholds
    \/ StartEval \/ LogTestOpening \/ WriteTestLog \/ LoadForEval \/ RunPredictions \/ WriteReports
    \/ ScriptFails \/ Relabel

EvaluationSpec == EvaluationInit /\ [][EvaluationNext]_evaluationVars

-----------------------------------------------------------------------------
(***************************************************************************)
(* Whatever was labelled, split again or interrupted since, a report is of *)
(* whole sessions: with the side it left out it is of every frame that was *)
(* labelled when it was measured, and no session is on both sides.         *)
(***************************************************************************)
ReportsAreOfOneSide ==
    report # NoReport =>
        /\ report.images # {}
        /\ report.images \cup report.rest = report.labelled
        /\ SessionsOn(report.images) \cap SessionsOn(report.rest) = {}

(***************************************************************************)
(* Test is opened once: without --allow-reopen its frames are run a single *)
(* time, and every time they are run stands in the log, whichever script   *)
(* failed in between. A failure in the middle of writing the log, and      *)
(* nothing else, lets them be run once more.                               *)
(***************************************************************************)
TestOpenedOnce ==
    /\ looks <= 1 + cutLogs
    /\ cutLogs = 0 /\ tool.at # "logging" => looks + reopenedLooks <= openings

(***************************************************************************)
(* A figure on test was not got with thresholds that were fitted on the    *)
(* sessions it is measured on, as long as both go back to the same split.  *)
(***************************************************************************)
FittedElsewhere ==
    (report.split = "test" /\ report.by.hash = report.hash) =>
        SessionsOn(report.by.on) \cap SessionsOn(report.images) = {}

\* Together: what the reports claim to be.
FiguresAreHonest == ReportsAreOfOneSide /\ TestOpenedOnce /\ FittedElsewhere

\* What fit_thresholds.py says of itself, fitting on test is refused
\* (fit_thresholds.py:14), taken for the figures: across two splits it is not.
TestIsUnseen == report.split = "test" => SessionsOn(report.by.on) \cap SessionsOn(report.images) = {}

\* Each logged opening was one: a refusal after the log has spent it.
OpeningsWereLooks == tool = NoTool => openings = looks + reopenedLooks
=============================================================================
