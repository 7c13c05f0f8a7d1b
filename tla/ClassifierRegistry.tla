-------------------------- MODULE ClassifierRegistry --------------------------
(***************************************************************************)
(* The registry of trained crop classifiers                                *)
(* (training/classifier_registry.py): one JSON file, read and replaced     *)
(* whole by three scripts (train, validate, activate or roll back) without *)
(* a lock between them, and read once by the analysis loop when it is      *)
(* built (pipeline/loop.py). Scripts may overlap and may die at any step.  *)
(*                                                                         *)
(* A save truncates .json.tmp, writes it and moves it into place: three    *)
(* steps, and one temporary file for all the scripts. A file that a script *)
(* has open moves with its name, so a late writer may write into the       *)
(* registry itself. Text left by two writers is whole or not JSON.         *)
(***************************************************************************)
EXTENDS Integers, FiniteSets

CONSTANTS
    Versions,      \* classifiers that can be trained
    Scripts,       \* scripts that may run at the same time
    NoVersion,     \* no classifier: baseline recognition
    MaxScripts     \* bound: scripts ever started

ASSUME ClassifierAssumption == NoVersion \notin Versions /\ MaxScripts \in Nat

VARIABLES
    registry,    \* the file: what state it is in, and version -> [validated, active]
    temp,        \* .json.tmp beside it
    artifacts,   \* versions whose model.onnx is on disk
    metBar,      \* versions whose test metrics meet the thresholds: fixed
    script,      \* per script: what it does, to which version, what it is to write, to which open file
    serving,     \* the classifier the analysis loop has loaded
    started,
    overlapped,                \* history: a save began while another was under way
    validatedBy, activatedBy   \* history: versions a script wrote as validated, active

registryHistory == <<overlapped, validatedBy, activatedBy>>
registryFiles == <<registry, temp>>
classifierVars == <<registryFiles, artifacts, metBar, script, serving, started, registryHistory>>

Absent == [state |-> "none", doc |-> << >>]
Emptied == [state |-> "empty", doc |-> << >>]
Mixed == [state |-> "mixed", doc |-> << >>]
Whole(doc) == [state |-> "whole", doc |-> doc]

NoScript == [does |-> "nothing", version |-> NoVersion, step |-> "done", doc |-> << >>, file |-> "none"]

ClassifierInit ==
    /\ registry = Absent /\ temp = Absent /\ artifacts = {}
    /\ metBar \in SUBSET Versions
    /\ script = [s \in Scripts |-> NoScript]
    /\ serving = NoVersion /\ started = 0
    /\ overlapped = FALSE /\ validatedBy = {} /\ activatedBy = {}

Actives(doc) == {v \in DOMAIN doc : doc[v].active}

\* ClassifierRegistry._load refuses a file that breaks these.
Acceptable(doc) ==
    /\ Cardinality(Actives(doc)) <= 1
    /\ \A v \in Actives(doc) : doc[v].validated

\* _load: a missing file is an empty registry.
Readable(f) == f.state \in {"none", "whole"} /\ Acceptable(f.doc)

At(s, step) == script[s].step = step
Goes(s, step) == script' = [script EXCEPT ![s].step = step]
Ends(s) == script' = [script EXCEPT ![s] = NoScript]

-----------------------------------------------------------------------------
\* Training picks a new version; the other scripts are given one, and activate
\* may be given none.
StartScript(s) ==
    /\ At(s, "done") /\ started < MaxScripts
    /\ \E does \in {"train", "validate", "activate"}, v \in Versions \cup {NoVersion} :
        /\ does = "train" => v \in Versions \ artifacts /\ \A t \in Scripts : script[t].version /= v
        /\ does = "validate" => v \in Versions
        /\ script' = [script EXCEPT ![s] = [does |-> does, version |-> v, doc |-> << >>, file |-> "none",
                step |-> CASE does = "train" -> "export" [] does = "validate" -> "judge" [] OTHER -> "load"]]
    /\ started' = started + 1
    /\ UNCHANGED <<registryFiles, artifacts, metBar, serving, registryHistory>>

\* run_training: the model is exported before the version is registered.
Export(s) ==
    /\ At(s, "export")
    /\ artifacts' = artifacts \cup {script[s].version}
    /\ Goes(s, "load")
    /\ UNCHANGED <<registryFiles, metBar, serving, started, registryHistory>>

\* Mutant: any version may be validated.
NoBar(v) == TRUE

MeetsBar(v) == v \in metBar

\* validate_object_classifier: the version's metrics against the thresholds.
Judge(s) ==
    /\ At(s, "judge")
    /\ IF Readable(registry) /\ script[s].version \in DOMAIN registry.doc /\ MeetsBar(script[s].version)
         THEN Goes(s, "load") ELSE Ends(s)
    /\ UNCHANGED <<registryFiles, artifacts, metBar, serving, started, registryHistory>>

\* What the operation refuses in the file it has read.
Refused(does, v, doc) ==
    \/ does = "train" /\ v \in DOMAIN doc
    \/ does = "validate" /\ v \notin DOMAIN doc
    \/ does = "activate" /\ v /= NoVersion /\ (v \notin DOMAIN doc \/ ~doc[v].validated)

\* Exactly the given version is active afterwards.
OnlyActive(v, doc) == [x \in DOMAIN doc |-> [doc[x] EXCEPT !.active = x = v]]

\* The new version is put beside the others, with no state.
WithNew(v, doc) ==
    [x \in DOMAIN doc \cup {v} |-> IF x = v THEN [validated |-> FALSE, active |-> FALSE] ELSE doc[x]]

Result(does, v, doc) ==
    CASE does = "train"    -> WithNew(v, doc)
      [] does = "validate" -> [doc EXCEPT ![v].validated = TRUE]
      [] OTHER             -> OnlyActive(v, doc)

Load(s) ==
    /\ At(s, "load")
    /\ IF ~Readable(registry) \/ Refused(script[s].does, script[s].version, registry.doc) THEN Ends(s)
       ELSE script' = [script EXCEPT ![s].step = "save",
                           ![s].doc = Result(script[s].does, script[s].version, registry.doc)]
    /\ UNCHANGED <<registryFiles, artifacts, metBar, serving, started, registryHistory>>

InSave(s) == script[s].step \in {"write", "replace"}

\* _save, in three steps. The temporary file is opened, and emptied if it is there.
OpenTemp(s) ==
    /\ At(s, "save")
    /\ temp' = Emptied
    /\ script' = [script EXCEPT ![s].step = "write", ![s].file = "temp"]
    /\ overlapped' = (overlapped \/ \E t \in Scripts : InSave(t))
    /\ UNCHANGED <<registry, artifacts, metBar, serving, started, validatedBy, activatedBy>>

\* What may be in a file after a script wrote doc from its beginning: a longer text
\* of another writer is not cut off.
Written(f, doc) == IF f.state = "empty" THEN {Whole(doc)} ELSE {Whole(doc), Mixed}

\* What was read before, with the change, goes to the file the script has open,
\* whatever name that file has by now.
WriteTemp(s) ==
    LET on == script[s].file
        given(does) == IF script[s].does = does THEN {script[s].version} ELSE {}
    IN  /\ At(s, "write")
        /\ temp' \in IF on = "temp" THEN Written(temp, script[s].doc) ELSE {temp}
        /\ registry' \in IF on = "registry" THEN Written(registry, script[s].doc) ELSE {registry}
        /\ script' = [script EXCEPT ![s].step = "replace", ![s].file = "none"]
        /\ validatedBy' = validatedBy \cup given("validate")
        /\ activatedBy' = activatedBy \cup given("activate")
        /\ UNCHANGED <<artifacts, metBar, serving, started, overlapped>>

\* The name under which an open file is to be found after the replacement.
Renamed(file) == CASE file = "temp" -> "registry" [] file = "registry" -> "gone" [] OTHER -> file

\* os.replace: whatever is in the temporary file is the registry now.
Replace(s) ==
    /\ At(s, "replace") /\ temp.state /= "none"
    /\ registry' = temp /\ temp' = Absent
    /\ script' = [t \in Scripts |-> IF t = s THEN NoScript
                                    ELSE [script[t] EXCEPT !.file = Renamed(script[t].file)]]
    /\ UNCHANGED <<artifacts, metBar, serving, started, registryHistory>>

\* Another script has moved it away: FileNotFoundError ends the script.
ReplaceFails(s) ==
    /\ At(s, "replace") /\ temp.state = "none"
    /\ Ends(s)
    /\ UNCHANGED <<registryFiles, artifacts, metBar, serving, started, registryHistory>>

\* It is killed, or a file operation fails (on Windows a file that is open elsewhere
\* cannot be replaced).
ScriptDies(s) ==
    /\ ~At(s, "done")
    /\ Ends(s)
    /\ UNCHANGED <<registryFiles, artifacts, metBar, serving, started, registryHistory>>

-----------------------------------------------------------------------------
\* _resolve_active_classifier, when the loop is built: the active version, or
\* the baseline when there is none, or when the file or the model does not load.
StartLoop ==
    /\ \E opens \in BOOLEAN :
        serving' = IF Readable(registry) /\ Actives(registry.doc) /= {} /\ opens
                     THEN CHOOSE v \in Actives(registry.doc) : TRUE ELSE NoVersion
    /\ UNCHANGED <<registryFiles, artifacts, metBar, script, started, registryHistory>>

ClassifierNext ==
    \/ \E s \in Scripts :
        \/ StartScript(s) \/ Export(s) \/ Judge(s) \/ Load(s)
        \/ OpenTemp(s) \/ WriteTemp(s) \/ Replace(s) \/ ReplaceFails(s) \/ ScriptDies(s)
    \/ StartLoop

ClassifierSpec == ClassifierInit /\ [][ClassifierNext]_classifierVars

-----------------------------------------------------------------------------
\* Properties.

\* However scripts overlap and die, what can be read is what every reader accepts:
\* a second active version would shut out all the scripts and the classifier. Only
\* two saves at once may leave a file that cannot be read; no death may.
RegistryLoads ==
    /\ Acceptable(registry.doc)
    /\ registry.state \notin {"none", "whole"} => overlapped

\* The loop never serves a classifier that was not trained to the bar, validated
\* by one script and activated by another; lost updates may take a state away,
\* but never give one.
ServedWasChosen ==
    serving /= NoVersion =>
        /\ serving \in artifacts \cap metBar
        /\ serving \in validatedBy /\ serving \in activatedBy

\* Together: what is read is accepted, unreadable only after two saves at once, and
\* what is served has earned it.
RegistryIsSound == RegistryLoads /\ ServedWasChosen
=============================================================================
