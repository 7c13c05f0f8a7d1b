------------------------------- MODULE Startup -------------------------------
(***************************************************************************)
(* One life of the application process: the profile and the command line   *)
(* (config/settings.py, scripts/run_app.py), the frame source and the      *)
(* analysis loop (pipeline/loop.py), the perception engine and its ONNX    *)
(* sessions (perception/engine.py, runtime.py, detector.py, classifier.py),*)
(* the model registry (models/registry.py), and the application's life,    *)
(* what it reports of itself and how it shuts down (api/app.py).           *)
(*                                                                         *)
(* Any step before serving may refuse; the process then exits.             *)
(***************************************************************************)
EXTENDS Integers, Sequences, FiniteSets, SequencesExt

CONSTANTS
    Machines,      \* [present, broken, weights, locked, camera]: see Init
    Profiles,      \* [kind, owner, provider, wants, classifier, studio]
    Flags,         \* values of --source-kind, NoFlag among them
    NoFlag,
    Registries,    \* contents of models/registry.json: [readable, rows]
    RegistryEntries, \* contents of the classifier registry: [version, loads]
    NoVersion,     \* no classifier
    MaxJobs,       \* bound: proposal jobs ever submitted
    MaxEdits       \* bound: changes of the registries while the process runs

ASSUME StartupAssumption == MaxJobs \in Nat /\ MaxEdits \in Nat /\ NoFlag \in Flags

VARIABLES
    machine,     \* the machine: fixed
    profile,     \* the profile's file: fixed
    flag,        \* the command line: fixed
    registry, entry,  \* the two registries, as they are on disk
    step,        \* how far the process has come
    config,      \* the configuration in force
    source,      \* the frame source built
    sessions,    \* role -> execution provider of its session, or "none"
    identity,    \* what the loop says it runs: [model, classifier]
    loaded,      \* history: the classifier really loaded
    loop,        \* the analysis loop: its [threads, error recorded]
    jobs,        \* proposal jobs waiting or running on the executor
    executor,    \* "none", "open", "closing" or "closed"
    shown,       \* the last answer of /api/runtime
    submitted, edits

startupVars == <<machine, profile, flag, registry, entry, step, config, source, sessions, identity,
                 loaded, loop, jobs, executor, shown, submitted, edits>>

Roles == {"detector", "pose", "classifier"}
None == "none"
Unset == [provider |-> None, classifier |-> NoVersion]

StartupInit ==
    /\ machine \in Machines /\ profile \in Profiles /\ flag \in Flags
    /\ registry \in Registries /\ entry \in RegistryEntries
    /\ step = "load" /\ config = profile
    /\ source = None /\ sessions = [r \in Roles |-> None]
    /\ identity = [model |-> "unknown", classifier |-> NoVersion] /\ loaded = NoVersion
    /\ loop = [threads |-> "new", error |-> FALSE] /\ jobs = 0 /\ executor = None
    /\ shown = Unset /\ submitted = 0 /\ edits = 0

Fixed == UNCHANGED <<machine, profile, flag>>
Disk == UNCHANGED <<registry, entry, edits>>
Proposals == UNCHANGED <<jobs, executor, submitted>>
Reported == UNCHANGED shown

-----------------------------------------------------------------------------
\* load_config and _apply_overrides: the flag is copied over the validated
\* profile, and the copy is not validated again.
Overridden(c) == IF flag = NoFlag THEN c ELSE [c EXCEPT !.kind = flag]

LoadConfig ==
    /\ step = "load"
    /\ config' = Overridden(profile)
    /\ step' = "source"
    /\ UNCHANGED <<source, sessions, identity, loaded, loop>> /\ Fixed /\ Disk /\ Proposals /\ Reported

\* build_camera_source.
SourceFits(c) ==
    /\ c.kind = "browser" => c.owner = "browser"
    /\ c.kind = "device" => c.owner = "backend"
    /\ c.kind \in {"synthetic", "browser", "device"}

BuildSource ==
    /\ step = "source"
    /\ IF SourceFits(config) THEN source' = config.kind /\ step' = "engine"
       ELSE step' = "refused" /\ UNCHANGED source
    /\ UNCHANGED <<config, sessions, identity, loaded, loop>> /\ Fixed /\ Disk /\ Proposals /\ Reported

-----------------------------------------------------------------------------
\* resolve_provider: auto takes the first that this onnxruntime has, and cpu if it
\* has none of them; a named provider is itself or nothing.
Preference == <<"cuda", "directml", "cpu">>

\* The place of the first provider of S in the order of preference, 0 if it has none.
First(S) == SelectInSeq(Preference, LAMBDA p : p \in S)

ResolveProvider(asked) ==
    IF asked = "auto" THEN IF First(machine.present) = 0 THEN "cpu" ELSE Preference[First(machine.present)]
    ELSE IF asked \in machine.present THEN asked ELSE None

\* create_session: it runs on the provider it was asked for, or not at all.
SessionStarts(alias) == alias /= None /\ alias \notin machine.broken

Actual(alias) == IF alias \in machine.broken THEN "cpu" ELSE alias

WeightsThere(c) == c.wants \subseteq machine.weights

\* PerceptionEngine: the provider is resolved once, for both of its sessions.
\* The detector's input size is the one a model may be locked to.
EngineStarts(c) ==
    LET alias == ResolveProvider(c.provider)
    IN  alias /= None /\ SessionStarts(alias) /\ ("detector" \in c.wants => ~machine.locked)

\* build_perception: with weights missing there is no perception; a provider or
\* an input size that does not fit is an error.
BuildPerception ==
    LET built == config.wants /= {} /\ WeightsThere(config)
        alias == ResolveProvider(config.provider)
    IN  /\ step = "engine"
        /\ IF built /\ ~EngineStarts(config) THEN step' = "refused" /\ UNCHANGED sessions
           ELSE /\ step' = "loop"
                /\ sessions' = IF built THEN [r \in Roles |-> IF r \in config.wants THEN Actual(alias) ELSE None]
                               ELSE sessions
        /\ UNCHANGED <<config, source, identity, loaded, loop>> /\ Fixed /\ Disk /\ Proposals /\ Reported

-----------------------------------------------------------------------------
\* ModelRegistry.validate, on rows of [version, active, files, hashes] (hashes:
\* they are SHA-256 and agree with the manifest).
ValidRegistry(r) ==
    /\ r /= << >>
    /\ \A i, j \in DOMAIN r : r[i].version = r[j].version => i = j
    /\ \A i \in DOMAIN r : r[i].files /= {} /\ r[i].hashes
    /\ Cardinality({i \in DOMAIN r : r[i].active}) = 1

ModelRegistryLoads(r) == r.readable /\ ValidRegistry(r.rows)

ActiveVersion(r) == r.rows[CHOOSE i \in DOMAIN r.rows : r.rows[i].active].version

\* resolve_model_version: a registry that does not load names no version.
ModelVersion == IF ModelRegistryLoads(registry) THEN ActiveVersion(registry) ELSE "unknown"

\* _resolve_active_classifier: the version is named once its model is loaded.
NamedVersion(v, starts) == IF starts THEN v ELSE NoVersion

\* AnalysisLoop.__init__: both registries are read once, here. A classifier
\* that cannot be loaded is logged and left out.
BuildLoop ==
    LET alias == ResolveProvider(config.provider)
        active == config.classifier /\ entry.version /= NoVersion
        starts == active /\ entry.loads /\ SessionStarts(alias)
    IN  /\ step = "loop"
        /\ sessions' = [sessions EXCEPT !["classifier"] = IF starts THEN Actual(alias) ELSE None]
        /\ loaded' = IF starts THEN entry.version ELSE NoVersion
        /\ identity' = [model |-> ModelVersion,
                        classifier |-> IF active THEN NamedVersion(entry.version, starts) ELSE NoVersion]
        /\ step' = "app"
        /\ UNCHANGED <<config, source, loop>> /\ Fixed /\ Disk /\ Proposals /\ Reported

\* create_app: the Studio's worker exists only with the Studio.
CreateApp ==
    /\ step = "app"
    /\ executor' = IF config.studio THEN "open" ELSE None
    /\ step' = "start"
    /\ UNCHANGED <<config, source, sessions, identity, loaded, loop, jobs, submitted>>
    /\ Fixed /\ Disk /\ Reported

\* lifespan and AnalysisLoop.start: a device that does not open ends it.
StartServing ==
    /\ step = "start"
    /\ IF source = "device" /\ ~machine.camera THEN step' = "refused" /\ UNCHANGED loop
       ELSE step' = "serving" /\ loop' = [loop EXCEPT !.threads = "running"]
    /\ UNCHANGED <<config, source, sessions, identity, loaded>> /\ Fixed /\ Disk /\ Proposals /\ Reported

-----------------------------------------------------------------------------
\* POST .../batches hands its images to the executor.
SubmitJob ==
    /\ step = "serving" /\ executor = "open" /\ submitted < MaxJobs
    /\ jobs' = jobs + 1 /\ submitted' = submitted + 1
    /\ UNCHANGED <<step, config, source, sessions, identity, loaded, loop, executor>>
    /\ Fixed /\ Disk /\ Reported

FinishJob ==
    /\ jobs > 0 /\ executor \in {"open", "closing"}
    /\ jobs' = jobs - 1
    /\ UNCHANGED <<step, config, source, sessions, identity, loaded, loop, executor, submitted>>
    /\ Fixed /\ Disk /\ Reported

\* Another process changes a registry under the running one.
EditRegistries ==
    /\ step = "serving" /\ edits < MaxEdits
    /\ registry' \in Registries /\ entry' \in RegistryEntries
    /\ <<registry', entry'>> /= <<registry, entry>>
    /\ edits' = edits + 1
    /\ UNCHANGED <<step, config, source, sessions, identity, loaded, loop>> /\ Fixed /\ Proposals /\ Reported

\* Mutant: what the configuration asks for.
AskedProvider == config.provider

\* PerceptionEngine.info and AnalysisLoop.active_provider.
ActiveProvider ==
    IF sessions["detector"] /= None THEN sessions["detector"] ELSE sessions["pose"]

\* GET /api/runtime.
ReportRuntime ==
    /\ step = "serving"
    /\ shown' = [provider |-> ActiveProvider, classifier |-> identity.classifier]
    /\ UNCHANGED <<step, config, source, sessions, identity, loaded, loop>> /\ Fixed /\ Disk /\ Proposals

-----------------------------------------------------------------------------
\* The lifespan's end: the loop, the manifest, then the executor. stop() waits for
\* each thread only so long; a thread that has not ended by then runs on, and that
\* is recorded as the loop's error, as is a source that fails to stop.
StopLoop ==
    /\ step = "serving" /\ step' = "manifest"
    /\ \E threads \in {"stopped", "overdue"}, error \in BOOLEAN :
          /\ threads = "overdue" => error
          /\ loop' = [threads |-> threads, error |-> error]
    /\ UNCHANGED <<config, source, sessions, identity, loaded>> /\ Fixed /\ Disk /\ Proposals /\ Reported

\* A thread that outlasted its join ends on its own, whenever what held it lets go.
OverdueThreadEnds ==
    /\ loop.threads = "overdue"
    /\ loop' = [loop EXCEPT !.threads = "stopped"]
    /\ UNCHANGED <<step, config, source, sessions, identity, loaded>> /\ Fixed /\ Disk /\ Proposals /\ Reported

\* _write_session_manifest, which says what /api/runtime says, and
\* executor.shutdown, which takes no more.
CloseExecutor ==
    /\ step = "manifest"
    /\ shown' = [provider |-> ActiveProvider, classifier |-> identity.classifier]
    /\ executor' = IF executor = "open" THEN "closing" ELSE executor
    /\ step' = "draining"
    /\ UNCHANGED <<config, source, sessions, identity, loaded, loop, jobs, submitted>> /\ Fixed /\ Disk

\* wait=True: every job that was handed over has run.
Drained == jobs = 0

LifespanEnds ==
    /\ step = "draining" /\ Drained
    /\ executor' = IF executor = "closing" THEN "closed" ELSE executor
    /\ step' = "ended"
    /\ UNCHANGED <<config, source, sessions, identity, loaded, loop, jobs, submitted>>
    /\ Fixed /\ Disk /\ Reported

\* The loop's threads are no daemons: the process waits for the last of them.
ProcessEnds ==
    /\ step = "ended" /\ loop.threads = "stopped"
    /\ step' = "stopped"
    /\ UNCHANGED <<config, source, sessions, identity, loaded, loop>> /\ Fixed /\ Disk /\ Proposals /\ Reported

StartupNext ==
    \/ LoadConfig \/ BuildSource \/ BuildPerception \/ BuildLoop \/ CreateApp \/ StartServing
    \/ SubmitJob \/ FinishJob \/ EditRegistries \/ ReportRuntime
    \/ StopLoop \/ OverdueThreadEnds \/ CloseExecutor \/ LifespanEnds \/ ProcessEnds

StartupSpec == StartupInit /\ [][StartupNext]_startupVars

-----------------------------------------------------------------------------
(***************************************************************************)
(* The configuration is checked in layers (the profile as it loads, the    *)
(* flag nowhere, the pair of kind and owner when the source is built), and *)
(* providers are resolved twice, by the engine and by the classifier.      *)
(* Still a process that serves takes its frames from the side that owns    *)
(* the camera, and every session it holds runs on the one provider that    *)
(* was named, or under auto on the best one this onnxruntime has: never a  *)
(* silent fallback.                                                        *)
(***************************************************************************)
Serving == step \in {"serving", "manifest", "draining", "ended"}

RunsAsAsked ==
    Serving =>
        /\ source = "browser" => config.owner = "browser"
        /\ source = "device" => config.owner = "backend"
        /\ \A r \in Roles : sessions[r] /= None =>
              /\ config.provider /= "auto" => sessions[r] = config.provider
              /\ config.provider = "auto" => \A p \in machine.present :
                    First({p}) # 0 => First({sessions[r]}) <= First({p})
              /\ sessions[r] \notin machine.broken

(***************************************************************************)
(* What /api/runtime and the session's manifest say is of the sessions     *)
(* that run, whatever the registries on disk have become since: a provider *)
(* that a detector or a pose session is on, and the classifier that was    *)
(* loaded, or none.                                                        *)
(***************************************************************************)
ReportIsOfWhatRuns ==
    shown /= Unset =>
        /\ shown.classifier = loaded
        /\ shown.provider \in {sessions["detector"], sessions["pose"]}
        /\ shown.provider = None => sessions["detector"] = None /\ sessions["pose"] = None

(***************************************************************************)
(* A thread of the loop may outlast the time stop() gives it, and then the *)
(* manifest is written and the jobs are drained beside it; but never in    *)
(* silence, its error is on record from then on. When the lifespan has     *)
(* ended every proposal job that was accepted has been run rather than     *)
(* dropped, and when the process has ended none of its threads is left.    *)
(***************************************************************************)
ThreadsLeft == loop.threads \in {"running", "overdue"}

NothingOutlivesShutdown ==
    /\ ThreadsLeft => step \in {"serving", "manifest", "draining", "ended"}
    /\ ThreadsLeft /\ step # "serving" => loop.error
    /\ step \in {"ended", "stopped"} => jobs = 0 /\ executor \in {None, "closed"}

\* Together: from the profile to the last thread, the process is what was asked for
\* and what it says it is.
ServesAsAsked == RunsAsAsked /\ ReportIsOfWhatRuns /\ NothingOutlivesShutdown
==============================================================================
