# PredictiveSense in TLA+

TLA+ models of PredictiveSense, the TLC configurations that check them on small
instances, and TLAPS proofs that hold for every value of the constants. Paths
below are relative to `src/predictivesense/` unless they begin with `scripts/`.
`PROJECT.json` is the index: the components, the runs with their properties, the
lines each definition models, the hazards at the lines where they bite, and the
disagreements between code and documentation that the runs show.

Contents: 1 the system, 2 the modules, 3 how code became actions, 4 the runs,
5 what they show, 6 fairness, 7 proofs, 8 what is not modelled, 9 what remains.

## 1. The system

One Python process: a FastAPI application on one asyncio event loop, a producer
and a consumer thread for live analysis, a thread pool for decoding, and one
background worker for bulk uploads. Browsers talk to it over two WebSockets and
HTTP; their pages are asynchronous programs of their own. Around the process are
scripts that label, import, build, train, validate and activate; they meet the
process, and each other, in files.

| Part | State | Operations | Hard because |
|---|---|---|---|
| Live frame path: `camera/browser.py` (slot), `camera/mailbox.py`, `pipeline/loop.py`, `scheduler.py` | two newest-wins slots, the frame in the producer's hands, stop and pause events, stall deadline, counters in three places | submit, read, put, get, one iteration; start, pause, resume, stall, stop | three threads; a wake-up, a pause or a stop may come at any point; counters are read apart |
| Startup and shutdown: `config/settings.py`, `api/app.py`, `perception/runtime.py`, `models/registry.py`, `scripts/run_app.py` | profile, flag, registries, sessions, executor | load, build source, engine and loop, serve, report, shut down | checks in several layers; registries change while the process runs |
| Broadcast: `api/broadcast.py`, `/ws/state` | newest snapshot, waiters, counts; per client an event and what it was sent | publish; register, wait, send, time out, leave | wake-ups cross from a thread to the event loop; tasks end in many ways |
| Ingest: `api/ingest.py`, `camera/browser.py` (sessions) | sockets, clock offset, session numbering, counts | admit, handshake, receive, decode on a thread, count | sockets overlap and share one clock and one numbering |
| Studio session: `api/studio.py`, `static/studio/studio.js` | active, token, pause; the page's token | enter, leave, status | enter and leave travel on separate connections and may be reordered or lost; a page may go before it can leave |
| Bulk upload: `api/object_batches.py`, `objects/batches.py` | staging directory, manifest, lock, worker | create, propose, patch, save, discard, clean up | the worker rewrites what the reviewer edits; the clean-up takes no lock; errors and crashes |
| Objects and samples: `objects/registry.py`, `objects/samples.py`, `api/objects.py` | profiles, folders, manifests, images, counts | create, upload, patch, delete | an upload awaits its body; several files per change; slugs are reused |
| Tracker: `tracking/` | tracks, ghosts, ids, counters; class votes and poses | match, miss, expire, re-associate, spawn, bind poses, show | budgets in frames and in milliseconds; ids that come back; poses that are used again |
| Perception engine, recorded analysis: `perception/engine.py`, `pipeline/recorded.py`, `camera/file_source.py` | pose cadence, reused poses | infer, cadence, gate, reuse | one engine with several users |
| Recognition: `perception/policy.py`, `vocabulary.py`, `postprocess.py`, `tracking/association.py`, `eval/matching.py`, `static/features/policy.js` | none: one frame at a time | tiers, suppression, policy, drawn label, pairing, tallies | order of rules; written twice, in Python and JavaScript |
| Camera of the server: `camera/device.py` | capture object, backoff, lock | start, read, reopen, stop | probes under the lock against a stop |
| Annotations: `dataset/coco_store.py`, `api/labels.py`, `static/label/label.js` | file and backup; the page's frame and boxes | load, save, seed, add frames; keys and requests | torn files; overlapping requests of one page |
| Splits: `dataset/splits.py`, `training/splits.py`, `dataset/detection_splits.py` | split file with a hash | build, load, edit the data | rounding; data that change after the build |
| Evaluation: `scripts/build_splits.py`, `fit_thresholds.py`, `eval_detection.py`, `_eval_common.py` | annotations, split file, thresholds in the profile, log of test openings, reports | split, fit, paste, open, run, report | scripts at different times, any of which may fail half-way, over labels that go on changing |
| Import and build: `scripts/import_external_dataset.py`, `scripts/build_detection_dataset.py`, `dataset/detection_convert.py`, `training/dataset.py` | manifests, caches, built set | import in two passes, collect, check, train | leakage into evaluation; hard negatives |
| Classifier registry: `training/classifier_registry.py` | one JSON file, one temporary file for all scripts | register, validate, activate; read at start | no lock between scripts |
| Browser capture: `static/features/`, `static/analysis-worker.js` | streams, requests, worker, recorder, socket | open, switch, release, record, sample, encode, send | every await lets the user and the devices go on |
| Studio page: `static/studio/studio.js`, `studio-state.js`, `batch.js` | state machine, upload queue, edits, reviewer | select, shoot, save, patch, leave; review a batch | state read before an await and used after it |

How they meet. Ingest handlers put frames into BrowserSource; the producer moves
them to the mailbox; the consumer takes them, runs the engine and the tracker
and publishes a snapshot; publish wakes the client tasks through
`call_soon_threadsafe`. Entering the Studio pauses the loop, closes `/ws/ingest`
to newcomers and sweeps stale batches; its batches use the engine and end as
samples of the object store. Samples and imported pictures become crops and
detection sets, these become classifiers, the registry names the one the loop
loads at its next start. The labelling page and `scripts/build_eval_frames.py`
write the annotations that splits and evaluation read.

## 2. The modules

| Module | Models | State and actions against the code |
|---|---|---|
| `NewestWins` | what the live path promises | abstract: offered, waiting, delivered; no thread, slot or lock |
| `FramePipeline` | the live path | one action per section under a lock or between two points of interference; refines `NewestWins` |
| `Broadcast` | Broadcaster, serve_state_client | publish as its steps; a task is its place between awaits |
| `StudioLifecycle` | enter, leave and the pages that send them | a handler is a step; requests are a bag or a queue, as `Orders` says; a page sends a leave only once its enter was answered or has failed |
| `IngestSockets` | `/ws/ingest` handlers | a handler from await to await; the Studio is a parameter |
| `StudioIngest` | both together | `active` and the session number are shared |
| `ReviewedBatch` | what a batch promises | abstract: the notes of the images that wait, what is taken, how the batch ended; no manifest, lock or thread |
| `BatchStaging` | one batch | lock explicit; the worker's load and its write are two steps; upload, worker and save may each end in an error; refines `ReviewedBatch` |
| `ObjectStore` | profiles, folders, samples | every file operation is a step; a fault may come before each |
| `Tracker` | tracks, ghosts, counters | association is a choice; an update is advance, meet, expire, spawn |
| `PerceptionEngine` | cadence, gate, reuse; live loop and recorded driver | every read and write of the reuse state is a step |
| `TrackOutput` | class votes and bound poses of the tracks | which tracks live and are met is a choice; an update is observe, one step per pose, show |
| `Recognition` | rules on one frame | the loops of suppression, association and matching are steps: a box, a pair or a prediction each; what comes out is compared with what it should be |
| `Startup` | one life of the process | each construction step may refuse; threads may outlast their join |
| `DeviceSource` | the server's camera | reader and control thread, lock, two back ends, ticks of backoff |
| `AnnotationStore` | what the annotation file promises | abstract: what is stored, what is being saved; no file, backup or crash |
| `CocoStore`, `LabelPage` | annotation file with backup; the page's keys and requests | a save is copy, truncate, write; `LabelPage` extends `CocoStore`, drives its route, and refines `AnnotationStore` |
| `DatasetSplits` | the three builders and their readers | one stratum per step, in any order of its groups |
| `DatasetImport` | import, build, training selection | one picture per step |
| `Evaluation` | splitting, fitting and measuring on labelled frames | a script's read of the files and its write are steps of their own, the log of test openings is emptied before it is written; between them labels change and scripts fail |
| `ClassifierRegistry` | three scripts and the loop | a load, and a save in three steps: open the temporary file, write it, move it into place |
| `AnalysisWorker` | the Web Worker's loop | a frame, an encode's end, a socket event are steps |
| `BrowserCapture` | camera requests, worker, recorder, mode | code between two awaits is a step |
| `StudioPage`, `BatchReviewer` | the Studio page and its batch panel | code between two awaits is a step |
| `...Proofs` | TLAPS proofs, of one module (`FramePipelineProofs`, `LabelPageProofs`, ...) or of several (`BrowserProofs`, `PerceptionProofs`, `StoresProofs`) | section 7 |
| `MC...` | values for TLC, and the three compositions below | |

`MCPerception`, `MCStores` and `MCBrowser` put components that share no state
into one run: a variable `part` says which one a behaviour is of, the others
rest in an initial state. The reachable states are the sum, not the product, of
the components'. Components that do interact are composed for real:
`StudioIngest`, and `LabelPage` over `CocoStore`.

## 3. How code became actions

A section under one lock is one action. In the threads, the code between two
points where another thread can interfere is one action, so a loop head that
looks at stop, then pause, then stall is three. On the event loop, and in the
pages, a handler is one action from one await to the next. Where a crash or an
error of the file system can leave something half done (`ObjectStore`,
`CocoStore`, `BatchStaging`, `ClassifierRegistry`), every file operation is one
action. A JSON file replaced by `os.replace` changes at once where one process
alone writes its temporary file. The scripts of the classifier registry share
theirs, so there opening, writing and moving are steps, and a file that a script
has open goes with its name. The annotation file and the log of test openings are
rewritten in place and can be torn.

Data are abstracted to what the properties tell apart. A frame is its number; a
box is where it came from ("proposed", "human", drawn over which image); a score
is a small integer; whether two boxes overlap or two pictures look alike is a
relation; a picture is what it shows. Perception, association, quality and the
network are choices: any detection may meet any track, any request may be
answered late, any frame may be too old.

History variables (`taken`, `analysed`, `received`, `commits`, `reviewed`,
`sent`, `admittedIn`, `recorded`, `late`, `taught`, `disowned`, `overlapped`, `cutLogs`, ...) record what properties
speak about and steer no step, but for `left` in `BatchStaging`, which keeps a
batch that has gone from being created again.

Users. Several pages are right for a user who waits for each answer and wrong
for one who does not. `hasty`, `hurried`, `rushed`, `overlap` and `tidy` are
chosen at the start, so a run covers the user who acts at any moment too, and a
property says which user it is about. Section 5 lists what the others break.

Next to many operators stands a variant marked "Mutant": the code with a
plausible bug. `PROJECT.json` pairs one with every property of a passing run:
with the variant in place TLC finds the property violated.

## 4. The runs

Every run finishes; `-config` names the file, the module is the one in the second
column. Deadlock is not checked: every one of these systems may come to rest (a
loop that has stopped, a page that was closed, bounds that are used up).

| Run | Module and configuration | Instance | Checked |
|---|---|---|---|
| pipeline | `MCFramePipeline` | 4 frames, both schedulers, age guard on (each frame is fresh or too old) | `CountersTrue`, `InFlightAtMostThree`, `PauseOvershootsOnce`, `CleanStop`, `NoLostWakeup`, `ImplementsNewestWins`, `NewestArrives`, `StopEnds` |
| broadcast | `MCBroadcast` | 2 clients, 3 snapshots, with and without the fallback timeout | `NoMissedWake`, `OnlyNews`, `Balanced`, `LastValueArrives` |
| batch | `MCBatchStaging` | 2 images, 1 error or crash anywhere | `EditsKept`, `CommitIsFinal`, `ProcessingEnds`, `ImplementsReviewedBatch` |
| studio_ingest | `MCStudioIngest` | 2 pages, 2 connections, 2 frames; and 3 pages alone; 1 enter that fails or leave that is lost; requests in order or not, sockets overlapping or not, stop on enter or not | `PauseFollowsSession`, `OwnSessionSafe`, `SocketsAreSound`, `MonitoringComesBack` |
| perception | `MCPerception` | see below | `IdentityIsOneLife`, `TracksInTime`, `TracksSayWhatWasSeen`, `ReuseIsSound`, `FramesAreReadRight`, `ServesAsAsked` |
| stores | `MCStores` | see below | `NothingDestroyed`, `ProfilesAreTrue`, `LabelsAreTrue`, `RegistryIsSound`, `SplitsAreSound`, `DataSetsAreClean`, `FiguresAreHonest`, `ImplementsAnnotationStore` |
| browser | `MCBrowser` | see below | `CameraReleased`, `WireIsTrue`, `CaptureIsSound`, `PageKeepsWork`, `ConfirmedOnItsImage`, `CameraComesBack` |
| batch_drawn_box | `MCBatchStaging`, `MCBatchDrawnBox.cfg` | 2 images, no fault | `DrawnBoxKept` is violated |
| studio_reload | `MCStudio`, `MCStudioReload.cfg` | 2 pages, requests out of order | `NothingDetectsWhileOpen` is violated |
| label_wrong_frame | `MCStores`, `MCLabelWrongFrame.cfg` | 2 images, 2 requests at a time | `BoxesOnTheirFrame` is violated |
| build_near_eval | `MCStores`, `MCBuildNearEval.cfg` | 3 downloaded pictures | `EvalIsKeptOut` is violated |
| reviewer_batches | `BatchReviewer`, `MCReviewerBatches.cfg` | 2 batches of 2 images, 4 requests | `ConfirmedWasSeen` is violated |

Bounds, and why they are enough.

- pipeline, `MaxFrames = 4`: one frame in each place that holds one (buffer,
  producer, mailbox, consumer), so each can be overwritten while all are full.
- broadcast: two clients are enough for one to be dropped while another is
  woken; three snapshots for one to be skipped between two that are sent.
- batch: with two images one is proposed while the other is reviewed, and one
  is committed when the save of the other fails. One fault (`MaxCuts`), an error
  of upload, worker or save or a crash, shows every place where a fault leaves
  something half done; the theorems hold for any number of them.
- studio_ingest: two pages are the old and the new one of a reload; two
  connections are the socket that was open before and the one that overlaps it.
  A third page, while the sockets rest, is needed for the token check of a leave
  to decide: the late leave of a page whose session another page has ended comes
  while the third has a session of its own. `MaxLosses` is 1: a lost leave or an
  enter whose fetch fails; pages that go before their answer are not counted.
- perception. Tracker: `NInit` 3; budgets of 2 frames, 3 ms and 1 frame at the
  border; `MaxTracks` 2; re-association windows of 2 and 4 ms; 5 updates with
  up to 2 strong and 1 weak detection: enough for a track to be confirmed, lost,
  become a ghost, come back and be lost again, with a second track beside it.
  Engine: clips of 3 frames, three cadences, live and script, reuse up to
  120 ms at 10 frames a second, so one frame may reuse and the next may not.
  What is said of a track: 2 tracks, 2 classes, a memory of 2 votes and 3
  observations, so one is forgotten; 2 poses a frame, a limit of 2 ms within 3.
  Recognition: 2 detections kept of 3 boxes, 3 classes, 2 scored boxes, from
  every input. Startup: the profiles, machines and registries of `MCPerception`, one job
  still queued at shutdown, one edit of a registry while the process runs.
- stores. Objects: 1 upload whose body is being read while the other handlers
  run (batch saves among them), 2 lives of one name, 2 samples, 1 fault; the
  theorems of `StoresProofs` hold for any number of uploads. Annotations: 2
  frames, 2 crashes (the second while the store is only in its backup), 3 key
  presses, one request at a time; the violation run has two. Registry: 2
  versions, 2 scripts at once, which may be in their saves together, 5 in all. Splits: 3 images, 2 classes, the
  shares of the code (70/15, 50). Imports: 9 downloads of 3 pictures with 2
  looks, 2 added, 2 runs over them. Evaluation: 4 frames of 3 sessions, two
  ways to deal them, one change of the labels, 4 scripts: split, fit, measure,
  and one that is reopened, repeated or fails.
- browser. Camera of the server: backoff from 1 to 3 ticks, 4 calls, 4 times the
  camera comes or goes. Worker: 8 frames, an interval of 2, a ceiling of 1.
  Capture: 4 requests, 2 clips of 2 chunks. Page: 2 objects, 2 images, 2 calls.
  Reviewer: 2 batches of 2 images, 5 requests, no refusal.

## 5. What they show

**The live path** is a newest-wins channel (`ImplementsNewestWins` is
`NewestWins!Spec` under a refinement mapping): what is analysed is always newer
than what was analysed before. `CountersTrue` says that at every moment the
counters in the three places account for every frame that came in, and that
frames_analysed, which the code derives from two others, is the number of frames
perception ran on. The frames in flight of a snapshot are never more than three;
a pause is overshot by one snapshot at most; a stop that reports no error has
ended both threads; and no put is slept through.

**Broadcast**: a client that waits while something newer than what it was sent
exists has a wake-up coming, which is why `LastValueArrives` holds without the
period timeout; nothing is sent twice; each connect has its disconnect.

**Batches**: the box a reviewer set after its proposal, and any change of role,
survive the worker's writes of the whole manifest; an image is committed once
(once more for each save that was cut short), and a batch that has ended does
not come back. A batch leaves "processing" if its worker was started and was not
lost (`ProcessingEnds`). It does not if the upload fails after the manifest was
written (`api/object_batches.py:207-220`), so that there is no worker, or if the
worker meets an error other than BatchStoreError, or a BatchStoreError at which
it returns (250, 310, 316): then only a save, a discard or the clean-up ends it. `ImplementsReviewedBatch` (`ReviewedBatch!Spec` under a refinement
mapping) says it of every step: although every writer replaces the whole
manifest, a step changes the note of one image; a save takes out what it
committed and nothing else, so an image it refused stays; and only a batch that
the clean-up removed under its worker comes back, with the notes it had, and is
never committed.

**Studio and ingest**: pause and session never come apart, and with requests in
order the loop is paused while a page shows the Studio. In any order, the session
of a page that is alone with its token is not ended by another page's late leave,
as long as that page knew its own token; the null token of a page whose enter
failed ends any session. Monitoring comes back when the last page has gone, if
every page that went sent a leave and none was lost. A page that goes before its
enter is answered sends none (`static/studio/studio.js:920-923`: the listeners
are added after it), and then monitoring stays paused until another page comes
and leaves. A frame
that arrives while the Studio is open came over a connection admitted before;
the handlers' and the source's counts agree; frames carry the clock and numbering
of their own client when sockets do not overlap (all three: `SocketsAreSound`).

**Perception**: an id is one life, confirmed by consecutive hits; coasting and
ghosts keep their budgets (`IdentityIsOneLife`, `TracksInTime`). Reused poses
are the stream's newest and no older than the limit (`ReuseIsSound`). What is
drawn under its class name has passed the rules of backend and viewer, a box is
suppressed only for a better one, and both greedy pairings are stable: nobody is
left out for a worse partner; and the tallies of an evaluated image add up
(`FramesAreReadRight`). A track's class has most of the votes that count, the latest
among equals, and its pose is as old as is said: from its measurement, however
often the engine has handed it out since (`TracksSayWhatWasSeen`). The process
runs on the source, providers and classifier it was asked for and reports those.
At its end every job has run; a thread that outlasts its join runs on until what
held it lets go, the loop has recorded that as its error, and the process waits
for it (`ServesAsAsked`).

**Stores**: no sample a manifest has named is lost (`NothingDestroyed`); a
profile shows images that exist, counts that settle, and no samples of an
earlier object of the same name (`ProfilesAreTrue`); labels that were
acknowledged can be read again, across a crash, as seeded or drawn (the last for
a developer who waits; `LabelsAreTrue`). Boxes of the detector stand as a
person's only where the developer has cleared the box "detector-seeded" over them,
which the page allows at any moment (`static/label/label.js:72-75`). As long as the page and the script do
not overlap, the file with its backup is one store that a save replaces as a whole
or not at all, labelling one frame or adding frames (`ImplementsAnnotationStore`
is `AnnotationStore!Spec` under a refinement mapping). A classifier that is served
was validated and activated, on disk, and met the bar, and whatever of the
registry can be read is accepted (`RegistryIsSound`). Only two saves at once can
leave it unreadable, since they share one temporary file
(`training/classifier_registry.py:120-122`): one script moves the file while the
other has just emptied it, or is writing it. Then every script refuses and the
loop starts on the baseline, until the file is repaired by hand or a script that
was under way still writes it. No death of a script does that.
Splits keep groups together and lose no image (`SplitsAreSound`; the loaders of
crop and detection split files are called by tests only, and training deals its
split in memory, `training/train.py:150`); an import
holds no duplicates or contaminated negatives, and a training run is taught no
wrong name (`DataSetsAreClean`). A report is of whole sessions of all that was
labelled; test is run once, unless reopened, and never without a line in its log;
each failure in the middle of writing that log, which is emptied first
(`scripts/eval_detection.py:72`), may lose its lines and let test be run once
more; and no figure on test was got with thresholds fitted on its own sessions, as long
as both go back to one split (`FiguresAreHonest`).

**Browser**: after stop() nothing reopens the server's camera, and a camera that
returns is found again; a header on the wire belongs to its image and the
socket's queue is bounded; one camera is seen, analysed and recorded; the Studio
page files an upload under its own object and keeps unsaved work pending; a
confirmed box was drawn on its own image (for a user who closes the panel
between batches).

### Disagreements between code and documentation

Five runs end in a counterexample, and one that passes shows a statement to be
wrong (6); each quotes the line it refutes in `PROJECT.json`.

1. `batch_drawn_box`: the worker overwrites a drawn box with its proposal
   (`api/object_batches.py:308`), which the lock's comment (52-53) excludes.
2. `studio_reload`: a reload's late leave ends the session its new page was
   given (`api/studio.py:131`); the loop runs under an open Studio.
3. `label_wrong_frame`: two quick keys store one frame's boxes under another
   (`api/static/label/label.js:124`).
4. `build_near_eval`: imported pictures are not compared with the evaluation
   frames by likeness when a set is built (`dataset/detection_splits.py:339`).
5. `reviewer_batches`: a second upload while an edit is unsaved stores a box as
   confirmed that nobody saw (`api/static/studio/batch.js:123`).
6. `perception`, `TracksInTime`: the comment at the re-association window says it
   matters for a track that fully expired, "e.g. via border exit", and came back
   (`config/settings.py:481-484`). A track that leaves over the border leaves no
   ghost (`tracking/tracker.py:274`) and cannot be re-associated; with the window
   as shipped only tracks that ran out of time can (`OnlyTimeLeavesGhosts`).

Further statements of the documentation do not hold either. They are
definitions of the modules but have no run of their own; to see the
counterexample, put the name under `INVARIANT` of the run's configuration.

| Definition | Run | What the text says |
|---|---|---|
| `InFlightTransient` | pipeline | frames in flight are a "transient 0..3" (`pipeline/loop.py:651-653`); read apart, the counters can give less than 0 |
| `EveryImageProposed` | batch | one image that fails does not block the others (`api/object_batches.py:310`); an item saved before its turn is missing at its write, and the worker returns and leaves the rest without proposals |
| `FramesStayOut` | studio_ingest | no frame reaches the pipeline while the Studio is open (`api/ingest.py:60`); a socket admitted before still delivers |
| `TracksBounded` | perception | tracks are bounded by `max_tracks` (`tracking/tracker.py:303`); the bound is looked at for new tracks only, a ghost that comes back is beyond it |
| `SuppressedOnlyAsImplausible` | perception | with the domain toggle off, only the domain rule is lifted (`static/features/policy.js:13`); rules after it are hidden by it |
| `NearDuplicatesTogether`, `TrainIsEnough` | stores | near-duplicates never straddle a split, and each class has its minimum in train (`dataset/detection_splits.py:12-17`, 204-207) |
| `TestIsUnseen` | stores | fitting on test is refused (`scripts/fit_thresholds.py:14`); thresholds fitted on val of one split are measured on test of the next, which may hold the same sessions |
| `OpeningsWereLooks` | stores | test is opened once, and every opening logged (`scripts/eval_detection.py:54`); the line is written before splits and labels are looked at, so a refusal spends the opening |
| `CameraOffInRecorded` | browser | leaving Real-time releases the device (`features/camera-capture.js:92`); an unplugged camera is replaced in any mode |
| `LeavingWarns` | browser | leaving warns of every staged sample (`studio/studio.js:19-20`) |
| `RecordedRepeats` | an instance of `PerceptionEngine` alone | two runs over a file give the same lines (`pipeline/recorded.py`); so it is for the script. With `Modes = {"api"}`, where a request shares the live loop's engine, a clip of two frames at 0 and 40 ms, each with a person and poses, and `MaxLive = 2` are enough for a counterexample; in the perception run the other components make it a long search |

Seen while reading, and not stated as properties of a run: the labelling page's
hint gives the n key as "save+next" and it saves nothing; the recorded source's
time stamps can go back where it falls back to the frame rate; a double press of
the Studio's save sends the first image twice and skips the second; a changed
role alone is not pending, and alone is sent as confirmed by `batch.js`, whose
poll also writes after its await without looking whether the panel is open; a
recording restarted before its `onstop` mixes the chunks of both; a mode change
while the camera starts up is lost; the analysis worker does not reconnect; the
session key of an imported picture contains the object's id, so one picture
imported for two objects counts as two sessions; the detection build saves its store before the
splits; the model registry never hashes the file it names; environment
settings do not override keys that the YAML file has, although README.md:58-59
says they do
(`config/settings.py:689-690`); overrides on the command line are copied into
the settings without validation (`scripts/run_app.py`); a provider `auto` with a
broken CUDA raises; `/api/runtime` gives the registry's active version whether
or not it was loaded; crops for training are not compared with `data/eval`;
with time stamps that stand still a pose can be called fresh in an update that
bound nothing; a pose that is used again can be bound to a second track, and then
stands on both; of two poses for one track the last is kept.

## 6. Fairness

Liveness is checked under what the program's scheduling gives and nothing else.

- `FramePipeline`: weak fairness of the producer's step, the consumer's step, a
  stop that has begun, and the expiry of a stall: two threads of the operating
  system, a caller of `join`, and a clock. None for frames, pause or the request
  to stop.
- `Broadcast`: weak fairness of the scheduled wake and strong fairness of a
  task's step and of a callback: the event loop's queue is first in first out,
  so what is ready again and again is run. None for publishing.
- `BatchStaging`: strong fairness of the worker (it competes for the lock with
  handlers that come and go), weak fairness of the handlers' own next step. No
  fairness for the reviewer. `ProcessingEnds` speaks of runs in which the worker was
  not lost, to a failed upload, an error it does not catch, or a crash.
- `StudioLifecycle` and `StudioIngest`: weak fairness of handling a request that
  has arrived. A lost leave stays lost, and `MonitoringComesBack` speaks of runs in
  which every page that went sent one that arrived, with requests in order.
- `DeviceSource` (and the browser run): weak fairness of the reading thread and
  of time.
- All other modules are checked for safety only: their actors are people,
  devices, scripts or requests, which may stop at any time.

## 7. The proofs

Eight modules of proofs; `tlapm` checks them to the last leaf. They assume the
named assumptions on the constants (finiteness and natural numbers), which
TLC evaluates in the runs, and the standard facts of the proof library. A
property of a run that a theorem states holds for every number of frames,
clients, pages, images, calls.

None of the properties is inductive as it stands. Each module defines the
invariant that is, in named parts, proves that the initial states satisfy it and
that each action keeps it (one lemma or step per action), and derives the
properties from it.

| Module (assumptions) | Theorems | The strengthening, and why it is needed |
|---|---|---|
| `FramePipelineProofs` (`BoundAssumption`, `ConfigAssumption`) | `TypeCorrect`, `InductiveInvariant`, `CountersReconcile`, `InFlightBounded`, `WakeupNotLost`, `PauseTakesHold`, `StopIsClean`, `AnalysedCounterIsTrue`, `CountersAreTrue`, `NewestWinsRefinement` | `InOrder`: places nearer to the result hold older frames, without which newest-wins could not be shown. `InHand`: the producer holds a frame exactly between its read and its put. `Balance`: the sum of the counters, with the one frame a stopped source makes the producer give up. `InfoFresh`: what was read of the first counters is at most three ahead of what will be subtracted. `Lifecycle`, `Joined`: which threads run in which phase of start and stop. `Overshoot`: where the consumer is once a snapshot came after the pause |
| `BroadcastProofs` (`BroadcastAssumption`) | `NoWakeIsMissed`, `NewsOnly`, `BookkeepingBalances`, `BroadcastTypes` | `Noted`: what a task noted as sent is what its client received, and nothing is ahead of the newest. `Registered`: who is in the set of waiters at which place of its code. `WakeOwed`: a client that is behind has its event set, or a callback scheduled, or is still in publish's copy of the waiters, also while it sends or sleeps. `Counted`: counts against the tasks, by cardinality |
| `StudioIngestProofs` (the assumptions of both parts) | `PauseAndSession`, `OwnSessionIsSafe`, `SocketsStaySound` (from `CountsAlwaysAgree`, `OldSocketsOnly`, `SessionsAreOwn`), `StudioIngestTypes` | `LeavesAreTrue`: a leave on its way carries the token its page still holds. `EndedByLeaver`: the session of a page that was let in runs, or a page has left that could end it. `EnteringHasNone`: a page has no token before its enter is answered. `OneShown`, `Queued`: where requests keep their order, the enter of the page that is shown is the last of them. For the sockets `WithinBound`, `AdmittedEarlier`, `OwnNumbering` |
| `BatchStagingProofs` (`BatchAssumption`) | `EditsAreKept`, `CommitsAreFinal`, `BatchIsReviewed` | `Locking` and `KeptInHands`: what the worker has loaded still keeps every edit, because it holds the lock from load to save. `Fresh`: a batch before its proposals. `OnceEach`: how often an image can have been committed at each point of a save. `Ended`: who ended a batch found nobody about to write it. A lemma by well-founded induction shows that the first of a set of images exists. `Consistent`, for the refinement: a manifest in hand is the one on disk, or of a batch cleaned up meanwhile, whose images have gone; a manifest always has images |
| `BrowserProofs`: `DeviceSource` | `CameraStaysReleased` | `OneHolder`: the lock. `StopReaches`: the event is set from the call of stop() to the next start, and once stop() has returned the reader is nowhere a camera is found |
| `BrowserProofs`: `AnalysisWorker` (`WorkerAssumption`) | `WireStaysTrue` | `OneEncode`: one image at most is being encoded, and the time kept is that image's. `WorkerInOrder`: what was sent is older than what is being encoded. `Numbered`: sequence numbers count the messages |
| `BrowserProofs`: `BrowserCapture` (`CaptureAssumption`) | `CaptureStaysSound` | `Asleep`: nothing is asked for before the page starts. `OneRequest`, `OneClip`: for a user who waits, one request at most, with no stream on while it is out, and one clip whose data are still to come |
| `BrowserProofs`: `StudioPage` (`PageAssumption`) | `StudioPageKeepsWork` | `PageInv`, for a user who waits: `StateFits`: the stage of the capture pane is that of the state machine. `QueueFits`: the images in the queue were chosen for the page's object, are not saved, and stand there once. `CallsFit`: one request at most is under way, and it is about what the page shows |
| `BrowserProofs`: `BatchReviewer` (`ReviewerAssumption`) | `BoxesAreConfirmedOnTheirImage` | `ReviewerInv`, for a user who waits: `StagedSound`: a batch that the panel shows still has images. `PanelSound`: the panel's items are the batch's in their order, and an unsaved edit is of the open image, which is on the screen. `CallsSound`: one thing is asked of the server at a time besides the poll, and an edit is of an image that was shown and is still there |
| `StoresProofs`: `ClassifierRegistry` (`ClassifierAssumption`) | `RegistryStaysSound` | `RegistryEarned`: each flag in the registry, and in the temporary file, was given by a script that found it earned. `ScriptsEarn`: so it is in the copy each script holds, up to what the script is about to give. `OneSaver`: as long as no two saves overlapped, one script at most has the temporary file open, and what it moves into place is whole |
| `StoresProofs`: `ObjectStore` (`ObjectsAssumption`) | `SamplesAreNeverLost`, `ProfilesStayTrue` | `JobIsPlaced`: what a handler has behind it at each of its steps. `OneFolderPerSample`: a sample is listed in one folder, through moves and reuse of its slug. `CountsSettleOrWait`: without a fault, counts that are off have a handler that will set them |
| `StoresProofs`: `DatasetImport` (`ImportAssumption`) | `DataSetsStayClean` | `PassesApart`: an image is examined once, by the pass that looks for it. `KeptApart`: what an import keeps is told apart from each other and from the evaluation frames it read. `CropsKept`, `ManifestsTrue`: a positive crop, in hand or in a manifest, shows the class of its import, and a hard negative comes from a picture without it |
| `StoresProofs`: `Evaluation` (`EvaluationAssumption`) | `FiguresStayHonest` | `FilesSound`: the two sides of a split file are those its hash speaks of, without a common session, and together all that was labelled; thresholds are of the val side of the split they name. `ToolSound`: so it is in what a script has read, though the files have changed since. `OpeningsSound`: a script that has opened test has its line in the log, or holds it while it writes, and has not yet run; what is missing from the log is covered by the writes that were cut short |
| `StoresProofs`: `DatasetSplits` (`SplitsAssumption`) | `SplitsStaySound` | `SplitsInv`: while a build runs, the strata it has dealt are `Settled`: each of their groups has one side, and no side is rounded away. `FileSound`: the file on disk holds each image on the side its group was dealt to, for the data it was made of (`Made`). A reader is served only a file whose hash matches the data there now. For this, what `UnionFind` merges stays merged however the pairs are ordered (`MergedJoins`), every group is in a stratum (`StrataAreGroups`), and rounding leaves each split something of enough groups (`CutLeavesEnough`) |
| `PerceptionProofs`: `Tracker` (`TrackingAssumption`) | `IdentityHolds`, `TimesAreKept` | `OneGhostPerId`: live tracks and ghosts share no id. `GhostsAreOfTracks`: a ghost was confirmed, and its clock is its track's. `MissesTakeFrames`: a miss costs a frame at least, which ties the budget in misses to a window in frames |
| `PerceptionProofs`: `PerceptionEngine` (`PerceptionAssumption`) | `ReusedPosesAreNewest` | `MemoryIsNewest`, `TakenIsNewest`: what the three fields hold between the writes of each, and what has been taken of them between the reads. The theorem is about a stream that has the engine to itself, as the property is |
| `PerceptionProofs`: `Startup` (`StartupAssumption`) | `ServesWhatWasAsked` | `Progress`: how far the process has come, and what there is by then, every session on the provider asked for. `Reports`: what is told of classifier and provider is what was loaded and runs. `Shutdown`: what has stopped in each phase of the end, and that a thread still running has been recorded |
| `PerceptionProofs`: `Recognition` (`RecognitionAssumption`) | `FramesAreRead`, `ScoresAddUp` | For each loop, what holds of the part done against the part left: `KeptSound` (of the boxes looked at, each one dropped gave way to a better of its class), `PairsSound` (each pair passed over shares a side with one taken that is as good), `ClaimsSound` (the same of an evaluated image). That the tallies add up needs that every label is known and that a sum of counts over the labels is the count of the union |
| `PerceptionProofs`: `TrackOutput` (`OutputAssumption`) | `TracksStayTrue` | `HistoriesSound`: what a track remembers is the end of what it was observed as. `PosesSound`: the pose on a track is the one bound last, with its own time. `MeasuredInTime`, `AsShown`. That the votes have a leader needs the finiteness of a history and the least element of a set of naturals |
| `LabelPageProofs` (`LabelAssumption`, `CocoAssumption`) | `SavesAreKept`, `BoxesAreTrue`, `LabelsStayTrue`, `StoreIsAtomic` | `DocsSound`: in the file, its backup and each writer's hands, boxes have a size, and a detector's box is on a frame marked as seeded, or one the developer took the mark off. `PageSound`: so it is on the page and in its requests. `PatientInv`, for a user who waits: one request at a time, and boxes stored of a frame were drawn on it. `KeptInv`: while the two programs do not overlap, the file or else the backup keeps what was acknowledged, at each step of a save. `AtomicInv`, for the refinement: once it has been copied, the backup gives what the file gave, and what the script holds while it samples is the store and more frames |

Three refinements are proved, each step of the detailed module being a step of the
abstract one or a stutter.

- `NewestWinsRefinement` maps what is waiting to the frames in the browser's slot,
  the producer's hands and the mailbox.
- `StoreIsAtomic` maps what is stored to the file if it loads, else to the backup,
  and what is being saved to what a writer holds. The commit is the write of the
  new text; copying, truncating, a crash and the restoring of the backup do not
  show. `AnnotationStore` promises nothing once the two programs have overlapped,
  which is what section 5 says of them.
- `BatchIsReviewed` maps the notes to box, confirmation and role in the manifest
  and leaves out status, progress and files. What a worker has loaded before the
  clean-up is what may come back.

Folds and recursion. The fold of the community modules chooses a function that
satisfies a recursion over subsets, and the provers cannot use the library's
induction for it. `PerceptionProofs` (sums) and `StoresProofs` (union-find) prove by
hand that such a function exists, and what any such function gives by looking at
the smallest set where it would be wrong. Of `TransitiveClosure`, which the
audit's groups are made with, nothing is needed but that the pairs it reports are
pairs of images: that duplicates stay together is a matter of the union-find.

Between them the theorems state every safety property the runs check. Where a
property is about some users only (those who wait, streams that do not share the
engine, sockets that do not overlap), so is the theorem, and the runs and section
5 say what happens to the others.

Only model-checked:

- every liveness property (`NewestArrives`, `StopEnds`, `LastValueArrives`,
  `ProcessingEnds`, `MonitoringComesBack`, `CameraComesBack`): fairness and
  ENABLED are beyond the prover.

## 8. What is not modelled

- Telemetry, percentiles and reports: arithmetic over lists and files that no
  other part reads. The counters they print are in `FramePipeline`.
- The recorder on the server: one handler writes a file and then its manifest. A
  crash in between leaves a clip without a manifest, which the listing does not show.
- Logging, and the fields of the core types that nothing decides by.
- Image quality, box proposals and the free-text vocabulary: numerical or
  textual functions without state. Their outcome is a choice in `BatchStaging`.
- Tensors, letterboxing, decoding of network output, geometry of the
  association, training itself: numerical code; the models take any result.
- The benchmark, audit and derivation scripts (about 5000 lines): they call the
  components modelled here in a loop, and write reports.
- Rendering, preferences, histogram, camera constraints and the box editor's
  geometry in the browser.

Within modelled components, what is left out stands in the component's note in
`PROJECT.json`: latency metrics and `run_for` of the loop, the numeric ranges of
most settings, upload validation and image routes of the batches, velocities and
boxes of the tracks, which labels change a hash.

Hazards without a property: none; each of the list names the property that
would catch it, and where a statement of the text is refuted, the one that does.

## 9. What remains

- A composition of the live loop with a Studio session and its batches, which
  share the engine: today the pause is a parameter of `FramePipeline` and a
  result of `StudioLifecycle`.
- That the audit's groups are the classes of the closure, as `TransitiveClosure`
  gives them: an induction over paths, which the proofs do without.
- Tracker and TrackOutput share their tracks; composed, the class a track shows
  could be followed through a life as a ghost.
