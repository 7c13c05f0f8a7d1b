---------------------------- MODULE BrowserCapture ----------------------------
(***************************************************************************)
(* Who holds the camera in the dashboard page: opening, switching and      *)
(* releasing streams (features/camera-capture.js), the worker that reads   *)
(* the stream (features/analysis-client.js), the clip recorder             *)
(* (features/recording.js) and the change of mode (app.js, ui/store.js).   *)
(*                                                                         *)
(* The page is one thread, but asking for a camera awaits, and the user    *)
(* and the devices go on. Streams are numbered in the order they are given *)
(* out; a clip is named by its number.                                     *)
(***************************************************************************)
EXTENDS Naturals, Sequences, FiniteSets, SequencesExt

CONSTANTS
    MaxOpens,     \* bound: times a camera is asked for
    MaxClips, MaxChunks     \* bounds: clips recorded, chunks of all of them

ASSUME CaptureAssumption ==
    MaxOpens \in Nat /\ MaxClips \in Nat /\ MaxChunks \in Nat

None == 0

VARIABLES
    overlap,       \* does this user, do these devices, act while a request is open: fixed
    mode,          \* store.mode
    boot,          \* main(): "start", "camera" (awaiting initCameraCapture), "listening"
    started,
    requests,      \* cameras being asked for: [id, stage, by, device]
    askedFor,      \* requests so far
    stream,        \* runtime.stream
    live,          \* streams whose tracks run
    currentDevice, \* runtime.currentDeviceId: "default" or "chosen"
    worker,        \* the stream runtime.worker reads
    recorder,      \* the clip being recorded
    stopping,      \* clips whose last data and stop event are still to come
    recChunks,     \* runtime.recChunks: the clip each chunk is of
    clips,         \* clips so far
    chunks,        \* chunks so far
    uploads        \* what was uploaded: clip and the chunks in it

captureVars == <<overlap, mode, boot, started, requests, askedFor, stream, live, currentDevice, worker,
                 recorder, stopping, recChunks, clips, chunks, uploads>>
recordVars == <<recorder, stopping, recChunks, clips, chunks, uploads>>

CaptureInit ==
    /\ overlap \in BOOLEAN
    /\ mode \in {"realtime", "recorded"} /\ boot = "start" /\ started = FALSE
    /\ requests = {} /\ askedFor = 0 /\ stream = None /\ live = {}
    /\ currentDevice = "default" /\ worker = None
    /\ recorder = None /\ stopping = {} /\ recChunks = << >>
    /\ clips = 0 /\ chunks = 0 /\ uploads = {}

\* The user and the devices act when nothing is being opened, or at any time.
MayTouch == overlap \/ (requests = {} /\ stopping = {} /\ boot /= "camera")

-----------------------------------------------------------------------------
\* Mutant: the worker reads on when its stream is stopped.
WorkerStays == worker

WorkerAfterStop == None

TracksAfterStop == live \ {stream}

\* stopCurrentStream. A recorder of the stream stops by itself.
StopCurrentStream ==
    /\ live' = TracksAfterStop
    /\ stream' = None
    /\ worker' = WorkerAfterStop
    /\ stopping' = IF recorder /= None /\ stream /= None THEN stopping \cup {recorder} ELSE stopping
    /\ recorder' = IF stream /= None THEN None ELSE recorder
    /\ UNCHANGED <<recChunks, clips, chunks, uploads>>

\* openStream, up to its first await.
OpenStream(others, device, by) ==
    /\ askedFor < MaxOpens
    /\ askedFor' = askedFor + 1
    /\ requests' = others \cup {[id |-> askedFor', stage |-> "asked", by |-> by, device |-> device]}
    /\ StopCurrentStream

\* startBrowserCapture asks for permission first.
AskPermission(by) ==
    /\ askedFor < MaxOpens
    /\ askedFor' = askedFor + 1
    /\ started' = TRUE
    /\ requests' = requests \cup {[id |-> askedFor', stage |-> "permission", by |-> by, device |-> "chosen"]}

BootAfter(r) == IF r.by = "boot" THEN "listening" ELSE boot

\* A request ends without a camera.
GivesUp(r) ==
    /\ requests' = requests \ {r}
    /\ boot' = BootAfter(r)
    /\ UNCHANGED <<overlap, mode, started, askedFor, stream, live, currentDevice, worker, recordVars>>

Permission(r) ==
    /\ r.stage = "permission"
    /\ \/ GivesUp(r)
       \/ /\ OpenStream(requests \ {r}, r.device, r.by)
          /\ UNCHANGED <<overlap, mode, boot, started, currentDevice>>

\* getUserMedia fails: once more with the default camera, then not again.
CameraRefused(r) ==
    \/ /\ r.stage = "asked"
       /\ requests' = (requests \ {r}) \cup {[r EXCEPT !.stage = "fallback"]}
       /\ UNCHANGED <<overlap, mode, boot, started, askedFor, stream, live, currentDevice, worker, recordVars>>
    \/ r.stage = "fallback" /\ GivesUp(r)

\* getUserMedia succeeds: whatever happened meanwhile, this is the stream now.
CameraGiven(r) ==
    /\ r.stage \in {"asked", "fallback"}
    /\ requests' = requests \ {r}
    /\ boot' = BootAfter(r)
    /\ stream' = r.id /\ live' = live \cup {r.id}
    /\ currentDevice' = r.device
    /\ worker' = r.id
    /\ UNCHANGED <<overlap, mode, started, askedFor, recordVars>>

-----------------------------------------------------------------------------
\* main(): the camera first, then the subscription to the store.
Boot ==
    /\ boot = "start"
    /\ IF mode = "realtime"
         THEN boot' = "camera" /\ AskPermission("boot")
         ELSE boot' = "listening" /\ UNCHANGED <<started, requests, askedFor>>
    /\ UNCHANGED <<overlap, mode, stream, live, currentDevice, worker, recordVars>>

\* The mode is changed; before the subscription nobody hears of it.
LeaveRealtime ==
    /\ mode = "realtime" /\ MayTouch /\ boot /= "start"
    /\ mode' = "recorded"
    /\ IF boot = "listening" THEN StopCurrentStream
       ELSE UNCHANGED <<stream, live, worker, recordVars>>
    /\ UNCHANGED <<overlap, boot, started, requests, askedFor, currentDevice>>

ReturnToRealtime ==
    /\ mode = "recorded" /\ MayTouch /\ boot /= "start"
    /\ mode' = "realtime"
    /\ IF boot /= "listening"
         THEN UNCHANGED <<started, requests, askedFor, stream, live, worker, recordVars>>
         ELSE IF started
                THEN OpenStream(requests, "chosen", "page") /\ UNCHANGED started
                ELSE AskPermission("page") /\ UNCHANGED <<stream, live, worker, recordVars>>
    /\ UNCHANGED <<overlap, boot, currentDevice>>

\* The device or size selector, shown in Real-time mode only; a new size without a
\* stream opens one, and so does a camera that refuses it.
SelectCamera ==
    /\ mode = "realtime" /\ MayTouch /\ started
    /\ OpenStream(requests, "chosen", "page")
    /\ UNCHANGED <<overlap, mode, boot, started, currentDevice>>

\* onDeviceChange: the active camera is unplugged.
CameraUnplugged ==
    /\ started /\ currentDevice = "chosen" /\ MayTouch
    /\ OpenStream(requests, "default", "page")
    /\ UNCHANGED <<overlap, mode, boot, started, currentDevice>>

-----------------------------------------------------------------------------
ChunksAtStart == << >>

StartRecording ==
    /\ recorder = None /\ stream /= None /\ MayTouch /\ clips < MaxClips
    /\ clips' = clips + 1
    /\ recorder' = clips'
    /\ recChunks' = ChunksAtStart
    /\ UNCHANGED <<overlap, mode, boot, started, requests, askedFor, stream, live, currentDevice, worker,
                   stopping, chunks, uploads>>

ChunkArrives ==
    /\ recorder /= None /\ chunks < MaxChunks
    /\ chunks' = chunks + 1
    /\ recChunks' = Append(recChunks, recorder)
    /\ UNCHANGED <<overlap, mode, boot, started, requests, askedFor, stream, live, currentDevice, worker,
                   recorder, stopping, clips, uploads>>

StopRecording ==
    /\ recorder /= None /\ MayTouch
    /\ stopping' = stopping \cup {recorder}
    /\ recorder' = None
    /\ UNCHANGED <<overlap, mode, boot, started, requests, askedFor, stream, live, currentDevice, worker,
                   recChunks, clips, chunks, uploads>>

\* The last data and onstop: uploadRecording sends what recChunks holds by now.
ClipStops(clip) ==
    /\ clip \in stopping
    /\ stopping' = stopping \ {clip}
    /\ recChunks' = Append(recChunks, clip)
    /\ uploads' = uploads \cup {[clip |-> clip, of |-> ToSet(recChunks')]}
    /\ UNCHANGED <<overlap, mode, boot, started, requests, askedFor, stream, live, currentDevice, worker,
                   recorder, clips, chunks>>

CaptureNext ==
    \/ Boot \/ LeaveRealtime \/ ReturnToRealtime \/ SelectCamera \/ CameraUnplugged
    \/ \E r \in requests : Permission(r) \/ CameraRefused(r) \/ CameraGiven(r)
    \/ StartRecording \/ ChunkArrives \/ StopRecording
    \/ \E clip \in stopping : ClipStops(clip)

CaptureSpec == CaptureInit /\ [][CaptureNext]_captureVars

-----------------------------------------------------------------------------
\* Properties.

\* The analysis worker reads the stream that is previewed, or none: also when two
\* requests for a camera were answered in the other order.
WorkerReadsPreview == worker \in {None, stream}

\* A camera that is on is the one being previewed; requests that overlap break it:
\* the stream of the first one is forgotten, and stays on.
OneCamera == ~overlap => live \subseteq {stream}

\* "Leaving Real-time: stop every track, drop the worker, release the device"
\* (camera-capture.js:92). Broken without any overlap too: an unplugged camera is
\* replaced in any mode.
CameraOffInRecorded == ~overlap /\ mode = "recorded" /\ boot = "listening" => live = {}

\* A clip is uploaded with its own data only, unless the next one is started before
\* the last data of this one came: both are kept in the same place.
ClipIsItsOwn == ~overlap => \A u \in uploads : u.of = {u.clip}

\* Together: one camera, the one that is seen, analysed and recorded.
CaptureIsSound == WorkerReadsPreview /\ OneCamera /\ ClipIsItsOwn
=============================================================================
