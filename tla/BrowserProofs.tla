---------------------------- MODULE BrowserProofs ----------------------------
(***************************************************************************)
(* Proofs about the browser's side and the camera of the server, for any   *)
(* number of frames, requests, clips and images: DeviceSource,             *)
(* AnalysisWorker, BrowserCapture, StudioPage and BatchReviewer.           *)
(***************************************************************************)
EXTENDS DeviceSource, AnalysisWorker, BrowserCapture, StudioPage,
        BatchReviewer, SequenceTheorems, FiniteSetTheorems,
        WellFoundedInduction, TLAPS

---------------------------------------------------------------------------
(* A camera of the server: it is released for good once stop() has         *)
(* returned, whatever the backoffs.                                        *)

InOpening == {"open", "probe", "openDone", "openFailed"}
ReaderPlaces == {"top", "wantLock", "frame", "retry", "wait"} \cup InOpening
ControlPlaces == {"new", "started", "startFailed", "stopping", "stopped"} \cup InOpening

DeviceShape ==
    /\ opened \in BOOLEAN /\ stopSet \in BOOLEAN
    /\ holder \in Threads \cup {"nobody"}
    /\ at \in [Threads -> ReaderPlaces \cup ControlPlaces]
    /\ at["reader"] \in ReaderPlaces /\ at["control"] \in ControlPlaces

\* The capture object is touched by the thread that holds the lock; each is there
\* between its taking and its releasing the lock.
OneHolder ==
    /\ at["reader"] \in {"frame", "retry"} \cup InOpening => holder = "reader"
    /\ at["control"] \in InOpening => holder = "control"

\* The event is set from the call of stop() to the next start(). Set, it keeps who
\* comes to the lock later from opening: nobody can be where a camera is found.
StopReaches ==
    /\ at["control"] \in {"stopping", "stopped"} => stopSet
    /\ at["control"] = "stopped" =>
          ~opened /\ at["reader"] \notin {"frame", "probe", "openDone"}

DeviceInv == DeviceShape /\ OneHolder /\ StopReaches

---------------------------------------------------------------------------
LEMMA DeviceInitHolds == DeviceInit => DeviceInv
<1> SUFFICES ASSUME DeviceInit PROVE DeviceInv
  OBVIOUS
<1>1. at = [t \in Threads |-> IF t = "reader" THEN "top" ELSE "new"]
  BY DEF DeviceInit, Threads
<1>2. opened = FALSE /\ stopSet = FALSE /\ holder = "nobody"
  BY DEF DeviceInit
<1> QED BY <1>1, <1>2 DEF DeviceInv, DeviceShape, OneHolder, StopReaches, Threads, ReaderPlaces, ControlPlaces, InOpening

LEMMA OpeningStep == ASSUME NEW t \in Threads, DeviceInv, Opening(t) PROVE DeviceInv'
<1> USE DEF DeviceInv, DeviceShape, OneHolder, StopReaches, Threads, ReaderPlaces, ControlPlaces, InOpening, InStep, Moves
<1>1. CASE TryBackend(t)
  BY <1>1 DEF TryBackend, MayOpen
<1>2. CASE ProbeFinds(t)
  BY <1>2 DEF ProbeFinds
<1>3. CASE ProbeGivesUp(t)
  BY <1>3 DEF ProbeGivesUp
<1> QED BY <1>1, <1>2, <1>3 DEF Opening

LEMMA ReadingStep == DeviceInv /\ Reading => DeviceInv'
<1> SUFFICES ASSUME DeviceInv, Reading PROVE DeviceInv'
  OBVIOUS
<1>1. CASE Opening("reader")
  BY <1>1, OpeningStep DEF Threads
<1> USE DEF DeviceInv, DeviceShape, OneHolder, StopReaches, Threads, ReaderPlaces, ControlPlaces, InOpening,
            InStep, Moves, Unlock, FreeLock
<1>2. CASE BeginRead
  BY <1>2 DEF BeginRead
<1>3. CASE LockForRead
  BY <1>3 DEF LockForRead
<1>4. CASE GoodRead
  BY <1>4 DEF GoodRead
<1>5. CASE BadRead
  BY <1>5 DEF BadRead
<1>6. CASE Retry
  BY <1>6 DEF Retry
<1>7. CASE Reopened
  BY <1>7 DEF Reopened
<1>8. CASE ReopenFailed
  BY <1>8 DEF ReopenFailed
<1>9. CASE WaitOver
  BY <1>9 DEF WaitOver
<1> QED BY <1>1, <1>2, <1>3, <1>4, <1>5, <1>6, <1>7, <1>8, <1>9 DEF Reading

LEMMA ControlStep == DeviceInv /\ (Finishing \/ CallStart \/ CallStop) => DeviceInv'
<1> SUFFICES ASSUME DeviceInv, Finishing \/ CallStart \/ CallStop PROVE DeviceInv'
  OBVIOUS
<1>1. CASE Opening("control")
  BY <1>1, OpeningStep DEF Threads
<1> USE DEF DeviceInv, DeviceShape, OneHolder, StopReaches, Threads, ReaderPlaces, ControlPlaces, InOpening,
            InStep, Moves, Unlock, FreeLock
<1>2. CASE StartDone
  BY <1>2 DEF StartDone
<1>3. CASE StopDone
  BY <1>3 DEF StopDone
<1>4. CASE CallStart
  BY <1>4 DEF CallStart
<1>5. CASE CallStop
  BY <1>5 DEF CallStop
<1> QED BY <1>1, <1>2, <1>3, <1>4, <1>5 DEF Finishing

LEMMA DeviceInvariant == DeviceSpec => []DeviceInv
<1>1. DeviceInv /\ UNCHANGED deviceVars => DeviceInv'
  BY DEF deviceVars, DeviceInv, DeviceShape, OneHolder, StopReaches
<1>2. DeviceInv /\ (Tick \/ CameraComesOrGoes) => DeviceInv'
  BY DEF Tick, CameraComesOrGoes, DeviceInv, DeviceShape, OneHolder, StopReaches
<1>3. DeviceInv /\ [DeviceNext]_deviceVars => DeviceInv'
  BY <1>1, <1>2, ReadingStep, ControlStep DEF DeviceNext
<1> QED BY <1>3, DeviceInitHolds, PTL DEF DeviceSpec

\* After stop() no read() that was still waiting for the lock opens the camera.
THEOREM CameraStaysReleased == DeviceSpec => []CameraReleased
<1>1. DeviceInv => CameraReleased
  BY DEF DeviceInv, StopReaches, CameraReleased, InStep
<1> QED BY <1>1, DeviceInvariant, PTL

---------------------------------------------------------------------------
(* The worker that sends frames: its messages, in order, whatever the      *)
(* rates.                                                                  *)

Messages == [seq : Nat, cap : Nat, image : Nat]

WorkerShape ==
    /\ frame \in Nat /\ pendingCapMs \in Nat /\ lastSendMs \in Nat
    /\ seq \in Nat /\ buffered \in Nat
    /\ wire \in Seq(Messages)

\* At most one image is being encoded, encodeBusy says so, and it is the one whose
\* time pendingCapMs holds: no frame is accepted meanwhile that could change it.
OneEncode ==
    /\ encoding \subseteq {pendingCapMs}
    /\ ~encodeBusy => encoding = {}

\* What was sent is older than what is being encoded, and not younger than the last
\* accepted frame, from which the next one is at least an interval away.
WorkerInOrder ==
    /\ pendingCapMs = lastSendMs /\ lastSendMs <= frame
    /\ \A i \in 1 .. Len(wire) :
          wire[i].image <= lastSendMs /\ wire[i].image \notin encoding

Numbered == seq = Len(wire)

WorkerInv == WorkerShape /\ OneEncode /\ WorkerInOrder /\ Numbered /\ HeaderIsOfItsImage /\ QueueBounded

---------------------------------------------------------------------------
LEMMA WorkerInitHolds == WorkerInit => WorkerInv
<1> SUFFICES ASSUME WorkerInit PROVE WorkerInv
  OBVIOUS
<1>1. wire = << >> /\ Len(wire) = 0 /\ wire \in Seq(Messages) /\ DOMAIN wire = {}
  BY DEF WorkerInit
<1>2. WorkerShape /\ OneEncode
  BY <1>1 DEF WorkerInit, WorkerShape, OneEncode
<1>3. WorkerInOrder /\ Numbered
  BY <1>1 DEF WorkerInit, WorkerInOrder, Numbered
<1>4. HeaderIsOfItsImage
  BY <1>1 DEF HeaderIsOfItsImage
<1>5. QueueBounded
  BY WorkerAssumption DEF WorkerInit, QueueBounded
<1> QED BY <1>2, <1>3, <1>4, <1>5 DEF WorkerInv

LEMMA SocketStep == WorkerInv /\ (SocketOpens \/ HelloAck \/ SocketCloses \/ Drains) => WorkerInv'
<1> SUFFICES ASSUME WorkerInv, SocketOpens \/ HelloAck \/ SocketCloses \/ Drains PROVE WorkerInv'
  OBVIOUS
<1>1. UNCHANGED <<frame, encodeBusy, encoding, pendingCapMs, lastSendMs, seq, wire>>
  BY DEF SocketOpens, HelloAck, SocketCloses, Drains
<1>2. buffered' \in Nat /\ QueueBounded'
  BY WorkerAssumption DEF SocketOpens, HelloAck, SocketCloses, Drains, WorkerInv, WorkerShape, QueueBounded
<1> QED BY <1>1, <1>2 DEF WorkerInv, WorkerShape, OneEncode, WorkerInOrder, Numbered, HeaderIsOfItsImage

LEMMA FrameStep == WorkerInv /\ FrameArrives => WorkerInv'
<1> SUFFICES ASSUME WorkerInv, FrameArrives PROVE WorkerInv'
  OBVIOUS
<1>1. frame' = frame + 1 /\ UNCHANGED <<seq, buffered, wire>> /\ frame \in Nat
  BY DEF FrameArrives, WorkerInv, WorkerShape
<1>2. CASE Dropped(frame')
  <2>1. UNCHANGED <<lastSendMs, pendingCapMs, encodeBusy, encoding>>
    BY <1>2 DEF FrameArrives
  <2> QED BY <1>1, <2>1 DEF WorkerInv, WorkerShape, OneEncode, WorkerInOrder, Numbered, HeaderIsOfItsImage, QueueBounded
<1>3. CASE ~Dropped(frame')
  <2>1. encoding = {}
    BY <1>3 DEF Dropped, Busy, WorkerInv, OneEncode, WorkerShape
  <2>2. /\ lastSendMs' = frame' /\ pendingCapMs' = frame'
        /\ \/ encodeBusy' = TRUE /\ encoding' = {frame'}
           \/ encodeBusy' = FALSE /\ encoding' = {}
    BY <1>3, <2>1 DEF FrameArrives
  <2>3. \A i \in 1 .. Len(wire) : wire[i].image \in Nat /\ wire[i].image <= frame
    <3> TAKE i \in 1 .. Len(wire)
    <3>1. wire[i] \in Messages
      BY DEF WorkerInv, WorkerShape
    <3>2. wire[i].image \in Nat
      BY <3>1 DEF Messages
    <3> QED BY <3>2 DEF WorkerInv, WorkerInOrder, WorkerShape
  <2>4. \A i \in 1 .. Len(wire) : wire[i].image <= frame' /\ wire[i].image # frame'
    BY <1>1, <2>3
  <2>5. WorkerInOrder'
    BY <1>1, <2>2, <2>4 DEF WorkerInOrder
  <2>6. WorkerShape'
    BY <1>1, <2>2 DEF WorkerInv, WorkerShape
  <2>7. OneEncode'
    BY <2>2 DEF OneEncode
  <2>8. Numbered' /\ HeaderIsOfItsImage' /\ QueueBounded'
    BY <1>1 DEF WorkerInv, Numbered, HeaderIsOfItsImage, QueueBounded
  <2> QED BY <2>5, <2>6, <2>7, <2>8 DEF WorkerInv
<1> QED BY <1>2, <1>3

LEMMA EncodeStep ==
    ASSUME WorkerInv, NEW image \in encoding, FinishEncode(image) \/ EncodeFails(image)
    PROVE  WorkerInv'
<1>1. image = pendingCapMs /\ encoding = {image} /\ encoding' = {} /\ encodeBusy' = FALSE
      /\ UNCHANGED <<frame, pendingCapMs, lastSendMs>>
  BY DEF FinishEncode, EncodeFails, WorkerInv, OneEncode
<1>2. CASE UNCHANGED <<wire, seq, buffered>>
  BY <1>1, <1>2 DEF WorkerInv, WorkerShape, OneEncode, WorkerInOrder, Numbered, HeaderIsOfItsImage, QueueBounded
<1>3. ASSUME HasRoom, wire' = Append(wire, [seq |-> seq, cap |-> pendingCapMs, image |-> image]),
             seq' = seq + 1, buffered' = buffered + 1
      PROVE  WorkerInv'
  <2> DEFINE m == [seq |-> seq, cap |-> pendingCapMs, image |-> image]
             n == Len(wire)
  <2>1. m \in Messages /\ wire \in Seq(Messages) /\ n \in Nat
    BY <1>1 DEF Messages, WorkerInv, WorkerShape
  <2>2. wire' \in Seq(Messages) /\ Len(wire') = n + 1 /\ wire'[n + 1] = m
        /\ \A i \in 1 .. n : wire'[i] = wire[i]
    BY <1>3, <2>1
  <2>3. m.cap = m.image /\ m.image = lastSendMs /\ m.seq = n /\ lastSendMs \in Nat
    BY <1>1 DEF WorkerInv, WorkerInOrder, Numbered, WorkerShape
  <2>4. \A i \in 1 .. n : wire[i].image \in Nat /\ wire[i].image <= lastSendMs
                         /\ wire[i].image # lastSendMs
    <3> TAKE i \in 1 .. n
    <3>1. wire[i] \in Messages
      BY <2>1
    <3> QED BY <1>1, <2>3, <3>1 DEF WorkerInv, WorkerInOrder, Messages
  <2> HIDE DEF m, n
  <2>5. WorkerShape' /\ Numbered' /\ OneEncode'
    <3>1. WorkerShape'
      BY <1>1, <1>3, <2>2 DEF WorkerInv, WorkerShape
    <3>2. Numbered' /\ OneEncode'
      BY <1>1, <1>3, <2>2 DEF WorkerInv, OneEncode, Numbered, n
    <3> QED BY <3>1, <3>2
  <2>6. \A i \in 1 .. n + 1 : i \in 1 .. n \/ i = n + 1
    BY <2>1
  <2>7. WorkerInOrder'
    BY <1>1, <2>2, <2>3, <2>4, <2>6 DEF WorkerInv, WorkerInOrder
  <2>8. DOMAIN wire' = 1 .. n + 1 /\ DOMAIN wire = 1 .. n
    BY <2>1, <2>2 DEF n
  <2>9. \A i \in DOMAIN wire' : wire'[i].cap = wire'[i].image /\ wire'[i].seq = i - 1
    BY <2>1, <2>2, <2>3, <2>6, <2>8 DEF WorkerInv, HeaderIsOfItsImage
  <2>10. \A i, j \in DOMAIN wire' : i < j => wire'[i].image < wire'[j].image
    <3> SUFFICES ASSUME NEW i \in 1 .. n + 1, NEW j \in 1 .. n + 1, i < j
                 PROVE  wire'[i].image < wire'[j].image
      BY <2>8
    <3>1. i \in 1 .. n
      BY <2>1
    <3>2. CASE j \in 1 .. n
      BY <2>2, <2>8, <3>1, <3>2 DEF WorkerInv, HeaderIsOfItsImage
    <3>3. CASE j = n + 1
      BY <2>2, <2>3, <2>4, <3>1, <3>3
    <3> QED BY <2>6, <3>2, <3>3
  <2>11. QueueBounded'
    BY <1>3, WorkerAssumption DEF HasRoom, QueueBounded, WorkerInv, WorkerShape
  <2> QED BY <2>5, <2>7, <2>9, <2>10, <2>11 DEF WorkerInv, HeaderIsOfItsImage
<1> QED BY <1>2, <1>3 DEF FinishEncode, EncodeFails

LEMMA WorkerInvariant == WorkerSpec => []WorkerInv
<1>1. WorkerInv /\ UNCHANGED workerVars => WorkerInv'
  BY DEF workerVars, WorkerInv, WorkerShape, OneEncode, WorkerInOrder, Numbered, HeaderIsOfItsImage, QueueBounded
<1>2. WorkerInv /\ [WorkerNext]_workerVars => WorkerInv'
  BY <1>1, SocketStep, FrameStep, EncodeStep DEF WorkerNext
<1> QED BY <1>2, WorkerInitHolds, PTL DEF WorkerSpec

\* Each header is that of the image behind it, images leave in the order they were
\* taken, and the socket's queue stays within a message of its ceiling.
THEOREM WireStaysTrue == WorkerSpec => []WireIsTrue
<1>1. WorkerInv => WireIsTrue
  BY DEF WorkerInv, WireIsTrue
<1> QED BY <1>1, WorkerInvariant, PTL

---------------------------------------------------------------------------
(* The page's camera and its recordings.                                   *)

CaptureShape == recChunks \in Seq(Nat) /\ clips \in Nat /\ stopping \subseteq Nat /\ recorder \in Nat

\* Nothing has been asked for before the page has started.
Asleep == boot = "start" => requests = {} /\ ~started

\* Where requests do not overlap there is one at a time, and no stream is on while
\* it is out.
OneRequest ==
    ~overlap =>
        /\ \A r, q \in requests : r = q
        /\ (\E r \in requests : r.stage \in {"asked", "fallback"}) => live = {}

\* Where clips do not overlap the data kept is that of the one being recorded or
\* stopped, and there is one of these.
OneClip ==
    ~overlap =>
        /\ recorder # None => stopping = {} /\ \A i \in 1 .. Len(recChunks) : recChunks[i] = recorder
        /\ \A c \in stopping : stopping = {c} /\ \A i \in 1 .. Len(recChunks) : recChunks[i] = c

CaptureInv == CaptureShape /\ WorkerReadsPreview /\ Asleep /\ OneRequest /\ OneCamera /\ OneClip /\ ClipIsItsOwn

---------------------------------------------------------------------------
LEMMA CaptureInitHolds == CaptureInit => CaptureInv
<1> SUFFICES ASSUME CaptureInit PROVE CaptureInv
  OBVIOUS
<1>1. recChunks = << >> /\ recChunks \in Seq(Nat)
  BY DEF CaptureInit
<1> QED BY <1>1 DEF CaptureInit, CaptureInv, CaptureShape, WorkerReadsPreview, Asleep, OneRequest,
                    OneCamera, OneClip, ClipIsItsOwn, None

\* stopCurrentStream leaves no stream on, and hands the recorder its stop.
LEMMA StopKeeps ==
    ASSUME CaptureInv, StopCurrentStream
    PROVE  /\ CaptureShape' /\ WorkerReadsPreview'
           /\ ~overlap => live' = {}
           /\ overlap' = overlap => OneClip' /\ ClipIsItsOwn'
<1> USE DEF StopCurrentStream, CaptureInv
<1>1. CaptureShape' /\ WorkerReadsPreview'
  BY DEF CaptureShape, WorkerReadsPreview, WorkerAfterStop, None
<1>2. ~overlap => live' = {}
  BY DEF OneCamera, TracksAfterStop
<1>3. overlap' = overlap => OneClip'
  BY DEF OneClip, None
<1>4. overlap' = overlap => ClipIsItsOwn'
  BY DEF ClipIsItsOwn
<1> QED BY <1>1, <1>2, <1>3, <1>4

\* What does not touch the recorder or the streams leaves their part of CaptureInv alone.
LEMMA Untouched ==
    ASSUME CaptureInv, UNCHANGED <<overlap, stream, live, worker, recordVars>>
    PROVE  CaptureShape' /\ WorkerReadsPreview' /\ OneCamera' /\ OneClip' /\ ClipIsItsOwn'
  BY DEF CaptureInv, recordVars, CaptureShape, WorkerReadsPreview, OneCamera, OneClip, ClipIsItsOwn

\* A request that is the only one, made by somebody who had stopped the stream or
\* asks for permission first.
LEMMA RequestStep ==
    ASSUME CaptureInv, boot' # "start", overlap' = overlap, NEW others, NEW device, NEW by,
           OpenStream(others, device, by), ~overlap => others = {}
    PROVE  CaptureInv'
<1>1. StopCurrentStream
  BY DEF OpenStream
<1>2. ~overlap => requests' = {[id |-> askedFor', stage |-> "asked", by |-> by, device |-> device]}
  BY DEF OpenStream
<1>3. ~overlap => live' = {}
  BY <1>1, StopKeeps
<1>4. OneRequest'
  BY <1>2, <1>3 DEF OneRequest
<1>5. OneCamera'
  BY <1>3 DEF OneCamera
<1> QED BY <1>1, <1>4, <1>5, StopKeeps DEF CaptureInv, Asleep

LEMMA PermissionStep ==
    ASSUME CaptureInv, boot' # "start", NEW by, AskPermission(by), ~overlap => requests = {},
           UNCHANGED <<overlap, stream, live, worker, recordVars>>
    PROVE  CaptureInv'
<1>1. ~overlap => requests' = {[id |-> askedFor', stage |-> "permission", by |-> by, device |-> "chosen"]}
  BY DEF AskPermission
<1>2. OneRequest'
  BY <1>1 DEF OneRequest
<1> QED BY <1>2, Untouched DEF CaptureInv, Asleep

---------------------------------------------------------------------------
LEMMA UserStep ==
    ASSUME CaptureInv, Boot \/ LeaveRealtime \/ ReturnToRealtime \/ SelectCamera \/ CameraUnplugged
    PROVE  CaptureInv'
<1>1. CASE Boot
  <2>1. UNCHANGED <<overlap, stream, live, worker, recordVars>> /\ boot = "start" /\ boot' # "start"
    BY <1>1 DEF Boot, AskPermission
  <2>2. ~overlap => requests = {}
    BY <2>1 DEF CaptureInv, Asleep
  <2>3. CASE requests' = requests
    BY <2>1, <2>2, <2>3, Untouched DEF CaptureInv, Asleep, OneRequest
  <2>4. CASE AskPermission("boot")
    BY <2>1, <2>2, <2>4, PermissionStep
  <2> QED BY <1>1, <2>3, <2>4 DEF Boot
<1>2. CASE LeaveRealtime
  <2>1. overlap' = overlap /\ boot' = boot /\ boot # "start" /\ requests' = requests
        /\ (~overlap => requests = {})
    BY <1>2 DEF LeaveRealtime, MayTouch
  <2>2. OneRequest'
    BY <2>1 DEF OneRequest
  <2>3. CASE StopCurrentStream
    BY <2>1, <2>2, <2>3, StopKeeps DEF CaptureInv, Asleep, OneCamera
  <2>4. CASE UNCHANGED <<stream, live, worker, recordVars>>
    BY <2>1, <2>2, <2>4, Untouched DEF CaptureInv, Asleep
  <2> QED BY <1>2, <2>3, <2>4 DEF LeaveRealtime
<1>3. CASE ReturnToRealtime
  <2>1. overlap' = overlap /\ boot' = boot /\ boot # "start" /\ (~overlap => requests = {})
    BY <1>3 DEF ReturnToRealtime, MayTouch
  <2>2. CASE UNCHANGED <<requests, stream, live, worker, recordVars>>
    BY <2>1, <2>2, Untouched DEF CaptureInv, Asleep, OneRequest
  <2>3. CASE OpenStream(requests, "chosen", "page")
    BY <2>1, <2>3, RequestStep
  <2>4. CASE AskPermission("page") /\ UNCHANGED <<stream, live, worker, recordVars>>
    BY <2>1, <2>4, PermissionStep
  <2> QED BY <1>3, <2>2, <2>3, <2>4 DEF ReturnToRealtime
<1>4. CASE SelectCamera \/ CameraUnplugged
  <2>1. overlap' = overlap /\ boot' = boot /\ (~overlap => requests = {})
        /\ (OpenStream(requests, "chosen", "page") \/ OpenStream(requests, "default", "page"))
    BY <1>4 DEF SelectCamera, CameraUnplugged, MayTouch
  <2>2. boot # "start"
    BY <1>4 DEF SelectCamera, CameraUnplugged, CaptureInv, Asleep
  <2> QED BY <2>1, <2>2, RequestStep
<1> QED BY <1>1, <1>2, <1>3, <1>4

LEMMA AnswerStep ==
    ASSUME CaptureInv, NEW r \in requests, Permission(r) \/ CameraRefused(r) \/ CameraGiven(r)
    PROVE  CaptureInv'
<1>1. boot # "start" /\ BootAfter(r) # "start"
  BY DEF CaptureInv, Asleep, BootAfter
<1>2. ~overlap => requests = {r}
  BY DEF CaptureInv, OneRequest
<1>3. CASE GivesUp(r)
  <2>1. OneRequest' /\ Asleep'
    BY <1>1, <1>3 DEF GivesUp, CaptureInv, OneRequest, Asleep
  <2> QED BY <1>3, <2>1, Untouched DEF GivesUp, CaptureInv
<1>4. CASE Permission(r) /\ ~GivesUp(r)
  <2>1. OpenStream(requests \ {r}, r.device, r.by) /\ overlap' = overlap /\ boot' = boot
    BY <1>4 DEF Permission
  <2> QED BY <1>1, <1>2, <2>1, RequestStep
<1>5. CASE CameraRefused(r) /\ ~GivesUp(r)
  <2>1. /\ r.stage = "asked" /\ requests' = (requests \ {r}) \cup {[r EXCEPT !.stage = "fallback"]}
        /\ UNCHANGED <<overlap, boot, stream, live, worker, recordVars>>
    BY <1>5 DEF CameraRefused
  <2>2. OneRequest' /\ Asleep'
    BY <1>1, <1>2, <2>1 DEF CaptureInv, OneRequest, Asleep
  <2> QED BY <2>1, <2>2, Untouched DEF CaptureInv
<1>6. CASE CameraGiven(r)
  <2>1. /\ overlap' = overlap /\ boot' = BootAfter(r) /\ requests' = requests \ {r}
        /\ stream' = r.id /\ live' = live \cup {r.id} /\ worker' = r.id
        /\ r.stage \in {"asked", "fallback"} /\ UNCHANGED recordVars
    BY <1>6 DEF CameraGiven
  <2>2. ~overlap => live = {}
    BY <2>1 DEF CaptureInv, OneRequest
  <2>3. OneRequest' /\ Asleep'
    BY <1>1, <1>2, <2>1 DEF OneRequest, Asleep
  <2>4. OneCamera' /\ WorkerReadsPreview'
    BY <2>1, <2>2 DEF OneCamera, WorkerReadsPreview
  <2>5. CaptureShape' /\ OneClip' /\ ClipIsItsOwn'
    BY <2>1 DEF recordVars, CaptureInv, CaptureShape, OneClip, ClipIsItsOwn
  <2> QED BY <2>3, <2>4, <2>5 DEF CaptureInv
<1> QED BY <1>3, <1>4, <1>5, <1>6

LEMMA RecordStep ==
    ASSUME CaptureInv, StartRecording \/ ChunkArrives \/ StopRecording \/ \E clip \in stopping : ClipStops(clip)
    PROVE  CaptureInv'
<1>1. UNCHANGED <<overlap, boot, started, requests, stream, live, worker>>
  BY DEF StartRecording, ChunkArrives, StopRecording, ClipStops
<1>2. WorkerReadsPreview' /\ Asleep' /\ OneRequest' /\ OneCamera'
  BY <1>1 DEF CaptureInv, WorkerReadsPreview, Asleep, OneRequest, OneCamera
<1>3. recChunks \in Seq(Nat) /\ clips \in Nat /\ recorder \in Nat /\ stopping \subseteq Nat
  BY DEF CaptureInv, CaptureShape
\* What is appended comes after what was there.
<1>4. ASSUME NEW c \in Nat, recChunks' = Append(recChunks, c)
      PROVE  /\ recChunks' \in Seq(Nat) /\ Len(recChunks') = Len(recChunks) + 1
             /\ (\A i \in 1 .. Len(recChunks) : recChunks[i] = c)
                  => \A i \in 1 .. Len(recChunks') : recChunks'[i] = c
  BY <1>3, <1>4
<1>5. CaptureShape' /\ OneClip' /\ ClipIsItsOwn'
  <2>1. CASE StartRecording
    <3>1. recChunks' = << >> /\ recChunks' \in Seq(Nat) /\ Len(recChunks') = 0
      BY <2>1 DEF StartRecording, ChunksAtStart
    <3>2. clips' \in Nat /\ recorder' \in Nat /\ stopping' = stopping /\ uploads' = uploads
          /\ (~overlap => stopping = {})
      BY <1>3, <2>1 DEF StartRecording, MayTouch
    <3> QED BY <1>1, <1>3, <3>1, <3>2 DEF CaptureInv, CaptureShape, OneClip, ClipIsItsOwn
  <2>2. CASE ChunkArrives
    <3>1. recorder # None /\ recChunks' = Append(recChunks, recorder)
          /\ UNCHANGED <<recorder, stopping, clips, uploads>>
      BY <2>2 DEF ChunkArrives
    <3>2. recChunks' \in Seq(Nat)
      BY <1>3, <1>4, <3>1
    <3>3. OneClip'
      BY <1>1, <1>3, <1>4, <3>1 DEF CaptureInv, OneClip
    <3> QED BY <1>1, <1>3, <3>1, <3>2, <3>3 DEF CaptureInv, CaptureShape, ClipIsItsOwn
  <2>3. CASE StopRecording
    <3>1. recorder # None /\ stopping' = stopping \cup {recorder} /\ recorder' = None
          /\ UNCHANGED <<recChunks, clips, uploads>>
      BY <2>3 DEF StopRecording
    <3>2. CaptureShape'
      BY <1>3, <3>1 DEF CaptureShape, None
    <3> QED BY <1>1, <3>1, <3>2 DEF CaptureInv, OneClip, ClipIsItsOwn
  <2>4. ASSUME NEW clip \in stopping, ClipStops(clip)
        PROVE  CaptureShape' /\ OneClip' /\ ClipIsItsOwn'
    <3>1. /\ stopping' = stopping \ {clip} /\ recChunks' = Append(recChunks, clip)
          /\ uploads' = uploads \cup {[clip |-> clip, of |-> ToSet(recChunks')]}
          /\ UNCHANGED <<recorder, clips>>
      BY <2>4 DEF ClipStops
    <3>2. clip \in Nat
      BY <1>3
    <3>3. recChunks' \in Seq(Nat) /\ Len(recChunks') = Len(recChunks) + 1
          /\ Len(recChunks) \in Nat
      BY <1>3, <1>4, <3>1, <3>2
    <3>4. ~overlap => stopping = {clip} /\ recorder = None
                      /\ \A i \in 1 .. Len(recChunks') : recChunks'[i] = clip
      BY <1>4, <3>1, <3>2 DEF CaptureInv, OneClip
    <3>5. ~overlap => ToSet(recChunks') = {clip}
      <4>1. ~overlap => \A i \in DOMAIN recChunks' : recChunks'[i] = clip
        BY <3>3, <3>4
      <4>2. 1 \in DOMAIN recChunks'
        BY <3>3
      <4> QED BY <4>1, <4>2 DEF ToSet
    <3>6. OneClip'
      BY <1>1, <3>1, <3>4 DEF OneClip
    <3>7. ClipIsItsOwn'
      BY <1>1, <3>1, <3>5 DEF CaptureInv, ClipIsItsOwn
    <3>8. CaptureShape'
      BY <1>3, <3>1, <3>3 DEF CaptureShape
    <3> QED BY <3>6, <3>7, <3>8
  <2> QED BY <2>1, <2>2, <2>3, <2>4
<1> QED BY <1>2, <1>5 DEF CaptureInv

LEMMA CaptureInvariant == CaptureSpec => []CaptureInv
<1>1. CaptureInv /\ UNCHANGED captureVars => CaptureInv'
  BY Untouched DEF captureVars, recordVars, CaptureInv, Asleep, OneRequest
<1>2. CaptureInv /\ [CaptureNext]_captureVars => CaptureInv'
  BY <1>1, UserStep, AnswerStep, RecordStep DEF CaptureNext
<1> QED BY <1>2, CaptureInitHolds, PTL DEF CaptureSpec

\* One camera, the one that is seen, analysed and recorded.
THEOREM CaptureStaysSound == CaptureSpec => []CaptureIsSound
<1>1. CaptureInv => CaptureIsSound
  BY DEF CaptureInv, CaptureIsSound
<1> QED BY <1>1, CaptureInvariant, PTL

---------------------------------------------------------------------------
(* The Studio's page, for a user who acts only when the page is at rest.   *)

SomeObject == Objects \cup {NoObject}
PageState == {"browsing", "object_selected", "capturing", "reviewing"}
Context == [objectId : SomeObject, stage : {"camera", "upload", "inspect"}, editing : Nat,
            pendingUploads : Nat, dirtyInspect : BOOLEAN]
PageCall == [n : Nat, kind : {"encode", "shot", "upload", "patch", "delete", "drop"}, object : SomeObject, image : Nat]

StudioShape ==
    /\ st \in PageState /\ ctx \in Context /\ queue \in Seq(Nat)
    /\ waiting \subseteq PageCall /\ made \in Nat /\ requested \in Nat
    /\ samples \subseteq [object : Objects, image : Nat]
    /\ chosenFor \in Seq(SomeObject) /\ Len(chosenFor) = made

\* The stage of the capture pane is that of the state machine.
StateFits ==
    /\ st \in {"browsing", "object_selected"} => ctx.stage = "camera"
    /\ st = "capturing" => ctx.stage = "upload"
    /\ st = "reviewing" => ctx.stage = "inspect"
    /\ ctx.editing # NoSample => ctx.stage = "inspect"
    /\ loading = "upload" => st \in {"object_selected", "capturing"}
    /\ edited => ctx.dirtyInspect /\ st = "reviewing"

\* An image that was chosen for object o and is not saved.
Unsaved(i, o) == i \in 1 .. made /\ chosenFor[i] = o /\ \A s \in samples : s.image # i

QueueFits ==
    /\ ctx.objectId # NoObject => \A k \in DOMAIN queue : Unsaved(queue[k], ctx.objectId)
    /\ \A j, k \in DOMAIN queue : queue[j] = queue[k] => j = k

\* The one request under way is about what the page shows.
CallFits(c) ==
    /\ c.kind \in {"encode", "shot", "upload"} => c.object = ctx.objectId /\ c.object # NoObject /\ Unsaved(c.image, c.object)
    /\ c.kind \in {"encode", "shot"} => \A k \in DOMAIN queue : queue[k] # c.image
    /\ c.kind = "upload" => st = "capturing" /\ queue # << >> /\ Head(queue) = c.image
    /\ c.kind = "delete" => st = "reviewing"

CallsFit ==
    /\ \A c, d \in waiting : c = d
    /\ waiting # {} => loading = "nothing"
    /\ \A c \in waiting : CallFits(c)

SavedRight ==
    /\ \A s \in samples : s.image > 0 => s.image \in 1 .. made /\ s.object = chosenFor[s.image]
    /\ ~doubled /\ skipped = {}

PageInv ==
    ~hasty =>
        /\ StudioShape /\ SavedRight /\ ~fatal
        /\ left = "no" => StateFits /\ QueueFits /\ CallsFit

LEMMA FreshContextIs ==
    ASSUME NEW o \in SomeObject
    PROVE  /\ FreshContext(o) \in Context /\ FreshContext(o).objectId = o /\ FreshContext(o).stage = "camera"
           /\ FreshContext(o).editing = NoSample
<1>1. NoSample \in Nat
  BY PageAssumption DEF NoSample
<1> QED BY <1>1 DEF FreshContext, Context

LEMMA PageInvInit == PageInit => PageInv
<1> SUFFICES ASSUME PageInit
             PROVE  PageInv
  OBVIOUS
<1>1. /\ st = "browsing" /\ ctx = FreshContext(NoObject) /\ queue = << >> /\ loading = "nothing" /\ waiting = {}
      /\ made = 0 /\ requested = 0 /\ samples = [object : Objects, image : {0}]
      /\ fatal = FALSE /\ chosenFor = << >> /\ skipped = {} /\ doubled = FALSE /\ edited = FALSE
  BY DEF PageInit
<1>2. NoObject \in SomeObject
  BY DEF SomeObject
<1>3. \A s \in samples : s.image = 0 /\ s \in [object : Objects, image : Nat]
  BY <1>1
<1>4. StudioShape
  <2>1. made \in Nat /\ requested \in Nat /\ Len(chosenFor) = made
    BY <1>1
  <2> QED BY <1>1, <1>2, <1>3, <2>1, FreshContextIs DEF StudioShape, PageState
<1>5. SavedRight
  BY <1>1, <1>3 DEF SavedRight
<1>6. StateFits
  BY <1>1, <1>2, FreshContextIs DEF StateFits
<1>7. QueueFits /\ CallsFit
  BY <1>1 DEF QueueFits, CallsFit
<1> QED BY <1>1, <1>4, <1>5, <1>6, <1>7 DEF PageInv

\* The page's state changes, and neither the queue nor what was saved.
LEMMA OnlyState ==
    ASSUME ~hasty, PageInv, left = "no", StudioShape',
           UNCHANGED <<samples, chosenFor, made, doubled, skipped, fatal>>,
           queue' = queue \/ queue' = << >>,
           ctx'.objectId = ctx.objectId \/ ctx'.objectId = NoObject \/ queue' = << >>,
           left' = "no" => StateFits',
           waiting' = {} \/ left' # "no"
    PROVE  PageInv'
<1>1. StudioShape /\ SavedRight /\ ~fatal /\ StateFits /\ QueueFits /\ CallsFit
  BY DEF PageInv
<1>2. SavedRight'
  BY <1>1 DEF SavedRight
<1>3. QueueFits'
  <2>1. \A i, o : Unsaved(i, o) => Unsaved(i, o)'
    BY DEF Unsaved
  <2>2. CASE queue' = << >>
    BY <2>2 DEF QueueFits
  <2>3. CASE queue' = queue /\ ctx'.objectId \in {ctx.objectId, NoObject}
    BY <1>1, <2>1, <2>3 DEF QueueFits, Unsaved
  <2> QED BY <2>2, <2>3
<1>4. left' = "no" => CallsFit'
  BY DEF CallsFit
<1> QED BY <1>1, <1>2, <1>3, <1>4 DEF PageInv

\* A request is sent; nothing else changes but perhaps a shot is taken.
LEMMA OnlySends ==
    ASSUME ~hasty, PageInv, MayPress, NEW kind \in {"encode", "upload", "patch", "delete", "drop"}, NEW image \in Nat,
           Sends(kind, image), UNCHANGED <<st, ctx, queue, loading, samples, left, fatal, skipped, doubled, edited>>,
           \/ UNCHANGED <<made, chosenFor>> /\ kind # "encode"
           \/ /\ made' = made + 1 /\ chosenFor' = Append(chosenFor, ctx.objectId) /\ image = made + 1
              /\ ctx.objectId # NoObject /\ kind = "encode",
           kind = "upload" => ctx.objectId # NoObject /\ ctx.stage = "upload" /\ queue # << >> /\ image = Head(queue),
           kind = "delete" => ctx.editing # NoSample
    PROVE  PageInv'
<1>1. /\ StudioShape /\ SavedRight /\ ~fatal /\ StateFits /\ QueueFits /\ CallsFit
      /\ waiting = {} /\ loading = "nothing" /\ left = "no"
  BY DEF PageInv, MayPress
<1>2. PICK c : c = [n |-> requested', kind |-> kind, object |-> ctx.objectId, image |-> image]
  OBVIOUS
<1>3. /\ waiting' = {c} /\ requested' \in Nat
      /\ c \in PageCall /\ c.kind = kind /\ c.object = ctx.objectId /\ c.image = image
  <2>1. requested' \in Nat
    BY <1>1 DEF Sends, StudioShape
  <2>2. ctx.objectId \in SomeObject
    BY <1>1 DEF StudioShape, Context
  <2> QED BY <1>1, <1>2, <2>1, <2>2 DEF Sends, PageCall
<1>4. made' \in Nat /\ made <= made' /\ chosenFor' \in Seq(SomeObject) /\ Len(chosenFor') = made'
      /\ \A i \in 1 .. made : i \in 1 .. made' /\ chosenFor'[i] = chosenFor[i]
  <2>1. made \in Nat /\ chosenFor \in Seq(SomeObject) /\ Len(chosenFor) = made /\ ctx.objectId \in SomeObject
    BY <1>1 DEF StudioShape, Context
  <2>2. CASE UNCHANGED <<made, chosenFor>>
    BY <2>1, <2>2
  <2>3. CASE made' = made + 1 /\ chosenFor' = Append(chosenFor, ctx.objectId)
    <3>1. /\ chosenFor' \in Seq(SomeObject) /\ Len(chosenFor') = Len(chosenFor) + 1
          /\ \A i \in 1 .. Len(chosenFor) : chosenFor'[i] = chosenFor[i]
      BY <2>1, <2>3, AppendProperties
    <3> QED BY <2>1, <2>3, <3>1
  <2> QED BY <2>2, <2>3
<1>5. StudioShape'
  BY <1>1, <1>3, <1>4 DEF StudioShape
<1>6. SavedRight'
  BY <1>1, <1>4 DEF SavedRight
<1>7. \A i, o : Unsaved(i, o) => Unsaved(i, o)'
  BY <1>4 DEF Unsaved
<1>8. QueueFits'
  BY <1>1, <1>7 DEF QueueFits, Unsaved
<1>9. StateFits'
  BY <1>1 DEF StateFits
<1>10. CallFits(c)'
  <2>1. kind = "encode" => Unsaved(c.image, c.object)' /\ c.object # NoObject /\ \A k \in DOMAIN queue : queue[k] # c.image
    <3>1. CASE kind = "encode"
      <4>1. made' = made + 1 /\ chosenFor' = Append(chosenFor, ctx.objectId) /\ image = made + 1 /\ made \in Nat /\ ctx.objectId # NoObject
        BY <1>1, <3>1 DEF StudioShape
      <4>2. image \in 1 .. made' /\ chosenFor'[image] = ctx.objectId
        <5>1. chosenFor \in Seq(SomeObject) /\ Len(chosenFor) = made /\ ctx.objectId \in SomeObject
          BY <1>1 DEF StudioShape, Context
        <5> QED BY <4>1, <5>1, AppendProperties
      <4>3. \A s \in samples : s.image # image
        <5>1. \A s \in samples : s.image \in Nat
          BY <1>1 DEF StudioShape
        <5> QED BY <1>1, <4>1, <5>1 DEF SavedRight
      <4>4. \A k \in DOMAIN queue : queue[k] \in 1 .. made
        BY <1>1, <4>1 DEF QueueFits, Unsaved
      <4>5. \A k \in DOMAIN queue : queue[k] # image
        BY <4>1, <4>4
      <4> QED BY <1>3, <4>1, <4>2, <4>3, <4>5 DEF Unsaved
    <3> QED BY <3>1
  <2>2. kind = "upload" => Unsaved(c.image, c.object)' /\ c.object # NoObject /\ st = "capturing" /\ queue # << >> /\ Head(queue) = c.image
    <3>1. CASE kind = "upload"
      <4>1. 1 \in DOMAIN queue /\ Head(queue) = queue[1]
        BY <1>1, <3>1 DEF StudioShape
      <4>2. Unsaved(c.image, c.object)
        BY <1>1, <1>3, <3>1, <4>1 DEF QueueFits
      <4>3. st = "capturing"
        BY <1>1, <3>1 DEF StateFits, StudioShape, PageState
      <4> QED BY <1>3, <1>7, <3>1, <4>2, <4>3
    <3> QED BY <3>1
  <2>3. kind = "delete" => st = "reviewing"
    BY <1>1 DEF StateFits, StudioShape, PageState
  <2>4. c.kind \in {"encode", "upload", "patch", "delete", "drop"} /\ c.object = ctx.objectId
    BY <1>3
  <2> QED BY <1>3, <2>1, <2>2, <2>3, <2>4 DEF CallFits
<1>11. CallsFit'
  BY <1>1, <1>3, <1>10 DEF CallsFit
<1> QED BY <1>1, <1>5, <1>6, <1>8, <1>9, <1>11 DEF PageInv

LEMMA TableIs ==
    /\ \A s \in PageState : {"select", "save_and_return"} \subseteq Table[s]
    /\ \A s \in {"object_selected", "capturing"} : "capture" \in Table[s]
    /\ \A s \in {"object_selected", "capturing", "reviewing"} : "review" \in Table[s]
    /\ \A s \in {"capturing", "reviewing"} : "back_to_camera" \in Table[s]
    /\ "discard" \in Table["reviewing"]
BY DEF Table, PageState

\* For a user who waits: nothing is under way.
LEMMA AtRest ==
    ASSUME ~hasty, PageInv, MayPress
    PROVE  /\ waiting = {} /\ loading = "nothing" /\ left = "no"
           /\ StudioShape /\ SavedRight /\ ~fatal /\ StateFits /\ QueueFits /\ CallsFit
BY DEF MayPress, PageInv

LEMMA KeptBySelect == ASSUME ~hasty, PageInv, NEW o \in Objects, SelectObject(o) PROVE PageInv'
<1>1. /\ waiting = {} /\ loading = "nothing" /\ left = "no" /\ StudioShape
      /\ ~edited' /\ queue' = << >>
      /\ UNCHANGED <<loading, waiting, made, requested, samples, left, chosenFor, skipped, doubled>>
  BY AtRest DEF SelectObject
<1>2. "select" \in Table[st] /\ Target("select") = "object_selected"
  BY <1>1, TableIs DEF StudioShape, Target
<1>3. st' = "object_selected" /\ ctx' = FreshContext(o) /\ UNCHANGED fatal
  BY <1>2 DEF SelectObject, Dispatch
<1>4. o \in SomeObject
  BY DEF SomeObject
<1>5. ctx' \in Context /\ ctx'.stage = "camera" /\ ctx'.editing = NoSample
  BY <1>3, <1>4, FreshContextIs
<1>6. StudioShape'
  BY <1>1, <1>3, <1>5 DEF StudioShape, PageState
<1>7. StateFits'
  BY <1>1, <1>3, <1>5 DEF StateFits
<1> QED BY <1>1, <1>3, <1>6, <1>7, OnlyState

LEMMA KeptByReview == ASSUME ~hasty, PageInv, NEW s \in samples, InspectSample(s) PROVE PageInv'
<1>1. /\ waiting = {} /\ left = "no" /\ StudioShape /\ st # "browsing"
      /\ ~edited' /\ UNCHANGED <<queue, waiting, made, requested, samples, left, chosenFor, skipped, doubled>>
      /\ loading' = "inspect"
  BY AtRest DEF InspectSample
<1>2. "review" \in Table[st] /\ Target("review") = "reviewing"
  BY <1>1, TableIs DEF StudioShape, PageState, Target
<1>3. st' = "reviewing" /\ UNCHANGED fatal
      /\ ctx' = [ctx EXCEPT !.stage = "inspect", !.editing = s.image, !.pendingUploads = 0, !.dirtyInspect = FALSE]
  BY <1>2 DEF InspectSample, Dispatch
<1>4. s.image \in Nat
  BY <1>1 DEF StudioShape
<1>5. ctx' \in Context /\ ctx'.stage = "inspect" /\ ctx'.objectId = ctx.objectId
  BY <1>1, <1>3, <1>4 DEF StudioShape, Context
<1>6. StudioShape'
  BY <1>1, <1>3, <1>5 DEF StudioShape, PageState
<1>7. StateFits'
  BY <1>1, <1>3, <1>5 DEF StateFits
<1> QED BY <1>1, <1>3, <1>5, <1>6, <1>7, OnlyState

LEMMA KeptByEdit == ASSUME ~hasty, PageInv, EditSample PROVE PageInv'
<1>1. /\ waiting = {} /\ left = "no" /\ StudioShape /\ StateFits /\ ctx.stage = "inspect"
      /\ edited' /\ UNCHANGED <<st, queue, loading, waiting, made, requested, samples, left, fatal, chosenFor, skipped, doubled>>
      /\ ctx' = [ctx EXCEPT !.dirtyInspect = TRUE]
  BY AtRest DEF EditSample
<1>2. st = "reviewing"
  BY <1>1 DEF StudioShape, PageState, StateFits
<1>3. ctx' \in Context /\ ctx'.stage = ctx.stage /\ ctx'.objectId = ctx.objectId /\ ctx'.editing = ctx.editing /\ ctx'.dirtyInspect
  BY <1>1 DEF StudioShape, Context
<1>4. StudioShape'
  BY <1>1, <1>3 DEF StudioShape
<1>5. StateFits'
  BY <1>1, <1>2, <1>3 DEF StateFits
<1> QED BY <1>1, <1>3, <1>4, <1>5, OnlyState

LEMMA KeptByBack == ASSUME ~hasty, PageInv, BackToCamera PROVE PageInv'
<1>1. /\ waiting = {} /\ loading = "nothing" /\ left = "no" /\ StudioShape /\ st \in {"capturing", "reviewing"} /\ ~edited'
      /\ UNCHANGED <<queue, loading, waiting, made, requested, samples, left, chosenFor, skipped, doubled>>
  BY AtRest DEF BackToCamera
<1>2. "back_to_camera" \in Table[st] /\ Target("back_to_camera") = "object_selected"
  BY <1>1, TableIs DEF Target
<1>3. st' = "object_selected" /\ ctx' = FreshContext(ctx.objectId) /\ UNCHANGED fatal
  BY <1>2 DEF BackToCamera, Dispatch
<1>4. ctx.objectId \in SomeObject
  BY <1>1 DEF StudioShape, Context
<1>5. ctx' \in Context /\ ctx'.stage = "camera" /\ ctx'.editing = NoSample /\ ctx'.objectId = ctx.objectId
  BY <1>3, <1>4, FreshContextIs
<1>6. StudioShape'
  BY <1>1, <1>3, <1>5 DEF StudioShape, PageState
<1>7. StateFits'
  BY <1>1, <1>3, <1>5 DEF StateFits
<1> QED BY <1>1, <1>3, <1>5, <1>6, <1>7, OnlyState

LEMMA KeptByLeave == ASSUME ~hasty, PageInv, SaveAndReturn PROVE PageInv'
<1>1. /\ waiting = {} /\ left = "no" /\ StudioShape /\ left' # "no"
      /\ UNCHANGED <<queue, loading, waiting, made, requested, samples, chosenFor, skipped, doubled>>
  BY AtRest DEF SaveAndReturn, pageHistory
<1>2. "save_and_return" \in Table[st] /\ Target("save_and_return") = "browsing"
  BY <1>1, TableIs DEF StudioShape, Target
<1>3. st' = "browsing" /\ ctx' = FreshContext(NoObject) /\ UNCHANGED fatal
  BY <1>2 DEF SaveAndReturn, Dispatch
<1>4. NoObject \in SomeObject
  BY DEF SomeObject
<1>5. ctx' \in Context /\ ctx'.objectId = NoObject
  BY <1>3, <1>4, FreshContextIs
<1>6. StudioShape'
  BY <1>1, <1>3, <1>5 DEF StudioShape, PageState
<1> QED BY <1>1, <1>3, <1>5, <1>6, OnlyState

LEMMA KeptByDropped == ASSUME ~hasty, PageInv, left = "no", NEW c \in waiting, ObjectDropped(c) PROVE PageInv'
<1>1. /\ StudioShape /\ CallsFit /\ ~edited'
      /\ waiting' = waiting \ {c}
      /\ UNCHANGED <<queue, loading, made, requested, samples, left, chosenFor, skipped, doubled>>
  BY DEF ObjectDropped, PageInv
<1>2. waiting' = {} /\ loading = "nothing"
  BY <1>1 DEF CallsFit
<1>3. "save_and_return" \in Table[st] /\ Target("save_and_return") = "browsing"
  BY <1>1, TableIs DEF StudioShape, Target
<1>4. st' = "browsing" /\ ctx' = FreshContext(NoObject) /\ UNCHANGED fatal
  BY <1>3 DEF ObjectDropped, Dispatch
<1>5. NoObject \in SomeObject
  BY DEF SomeObject
<1>6. ctx' \in Context /\ ctx'.objectId = NoObject /\ ctx'.stage = "camera" /\ ctx'.editing = NoSample
  BY <1>4, <1>5, FreshContextIs
<1>7. StudioShape'
  BY <1>1, <1>2, <1>4, <1>6 DEF StudioShape, PageState
<1>8. StateFits'
  BY <1>1, <1>2, <1>4, <1>6 DEF StateFits
<1> QED BY <1>1, <1>2, <1>4, <1>6, <1>7, <1>8, OnlyState

LEMMA KeptByPatched == ASSUME ~hasty, PageInv, left = "no", NEW c \in waiting, NEW ok \in BOOLEAN, PatchAnswered(c, ok) PROVE PageInv'
<1>1. /\ StudioShape /\ StateFits /\ CallsFit
      /\ waiting' = waiting \ {c} /\ ctx' = [ctx EXCEPT !.dirtyInspect = DirtyAfterPatch(ok)]
      /\ edited' = (edited /\ ~ok)
      /\ UNCHANGED <<st, queue, loading, made, requested, samples, left, fatal, chosenFor, skipped, doubled>>
  BY DEF PatchAnswered, PageInv
<1>2. waiting' = {}
  BY <1>1 DEF CallsFit
<1>3. DirtyAfterPatch(ok) \in BOOLEAN
  BY <1>1 DEF DirtyAfterPatch, StudioShape, Context
<1>4. ctx' \in Context /\ ctx'.stage = ctx.stage /\ ctx'.objectId = ctx.objectId /\ ctx'.editing = ctx.editing
      /\ ctx'.dirtyInspect = DirtyAfterPatch(ok)
  BY <1>1, <1>3 DEF StudioShape, Context
<1>5. StudioShape'
  BY <1>1, <1>2, <1>4 DEF StudioShape
<1>6. edited' => ctx'.dirtyInspect /\ st' = "reviewing"
  BY <1>1, <1>4 DEF StateFits, DirtyAfterPatch
<1>7. StateFits'
  BY <1>1, <1>4, <1>6 DEF StateFits
<1> QED BY <1>1, <1>2, <1>4, <1>5, <1>7, OnlyState

\* discardInspect: the request under way was sent while a sample was inspected.
LEMMA KeptByDeleted == ASSUME ~hasty, PageInv, left = "no", NEW c \in waiting, NEW ok \in BOOLEAN, DeleteAnswered(c, ok) PROVE PageInv'
<1>1. /\ StudioShape /\ SavedRight /\ ~fatal /\ QueueFits /\ CallsFit /\ ~edited' /\ c.kind = "delete"
      /\ waiting' = waiting \ {c} /\ samples' \subseteq samples
      /\ UNCHANGED <<queue, loading, made, requested, left, chosenFor, skipped, doubled>>
  BY DEF DeleteAnswered, PageInv
<1>2. waiting' = {} /\ loading = "nothing" /\ st = "reviewing"
  BY <1>1 DEF CallsFit, CallFits
<1>3. "discard" \in Table[st] /\ Target("discard") = "object_selected"
  BY <1>2, TableIs DEF Target
<1>4. st' = "object_selected" /\ ctx' = FreshContext(ctx.objectId) /\ UNCHANGED fatal
  BY <1>3 DEF DeleteAnswered, Dispatch
<1>5. ctx.objectId \in SomeObject
  BY <1>1 DEF StudioShape, Context
<1>6. ctx' \in Context /\ ctx'.stage = "camera" /\ ctx'.editing = NoSample /\ ctx'.objectId = ctx.objectId
  BY <1>4, <1>5, FreshContextIs
<1>7. StudioShape'
  BY <1>1, <1>2, <1>4, <1>6 DEF StudioShape, PageState
<1>8. StateFits'
  BY <1>1, <1>2, <1>4, <1>6 DEF StateFits
<1>9. SavedRight'
  BY <1>1 DEF SavedRight
<1>10. QueueFits'
  <2>1. \A i, o : Unsaved(i, o) => Unsaved(i, o)'
    BY <1>1 DEF Unsaved
  <2> QED BY <1>1, <1>6, <2>1 DEF QueueFits, Unsaved
<1>11. CallsFit'
  BY <1>2 DEF CallsFit
<1> QED BY <1>1, <1>4, <1>7, <1>8, <1>9, <1>10, <1>11 DEF PageInv

LEMMA KeptByImage == ASSUME ~hasty, PageInv, ImageLoads \/ ImageFails PROVE PageInv'
<1>1. /\ StudioShape /\ StateFits /\ CallsFit /\ loading # "nothing" /\ loading' = "nothing" /\ left = "no"
      /\ UNCHANGED <<queue, waiting, made, requested, samples, left, chosenFor, skipped, doubled, edited>>
  BY DEF ImageLoads, ImageFails, PageInv, pageHistory
<1>2. waiting' = {}
  BY <1>1 DEF CallsFit
<1>3. CASE UNCHANGED <<st, ctx, fatal>>
  <2>1. StudioShape' /\ StateFits'
    BY <1>1, <1>3 DEF StudioShape, StateFits
  <2> QED BY <1>1, <1>2, <1>3, <2>1, OnlyState
<1>4. CASE loading = "upload" /\ ImageLoads
  <2>1. st \in {"object_selected", "capturing"} /\ ~edited
    BY <1>1, <1>4 DEF StateFits
  <2>2. "capture" \in Table[st] /\ Target("capture") = "capturing"
    BY <2>1, TableIs DEF Target
  <2>3. st' = "capturing" /\ UNCHANGED fatal
        /\ ctx' = [ctx EXCEPT !.stage = "upload", !.editing = NoSample,
                       !.pendingUploads = AtLeastOne(Len(queue)), !.dirtyInspect = FALSE]
    BY <1>4, <2>2 DEF ImageLoads, Dispatch
  <2>4. AtLeastOne(Len(queue)) \in Nat /\ NoSample \in Nat
    BY <1>1, PageAssumption DEF AtLeastOne, StudioShape, NoSample
  <2>5. ctx' \in Context /\ ctx'.stage = "upload" /\ ctx'.editing = NoSample /\ ctx'.objectId = ctx.objectId
    BY <1>1, <2>3, <2>4 DEF StudioShape, Context
  <2>6. StudioShape'
    BY <1>1, <1>2, <2>3, <2>5 DEF StudioShape, PageState
  <2>7. StateFits'
    BY <1>1, <2>1, <2>3, <2>5 DEF StateFits
  <2> QED BY <1>1, <1>2, <2>3, <2>5, <2>6, <2>7, OnlyState
<1> QED BY <1>3, <1>4 DEF ImageLoads, ImageFails

LEMMA KeptBySend ==
    ASSUME ~hasty, PageInv, Shoot \/ SaveUpload \/ SaveInspect \/ DiscardSample \/ DeleteObject
    PROVE  PageInv'
<1>1. NoSample \in Nat
  BY PageAssumption DEF NoSample
<1>2. CASE Shoot
  <2>1. made + 1 \in Nat /\ MayPress
    BY <1>2, AtRest DEF StudioShape, Shoot
  <2> QED BY <1>2, <2>1, OnlySends DEF Shoot
<1>3. CASE SaveUpload
  <2>1. MayPress /\ queue # << >>
    BY <1>3 DEF SaveUpload
  <2>2. Head(queue) \in Nat
    BY <2>1, AtRest DEF StudioShape
  <2> QED BY <1>3, <2>1, <2>2, OnlySends DEF SaveUpload, pageHistory
<1>4. CASE SaveInspect
  <2>1. MayPress
    BY <1>4 DEF SaveInspect
  <2>2. ctx.editing \in Nat
    BY <2>1, AtRest DEF StudioShape, Context
  <2> QED BY <1>4, <2>1, <2>2, OnlySends DEF SaveInspect, pageHistory
<1>5. CASE DiscardSample
  <2>1. MayPress
    BY <1>5 DEF DiscardSample
  <2>2. ctx.editing \in Nat
    BY <2>1, AtRest DEF StudioShape, Context
  <2> QED BY <1>5, <2>1, <2>2, OnlySends DEF DiscardSample, pageHistory
<1>6. CASE DeleteObject
  BY <1>1, <1>6, OnlySends DEF DeleteObject, pageHistory
<1> QED BY <1>2, <1>3, <1>4, <1>5, <1>6

LEMMA KeptByChoose == ASSUME ~hasty, PageInv, NEW n \in 1 .. 2, ChooseFiles(n) PROVE PageInv'
<1>1. /\ waiting = {} /\ left = "no" /\ StudioShape /\ SavedRight /\ ~fatal /\ StateFits /\ QueueFits
      /\ st # "browsing" /\ ctx.stage # "inspect"
  BY AtRest DEF ChooseFiles
<1>2. /\ queue' = [i \in 1 .. n |-> made + i] /\ made' = made + n /\ loading' = "upload"
      /\ chosenFor' = chosenFor \o [i \in 1 .. n |-> ctx.objectId]
      /\ UNCHANGED <<st, ctx, waiting, requested, samples, left, fatal, skipped, doubled, edited>>
  BY DEF ChooseFiles
<1>3. st \in {"object_selected", "capturing"}
  BY <1>1 DEF StudioShape, PageState, StateFits
<1>4. made \in Nat /\ chosenFor \in Seq(SomeObject) /\ Len(chosenFor) = made /\ ctx.objectId \in SomeObject /\ n \in Nat
  BY <1>1 DEF StudioShape, Context
<1> DEFINE more == [i \in 1 .. n |-> ctx.objectId]
<1>5. more \in Seq(SomeObject) /\ Len(more) = n /\ \A i \in 1 .. n : more[i] = ctx.objectId
  BY <1>4, IsASeq
<1>6. queue' \in Seq(Nat) /\ Len(queue') = n /\ \A i \in 1 .. n : queue'[i] = made + i
  <2>1. \A i \in 1 .. n : made + i \in Nat
    BY <1>4
  <2> QED BY <1>2, <1>4, <2>1, IsASeq
<1> HIDE DEF more
<1>7. /\ chosenFor' \in Seq(SomeObject) /\ Len(chosenFor') = made + n
      /\ \A i \in 1 .. made + n : chosenFor'[i] = IF i <= made THEN chosenFor[i] ELSE more[i - made]
  <2>1. chosenFor' = chosenFor \o more
    BY <1>2 DEF more
  <2> QED BY <1>4, <1>5, <2>1, ConcatProperties
<1>8. \A i \in 1 .. made : i \in 1 .. made' /\ chosenFor'[i] = chosenFor[i]
  BY <1>2, <1>4, <1>7
<1>9. StudioShape'
  <2>1. made' \in Nat /\ Len(chosenFor') = made'
    BY <1>2, <1>4, <1>7
  <2> QED BY <1>1, <1>2, <1>6, <1>7, <2>1 DEF StudioShape
<1>10. SavedRight'
  BY <1>1, <1>2, <1>8 DEF SavedRight
<1>11. StateFits'
  BY <1>1, <1>2, <1>3 DEF StateFits
<1>12. QueueFits'
  <2>1. \A k \in 1 .. n : queue'[k] \in 1 .. made' /\ chosenFor'[queue'[k]] = ctx.objectId
    <3> SUFFICES ASSUME NEW k \in 1 .. n
                 PROVE  queue'[k] \in 1 .. made' /\ chosenFor'[queue'[k]] = ctx.objectId
      OBVIOUS
    <3>1. k \in Nat /\ queue'[k] = made + k /\ made + k \in 1 .. made + n /\ ~(made + k <= made) /\ (made + k) - made = k
      BY <1>4, <1>6
    <3>2. chosenFor'[made + k] = more[k]
      BY <1>7, <3>1
    <3> QED BY <1>2, <1>5, <3>1, <3>2
  <2>2. \A k \in 1 .. n : \A s \in samples : s.image # queue'[k]
    <3>1. \A s \in samples : s.image \in Nat /\ s.image <= made
      BY <1>1, <1>4 DEF SavedRight, StudioShape
    <3>2. \A k \in 1 .. n : queue'[k] > made
      BY <1>4, <1>6
    <3> QED BY <1>4, <3>1, <3>2
  <2>3. \A j, k \in 1 .. n : queue'[j] = queue'[k] => j = k
    BY <1>4, <1>6
  <2>4. DOMAIN queue' = 1 .. n
    BY <1>6
  <2> QED BY <1>2, <2>1, <2>2, <2>3, <2>4 DEF QueueFits, Unsaved
<1>13. CallsFit'
  BY <1>1, <1>2 DEF CallsFit
<1> QED BY <1>1, <1>2, <1>9, <1>10, <1>11, <1>12, <1>13 DEF PageInv

\* postSample reads the object only when the image is encoded; a user who waits has
\* not chosen another meanwhile.
LEMMA KeptByEncoded == ASSUME ~hasty, PageInv, left = "no", NEW c \in waiting, Encoded(c) PROVE PageInv'
<1>1. /\ StudioShape /\ SavedRight /\ ~fatal /\ StateFits /\ QueueFits /\ CallsFit /\ c.kind = "encode"
      /\ waiting' = (waiting \ {c}) \cup {[c EXCEPT !.kind = "shot", !.object = ctx.objectId]}
      /\ UNCHANGED <<st, ctx, queue, loading, made, requested, samples, left, fatal, chosenFor, skipped, doubled, edited>>
  BY DEF Encoded, PageInv, pageHistory
<1>2. waiting = {c} /\ c \in PageCall /\ CallFits(c) /\ loading = "nothing"
  BY <1>1 DEF CallsFit, StudioShape
<1>3. PICK d : d = [c EXCEPT !.kind = "shot", !.object = ctx.objectId]
  OBVIOUS
<1>4. ctx.objectId \in SomeObject
  BY <1>1 DEF StudioShape, Context
<1>5. waiting' = {d} /\ d \in PageCall /\ d.kind = "shot" /\ d.object = ctx.objectId /\ d.image = c.image
  BY <1>1, <1>2, <1>3, <1>4 DEF PageCall
<1>6. StudioShape'
  BY <1>1, <1>5 DEF StudioShape
<1>7. SavedRight' /\ StateFits' /\ QueueFits'
  BY <1>1 DEF SavedRight, StateFits, QueueFits, Unsaved
<1>8. CallFits(d)'
  <2>1. c.object = ctx.objectId /\ c.object # NoObject /\ Unsaved(c.image, c.object) /\ \A k \in DOMAIN queue : queue[k] # c.image
    BY <1>1, <1>2 DEF CallFits
  <2>2. Unsaved(d.image, d.object)'
    BY <1>1, <1>5, <2>1 DEF Unsaved
  <2> QED BY <1>1, <1>5, <2>1, <2>2 DEF CallFits
<1>9. CallsFit'
  BY <1>1, <1>2, <1>5, <1>8 DEF CallsFit
<1> QED BY <1>1, <1>6, <1>7, <1>9 DEF PageInv

\* The answer to a new sample: the image saved is the head of the queue, or was shot.
LEMMA KeptByPosted == ASSUME ~hasty, PageInv, left = "no", NEW c \in waiting, NEW ok \in BOOLEAN, PostAnswered(c, ok) PROVE PageInv'
<1>1. /\ StudioShape /\ SavedRight /\ ~fatal /\ StateFits /\ QueueFits /\ CallsFit /\ c.kind \in {"shot", "upload"}
      /\ waiting' = waiting \ {c} /\ UNCHANGED <<made, requested, left, chosenFor, edited>>
      /\ samples' = IF ok THEN samples \cup {[object |-> c.object, image |-> c.image]} ELSE samples
      /\ doubled' = (doubled \/ (ok /\ \E s \in samples : s.image = c.image))
  BY DEF PostAnswered, PageInv
<1>2. waiting = {c} /\ waiting' = {} /\ c \in PageCall /\ CallFits(c) /\ loading = "nothing"
  BY <1>1 DEF CallsFit, StudioShape
<1>3. /\ c.object = ctx.objectId /\ c.object # NoObject /\ Unsaved(c.image, c.object)
      /\ c.kind = "shot" => (\A k \in DOMAIN queue : queue[k] # c.image)
      /\ c.kind = "upload" => st = "capturing" /\ queue # << >> /\ Head(queue) = c.image
  BY <1>1, <1>2 DEF CallFits
<1>4. samples' \subseteq [object : Objects, image : Nat]
  <2>1. c.object \in Objects /\ c.image \in Nat
    BY <1>2, <1>3 DEF PageCall, SomeObject
  <2> QED BY <1>1, <2>1 DEF StudioShape
<1>5. ~doubled' /\ \A s \in samples' : s \in samples \/ (ok /\ s.image = c.image /\ s.object = chosenFor[s.image])
  <2>1. ~doubled'
    BY <1>1, <1>3 DEF SavedRight, Unsaved
  <2>2. ASSUME NEW s \in samples', s \notin samples PROVE ok /\ s.image = c.image /\ s.object = chosenFor[s.image]
    <3>1. ok /\ s = [object |-> c.object, image |-> c.image]
      BY <1>1, <2>2
    <3>2. s.image = c.image /\ s.object = c.object
      BY <3>1
    <3> QED BY <1>3, <3>1, <3>2 DEF Unsaved
  <2> QED BY <2>1, <2>2
<1>6. \A s \in samples' : s.image > 0 => s.image \in 1 .. made' /\ s.object = chosenFor'[s.image]
  BY <1>1, <1>3, <1>5 DEF SavedRight, Unsaved
<1>7. CallsFit'
  BY <1>2 DEF CallsFit
<1>8. \A i, o : Unsaved(i, o) /\ (i # c.image \/ ~ok) => Unsaved(i, o)'
  BY <1>1, <1>5 DEF Unsaved
<1>9. CASE ~(c.kind = "upload" /\ ok)
  <2>1. UNCHANGED <<queue, skipped, ctx, loading, st, fatal>>
    BY <1>9 DEF PostAnswered, OnlyIfSaved
  <2>2. StudioShape' /\ StateFits'
    BY <1>1, <1>2, <1>4, <2>1 DEF StudioShape, StateFits
  <2>3. SavedRight'
    BY <1>1, <1>5, <1>6, <2>1 DEF SavedRight
  <2>4. QueueFits'
    <3>1. ctx.objectId # NoObject => \A k \in DOMAIN queue : Unsaved(queue[k], ctx.objectId) /\ (queue[k] # c.image \/ ~ok)
      BY <1>1, <1>3, <1>9 DEF QueueFits
    <3>2. ctx.objectId # NoObject => \A k \in DOMAIN queue : Unsaved(queue[k], ctx.objectId)'
      BY <1>8, <3>1, <2>1 DEF Unsaved
    <3> QED BY <1>1, <2>1, <3>2 DEF QueueFits, Unsaved
  <2> QED BY <1>1, <1>7, <2>1, <2>2, <2>3, <2>4 DEF PageInv
<1>10. CASE c.kind = "upload" /\ ok
  <2>1. st = "capturing" /\ queue # << >> /\ Head(queue) = c.image /\ ~edited /\ ctx \in Context /\ queue \in Seq(Nat)
    BY <1>1, <1>3, <1>10 DEF StateFits, StudioShape
  <2>2. queue' = Tail(queue) /\ skipped' = skipped
    <3>1. [object |-> c.object, image |-> c.image] \in samples'
      BY <1>1, <1>10
    <3>2. \E s \in samples' : s.image = Head(queue)
      BY <2>1, <3>1
    <3> QED BY <1>10, <2>1, <3>2 DEF PostAnswered, OnlyIfSaved
  <2>3. queue' \in Seq(Nat) /\ DOMAIN queue' = 1 .. Len(queue) - 1 /\ \A k \in DOMAIN queue' : k + 1 \in DOMAIN queue /\ queue'[k] = queue[k + 1]
        /\ 1 \in DOMAIN queue /\ queue[1] = c.image
    <3>1. Len(queue) \in Nat /\ Len(queue) # 0
      BY <2>1, EmptySeq
    <3> QED BY <2>1, <2>2, <3>1
  <2>4. /\ \A k \in DOMAIN queue' : queue'[k] \in 1 .. made /\ chosenFor[queue'[k]] = ctx.objectId /\ \A s \in samples' : s.image # queue'[k]
        /\ \A j, k \in DOMAIN queue' : queue'[j] = queue'[k] => j = k
    <3>1. \A k \in DOMAIN queue' : k \in Nat /\ k >= 1
      <4>1. Len(queue) - 1 \in Int
        BY <2>1
      <4> QED BY <2>3, <4>1
    <3>2. ASSUME NEW j \in DOMAIN queue', NEW k \in DOMAIN queue', queue'[j] = queue'[k] PROVE j = k
      <4>1. j + 1 = k + 1
        BY <1>1, <2>3, <3>2 DEF QueueFits
      <4> QED BY <3>1, <4>1
    <3>3. ASSUME NEW k \in DOMAIN queue' PROVE queue'[k] \in 1 .. made /\ chosenFor[queue'[k]] = ctx.objectId /\ \A s \in samples' : s.image # queue'[k]
      <4>1. k + 1 # 1
        BY <3>1
      <4>2. queue[k + 1] # c.image
        BY <1>1, <2>3, <4>1 DEF QueueFits
      <4>3. Unsaved(queue[k + 1], ctx.objectId)
        BY <1>1, <1>3, <2>3 DEF QueueFits
      <4> QED BY <1>5, <2>3, <4>2, <4>3 DEF Unsaved
    <3> QED BY <3>2, <3>3
  <2>5. SavedRight'
    BY <1>1, <1>5, <1>6, <2>2 DEF SavedRight
  <2>6. CASE queue' # << >>
    <3>1. ctx' = [ctx EXCEPT !.pendingUploads = Len(queue')] /\ loading' = "upload" /\ UNCHANGED <<st, fatal>>
      BY <1>10, <2>6 DEF PostAnswered, OnlyIfSaved
    <3>2. Len(queue') \in Nat
      BY <2>3
    <3>3. ctx' \in Context /\ ctx'.stage = ctx.stage /\ ctx'.objectId = ctx.objectId /\ ctx'.editing = ctx.editing
      BY <2>1, <3>1, <3>2 DEF Context
    <3>4. StudioShape' /\ StateFits'
      BY <1>1, <1>2, <1>4, <2>1, <2>3, <3>1, <3>3 DEF StudioShape, StateFits
    <3>5. QueueFits'
      BY <1>1, <2>4, <3>3 DEF QueueFits, Unsaved
    <3> QED BY <1>1, <1>7, <2>5, <3>1, <3>4, <3>5 DEF PageInv
  <2>7. CASE queue' = << >>
    <3>1. "back_to_camera" \in Table[st] /\ Target("back_to_camera") = "object_selected"
      BY <2>1, TableIs DEF Target
    <3>2. st' = "object_selected" /\ ctx' = FreshContext(ctx.objectId) /\ UNCHANGED <<fatal, loading>>
      BY <1>10, <2>1, <2>7, <3>1 DEF PostAnswered, OnlyIfSaved, Dispatch
    <3>3. ctx.objectId \in SomeObject
      BY <2>1 DEF Context
    <3>4. ctx' \in Context /\ ctx'.stage = "camera" /\ ctx'.editing = NoSample /\ ctx'.objectId = ctx.objectId
      BY <3>2, <3>3, FreshContextIs
    <3>5. StudioShape'
      BY <1>1, <1>2, <1>4, <2>3, <3>2, <3>4 DEF StudioShape, PageState
    <3>6. StateFits'
      BY <1>1, <1>2, <2>1, <3>2, <3>4 DEF StateFits
    <3>7. QueueFits'
      BY <2>7 DEF QueueFits
    <3> QED BY <1>1, <1>7, <2>5, <3>2, <3>5, <3>6, <3>7 DEF PageInv
  <2> QED BY <2>6, <2>7
<1> QED BY <1>9, <1>10

LEMMA PageInvStep == PageInv /\ [PageNext]_pageVars => PageInv'
<1> SUFFICES ASSUME PageInv, [PageNext]_pageVars
             PROVE  PageInv'
  OBVIOUS
<1>1. hasty' = hasty
  BY DEF PageNext, pageVars, SelectObject, ChooseFiles, ImageLoads, ImageFails, Shoot, SaveUpload, SaveInspect, EditSample,
         DiscardSample, BackToCamera, DeleteObject, SaveAndReturn, InspectSample, Encoded, ObjectDropped, PostAnswered,
         PatchAnswered, DeleteAnswered
<1>2. CASE hasty
  BY <1>1, <1>2 DEF PageInv
<1>3. CASE ~hasty /\ UNCHANGED pageVars
  BY <1>3 DEF PageInv, pageVars, StudioShape, SavedRight, StateFits, QueueFits, Unsaved, CallsFit, CallFits
<1>4. CASE ~hasty /\ PageNext
  <2>1. ASSUME NEW c \in waiting, left = "no", Encoded(c) \/ ObjectDropped(c)
        PROVE  PageInv'
    BY <1>4, <2>1, KeptByEncoded, KeptByDropped
  <2>2. ASSUME NEW c \in waiting, left = "no", NEW ok \in BOOLEAN,
               PostAnswered(c, ok) \/ PatchAnswered(c, ok) \/ DeleteAnswered(c, ok)
        PROVE  PageInv'
    BY <1>4, <2>2, KeptByPosted, KeptByPatched, KeptByDeleted
  <2> QED BY <1>4, <2>1, <2>2, KeptBySelect, KeptByChoose, KeptByImage, KeptBySend, KeptByEdit, KeptByBack, KeptByLeave, KeptByReview
          DEF PageNext
<1> QED BY <1>2, <1>3, <1>4

\* For a user who acts only when the page is at rest: every image chosen or shot is saved
\* once, under the object it was taken for, and none leaves the upload queue unsaved; no
\* handler asks for a transition the state machine lacks; an unsaved edit is pending, so
\* that leaving warns of it.
THEOREM StudioPageKeepsWork == PageSpec => []PageKeepsWork
<1>1. PageInit => PageInv
  BY PageInvInit
<1>2. PageInv /\ [PageNext]_pageVars => PageInv'
  BY PageInvStep
<1>3. PageInv => PageKeepsWork
  <2> SUFFICES ASSUME PageInv, ~hasty
               PROVE  UploadsKeepTheirObject /\ NeverThrows /\ EditsArePending
    BY DEF PageKeepsWork, UploadsKeepTheirObject, NeverThrows, EditsArePending
  <2>1. UploadsKeepTheirObject /\ NeverThrows
    BY DEF PageInv, SavedRight, UploadsKeepTheirObject, NeverThrows
  <2>2. EditsArePending
    BY DEF PageInv, StateFits, EditsArePending, HasPending
  <2> QED BY <2>1, <2>2
<1> QED BY <1>1, <1>2, <1>3, PTL DEF PageSpec

---------------------------------------------------------------------------
(* The panel of a bulk upload.                                             *)

\* The numbers of a set of images have a least.
LEMMA FirstImage ==
    ASSUME NEW S, \A i \in S : i[2] \in Nat, S # {}
    PROVE  \E i \in S : \A j \in S : i[2] <= j[2]
<1> DEFINE T == {i[2] : i \in S}
           R == OpToRel(<, Nat)
<1>1. T \subseteq Nat /\ T # {}
  OBVIOUS
<1> HIDE DEF T
<1>2. PICK m \in T : \A y \in T : ~ (<<y, m>> \in R)
  BY <1>1, WFMin, NatLessThanWellFounded
<1>3. \A x, y \in Nat : x < y => <<x, y>> \in R
  BY DEF OpToRel
<1> HIDE DEF R
<1>4. \A y \in T : y \in Nat /\ m \in Nat /\ ~ (y < m)
  BY <1>1, <1>2, <1>3
<1>5. \A y \in T : m <= y
  BY <1>4
<1> USE DEF T
<1>6. PICK i \in S : m = i[2]
  OBVIOUS
<1> QED BY <1>5, <1>6

\* The k-th image of a batch is one of its images.
LEMMA NthIsThere ==
    ASSUME NEW b, NEW S \in SUBSET ({b} \X Nat), IsFiniteSet(S), NEW k \in 1 .. Cardinality(S)
    PROVE  Nth(S, k) \in S
<1> DEFINE Below(i) == {j \in S : j[2] < i[2]}
           Ranked(n) == \E i \in S : Cardinality(Below(i)) = n - 1
           Bad == {n \in 1 .. Cardinality(S) : ~ Ranked(n)}
           R == OpToRel(<, Nat)
<1>1. Cardinality(S) \in Nat
  BY FS_CardinalityType
<1>2. \A i \in S : i[1] = b /\ i[2] \in Nat /\ i = <<i[1], i[2]>>
  OBVIOUS
<1>3. Bad = {}
  <2>1. SUFFICES ASSUME Bad # {}
                 PROVE  FALSE
    OBVIOUS
  <2>2. Bad \subseteq Nat
    BY <1>1
  <2>3. PICK n \in Bad : \A y \in Bad : ~ (<<y, n>> \in R)
    <3> HIDE DEF Bad
    <3> QED BY <2>1, <2>2, WFMin, NatLessThanWellFounded
  <2>4. \A x, y \in Nat : x < y => <<x, y>> \in R
    BY DEF OpToRel
  <2> HIDE DEF R
  <2>5. n \in 1 .. Cardinality(S) /\ ~ Ranked(n)
    OBVIOUS
  <2>6. n - 1 \notin Bad
    <3>1. n \in Nat /\ n - 1 < n
      BY <1>1, <2>5
    <3> QED BY <2>2, <2>3, <2>4, <3>1
  <2> HIDE DEF Bad
  <2>7. PICK A \in SUBSET S : /\ IsFiniteSet(A) /\ Cardinality(A) = n - 1
                              /\ \A j \in S \ A, i \in A : i[2] < j[2]
    <3>1. CASE n = 1
      <4> DEFINE E == {}
      <4>1. IsFiniteSet(E) /\ Cardinality(E) = 0
        BY FS_EmptySet
      <4>2. E \in SUBSET S /\ \A j \in S \ E, i \in E : i[2] < j[2]
        OBVIOUS
      <4> HIDE DEF E
      <4>3. Cardinality(E) = n - 1
        BY <3>1, <4>1
      <4> QED BY <4>1, <4>2, <4>3
    <3>2. CASE n # 1
      <4>1. n - 1 \in 1 .. Cardinality(S)
        BY <1>1, <2>5, <3>2
      <4>2. Ranked(n - 1)
        BY <2>6, <4>1 DEF Bad
      <4>3. PICK i \in S : Cardinality(Below(i)) = n - 1 - 1
        BY <4>2
      <4> DEFINE B == Below(i)
                 A == B \cup {i}
      <4>4. IsFiniteSet(B)
        BY FS_Subset
      <4>5. i \notin B /\ B \in SUBSET S
        BY <1>2
      <4>6. \A j \in S \ A, x \in A : x[2] < j[2]
        <5>1. SUFFICES ASSUME NEW j \in S \ A, NEW x \in A
                       PROVE  x[2] < j[2]
          OBVIOUS
        <5>2. j \in S /\ j # i /\ ~ (j[2] < i[2])
          OBVIOUS
        <5>3. j[2] # i[2]
          BY <1>2, <5>2
        <5>4. i[2] < j[2]
          BY <1>2, <5>2, <5>3
        <5>5. x = i \/ x[2] < i[2]
          OBVIOUS
        <5>6. x \in S
          OBVIOUS
        <5>7. x[2] \in Nat /\ i[2] \in Nat /\ j[2] \in Nat
          BY <1>2, <5>2, <5>6
        <5> QED BY <5>4, <5>5, <5>7
      <4> HIDE DEF B
      <4>7. IsFiniteSet(A) /\ Cardinality(A) = Cardinality(B) + 1
        BY <4>4, <4>5, FS_AddElement
      <4>8. Cardinality(B) = n - 1 - 1
        BY <4>3 DEF B
      <4>9. Cardinality(A) = n - 1
        BY <1>1, <2>5, <4>7, <4>8
      <4>10. A \in SUBSET S
        BY <4>5
      <4> HIDE DEF A
      <4> QED BY <4>6, <4>7, <4>9, <4>10
    <3> QED BY <3>1, <3>2
  <2>8. S \ A # {}
    <3>1. A # S
      BY <1>1, <2>5, <2>7
    <3> QED BY <3>1
  <2> DEFINE D == S \ A
  <2>9. D # {} /\ \A i \in D : i[2] \in Nat
    BY <1>2, <2>8
  <2> HIDE DEF D
  <2>10. PICK i \in D : \A j \in D : i[2] <= j[2]
    BY <2>9, FirstImage
  <2>11. i \in S \ A /\ \A j \in S \ A : i[2] <= j[2]
    BY <2>10 DEF D
  <2>12. Below(i) = A
    <3>1. A \subseteq Below(i)
      BY <2>7, <2>11
    <3>2. ASSUME NEW j \in Below(i)
          PROVE  j \in A
      <4>1. j \in S /\ j[2] < i[2] /\ j[2] \in Nat /\ i[2] \in Nat
        BY <1>2, <2>11
      <4>2. ~ (i[2] <= j[2])
        BY <4>1
      <4> QED BY <2>11, <4>1, <4>2
    <3> QED BY <3>1, <3>2
  <2> QED BY <2>5, <2>7, <2>11, <2>12
<1>4. Ranked(k)
  BY <1>3
<1> QED BY <1>4 DEF Nth

\* The user who waits, and closes the panel before the next upload.
Waits == ~rushed /\ tidy /\ refused = 0
Ours(c) == c.kind \notin {"poll", "polled"}
Here == InBatch(batchId)

Pairs == Nat \X Nat
PanelItem == {i \in [id : Pairs, box : Pairs, confirmed : BOOLEAN] : i.box \in {NoBox, i.id}}
CallKinds == {"upload", "patch", "unbox", "save", "discard", "poll", "refresh", "polled", "refreshed"}
CallSet == [kind : CallKinds, batch : Nat, item : PanelItem, box : Pairs,
            then : {"nothing", "open", "step", "accept", "save"}, to : Nat,
            current : BOOLEAN, answer : Seq(PanelItem)]

\* The items of the images S, in their order.
PanelInOrder(S, s) == /\ s \in Seq(PanelItem) /\ Len(s) = Cardinality(S)
                 /\ \A k \in 1 .. Len(s) : s[k].id = Nth(S, k) /\ s[k].id \in S

\* The server's side: a batch that the panel shows still has images.
StagedSound ==
    /\ uploaded \in Nat /\ batchId \in 0 .. uploaded
    /\ Staged \subseteq (1 .. uploaded) \X (1 .. BatchSize)
    /\ \A i \in Staged : stagedItems[i] \in [box : {NoBox, i}, confirmed : BOOLEAN]
    /\ batchId # 0 => Here # {}

\* The panel: its items are the batch's, in order, until some were committed; an
\* unsaved edit is of the open image, which is on the screen.
PanelSound ==
    /\ position \in Nat /\ items \in Seq(PanelItem) /\ dirty \in BOOLEAN /\ reviewing \in BOOLEAN
    /\ batchId = 0 => position = 0 /\ ~reviewing
    /\ reviewing => position \in 1 .. Len(items)
    /\ batchId # 0 => \/ items = << >>
                      \/ PanelInOrder(Here, items)
                      \/ \E c \in calls : c.kind \in {"refresh", "refreshed"}
    /\ (dirty /\ position # 0) => position \in 1 .. Len(items) /\ onScreen = items[position].id
    /\ onScreen \in Pairs /\ box = onScreen /\ onScreen \in reviewed \cup {NoBox}
    /\ imageOf.item \in PanelItem
    /\ imageOf # NoImage => (\A c \in calls : ~ Ours(c)) /\ reviewing /\ batchId # 0 /\ ~dirty

\* What is asked of the server: one thing at a time besides the poll, and an edit
\* is of an image that was shown and is still there.
CallSound(c) ==
    /\ c.kind = "upload" => batchId = 0 /\ calls = {c}
    /\ (Ours(c) /\ c.kind # "upload") => batchId # 0
    /\ batchId # 0 => c.batch = batchId
    /\ (batchId # 0 /\ c.kind \in {"polled", "refreshed"}) => PanelInOrder(Here, c.answer)
    /\ c.kind \in {"save", "refresh", "refreshed"} => calls = {c} /\ (dirty => position = 0)
    /\ c.kind = "patch" => /\ items # << >> /\ c.item.id \in Here /\ c.box = c.item.id
                           /\ c.item.id \in reviewed /\ c.then # "nothing"
                           /\ c.then = "save" => calls = {c}
                           /\ c.then \in {"step", "accept"} => reviewing

CallsSound ==
    /\ calls \subseteq CallSet
    /\ \A c, d \in calls : Ours(c) /\ Ours(d) => c = d
    /\ \A c \in calls : CallSound(c)

ConfirmedSound == \A c \in confirmed : c[1] = c[2] /\ c[1] \in reviewed

Reviewed == StagedSound /\ PanelSound /\ CallsSound /\ ConfirmedSound

ReviewerInv == refused \in Nat /\ (Waits => Reviewed)

LEMMA PanelConstants == BatchSize \in Nat \ {0}
BY ReviewerAssumption

LEMMA NoItemIsPanelItem == NoBox \in Pairs /\ NoItem \in PanelItem /\ NoImage.item = NoItem
BY DEF NoBox, Pairs, NoItem, PanelItem, NoImage

\* The images of a batch are finitely many, and not one of them is NoBox.
LEMMA ImagesOfBatch ==
    ASSUME StagedSound, NEW b
    PROVE  /\ InBatch(b) \in SUBSET ({b} \X Nat) /\ IsFiniteSet(InBatch(b))
           /\ InBatch(b) \subseteq Pairs /\ NoBox \notin InBatch(b) /\ InBatch(b) \subseteq Staged
           /\ Cardinality(InBatch(b)) \in Nat
           /\ InBatch(b) # {} => Cardinality(InBatch(b)) # 0
<1>1. uploaded \in Nat /\ BatchSize \in Nat
  BY PanelConstants DEF StagedSound
<1>2. Staged \subseteq (1 .. uploaded) \X (1 .. BatchSize)
  BY DEF StagedSound
<1> DEFINE U == (1 .. uploaded) \X (1 .. BatchSize)
<1>3. IsFiniteSet(U)
  <2>1. IsFiniteSet(1 .. uploaded) /\ IsFiniteSet(1 .. BatchSize)
    BY <1>1, FS_Interval
  <2> QED BY <2>1, FS_Product
<1>4. InBatch(b) \in SUBSET U
  BY <1>2 DEF InBatch
<1>5. IsFiniteSet(InBatch(b))
  <2> HIDE DEF U
  <2> QED BY <1>3, <1>4, FS_Subset
<1>6. \A i \in InBatch(b) : i[1] = b /\ i \in Nat \X Nat /\ i[1] # 0
  BY <1>1, <1>4 DEF InBatch
<1>7. InBatch(b) \in SUBSET ({b} \X Nat) /\ InBatch(b) \subseteq Pairs /\ NoBox \notin InBatch(b)
  BY <1>6 DEF Pairs, NoBox
<1>8. InBatch(b) \subseteq Staged
  BY DEF InBatch
<1>9. Cardinality(InBatch(b)) \in Nat
  BY <1>5, FS_CardinalityType
<1>10. InBatch(b) # {} => Cardinality(InBatch(b)) # 0
  BY <1>5, FS_EmptySet
<1> QED BY <1>5, <1>7, <1>8, <1>9, <1>10

\* What the server answers to a poll.
LEMMA ItemsAreInOrder ==
    ASSUME StagedSound, NEW b
    PROVE  PanelInOrder(InBatch(b), ItemsOf(b))
<1> DEFINE S == InBatch(b)
           item(k) == [id |-> Nth(S, k), box |-> stagedItems[Nth(S, k)].box,
                       confirmed |-> stagedItems[Nth(S, k)].confirmed]
<1>1. /\ S \in SUBSET ({b} \X Nat) /\ IsFiniteSet(S) /\ S \subseteq Pairs /\ S \subseteq Staged
      /\ Cardinality(S) \in Nat
  BY ImagesOfBatch
<1>2. ItemsOf(b) = [k \in 1 .. Cardinality(S) |-> item(k)]
  BY DEF ItemsOf
<1> HIDE DEF S
<1>3. \A k \in 1 .. Cardinality(S) : Nth(S, k) \in S
  BY <1>1, NthIsThere
<1>4. \A k \in 1 .. Cardinality(S) : item(k) \in PanelItem
  <2>1. SUFFICES ASSUME NEW k \in 1 .. Cardinality(S)
                 PROVE  item(k) \in PanelItem
    OBVIOUS
  <2>2. PICK i \in S : i = Nth(S, k)
    BY <1>3
  <2>3. i \in Staged /\ i \in Pairs
    BY <1>1
  <2>4. stagedItems[i] \in [box : {NoBox, i}, confirmed : BOOLEAN]
    BY <2>3 DEF StagedSound
  <2>5. stagedItems[i].box \in {NoBox, i} /\ stagedItems[i].confirmed \in BOOLEAN
    BY <2>4
  <2> QED BY <2>2, <2>3, <2>5, NoItemIsPanelItem DEF PanelItem
<1> HIDE DEF item
<1>5. ItemsOf(b) \in Seq(PanelItem) /\ Len(ItemsOf(b)) = Cardinality(S)
  BY <1>1, <1>2, <1>4, IsASeq
<1>6. \A k \in 1 .. Cardinality(S) : ItemsOf(b)[k].id = Nth(S, k)
  BY <1>2 DEF item
<1> QED BY <1>3, <1>5, <1>6 DEF PanelInOrder, S

\* The open image, if there is one, is of the batch.
LEMMA OpenImage ==
    ASSUME Reviewed, CurrentItem # NoItem, \A c \in calls : c.kind \notin {"refresh", "refreshed"}
    PROVE  /\ position \in 1 .. Len(items) /\ CurrentItem = items[position] /\ items # << >>
           /\ CurrentItem \in PanelItem /\ batchId # 0 /\ CurrentItem.id \in Here /\ CurrentItem.id # NoBox
<1>1. position \in 1 .. Len(items) /\ CurrentItem = items[position]
  BY DEF CurrentItem
<1>2. items \in Seq(PanelItem) /\ StagedSound /\ position \in Nat
  BY DEF Reviewed, PanelSound
<1>3. items # << >> /\ CurrentItem \in PanelItem /\ position # 0
  BY <1>1, <1>2
<1>4. batchId # 0
  BY <1>3 DEF Reviewed, PanelSound
<1>5. PanelInOrder(Here, items)
  BY <1>3, <1>4 DEF Reviewed, PanelSound
<1>6. CurrentItem.id \in Here
  BY <1>1, <1>5 DEF PanelInOrder
<1> QED BY <1>1, <1>2, <1>3, <1>4, <1>6, ImagesOfBatch DEF Here

\* While nothing is asked but the poll, the edit is of the open image.
LEMMA EditIsOfOpenImage ==
    ASSUME Reviewed, \A c \in calls : c.kind \notin {"refresh", "refreshed"},
           dirty, position # 0
    PROVE  CurrentItem # NoItem /\ onScreen = CurrentItem.id
<1>1. position \in 1 .. Len(items) /\ onScreen = items[position].id /\ CurrentItem = items[position]
  BY DEF Reviewed, PanelSound, CurrentItem
<1>2. StagedSound /\ batchId # 0 /\ items # << >>
  BY <1>1 DEF Reviewed, PanelSound
<1>3. PanelInOrder(Here, items)
  BY <1>2 DEF Reviewed, PanelSound
<1>4. CurrentItem.id # NoBox
  BY <1>1, <1>2, <1>3, ImagesOfBatch DEF PanelInOrder, Here
<1> QED BY <1>1, <1>4 DEF NoItem

LEMMA StageUntouched ==
    ASSUME StagedSound, UNCHANGED <<batchId, stagedItems, uploaded>>
    PROVE  StagedSound' /\ Here' = Here /\ Staged' = Staged
BY DEF StagedSound, Here, InBatch, Staged

\* A request, but a patch, a poll or its answer.
LEMMA CallIsCall ==
    ASSUME Reviewed, NEW k \in CallKinds
    PROVE  Call(k) \in CallSet /\ Call(k).kind = k /\ Call(k).batch = batchId
<1>1. batchId \in Nat
  BY DEF Reviewed, StagedSound
<1>2. << >> \in Seq(PanelItem)
  BY EmptySeq
<1> QED BY <1>1, <1>2, NoItemIsPanelItem DEF Call, CallSet

\* Saving the open image, before something else is done or not at all.
LEMMA PersistKeeps ==
    ASSUME Reviewed, imageOf = NoImage, \A c \in calls : c.kind = "poll", batchId # 0,
           NEW confirm \in BOOLEAN, NEW then \in {"open", "step", "accept", "save"}, NEW to \in Nat,
           confirm => SeesIt /\ onScreen = CurrentItem.id,
           then = "open" => items # << >>, then = "step" => reviewing,
           then = "accept" => confirm, then = "save" => calls = {},
           Persist(confirm, then, to),
           UNCHANGED <<batchId, items, onScreen, box, stagedItems, uploaded, reviewed, confirmed>>
    PROVE  Reviewed'
<1>1. StagedSound' /\ Here' = Here /\ Staged' = Staged
  BY StageUntouched DEF Reviewed
<1>2. ConfirmedSound'
  BY DEF Reviewed, ConfirmedSound
<1>3. \A c \in calls : c.kind \notin {"refresh", "refreshed"} /\ ~ Ours(c)
  BY DEF Ours
<1>4. items \in Seq(PanelItem) /\ position \in Nat /\ Len(items) \in Nat /\ (items # << >> => Len(items) >= 1)
  <2>1. items \in Seq(PanelItem) /\ position \in Nat
    BY DEF Reviewed, PanelSound
  <2>2. Len(items) \in Nat /\ (items # << >> => Len(items) # 0)
    BY <2>1, EmptySeq, LenProperties
  <2> QED BY <2>1, <2>2
<1>5. CASE CurrentItem # NoItem /\ NeedsSaving(confirm)
  <2>0. PICK new : new = [Call("patch") EXCEPT !.item = CurrentItem, !.box = box, !.then = then, !.to = to]
    OBVIOUS
  <2>1. /\ calls' = calls \cup {new} /\ dirty' = (dirty \/ confirm)
        /\ UNCHANGED <<position, reviewing, imageOf>>
    BY <1>5, <2>0 DEF Persist
  <2>2. /\ position \in 1 .. Len(items) /\ CurrentItem = items[position] /\ items # << >>
        /\ CurrentItem \in PanelItem /\ CurrentItem.id \in Here /\ CurrentItem.id # NoBox
    BY <1>3, <1>5, OpenImage
  <2>3. onScreen = CurrentItem.id
    <3>1. dirty => onScreen = CurrentItem.id
      BY <1>3, <2>2, EditIsOfOpenImage
    <3> QED BY <1>5, <3>1 DEF NeedsSaving
  <2>4. box = CurrentItem.id /\ CurrentItem.id \in reviewed /\ box \in Pairs
    BY <2>2, <2>3 DEF Reviewed, PanelSound
  <2>5. /\ new \in CallSet /\ new.kind = "patch" /\ new.batch = batchId /\ new.item = CurrentItem
        /\ new.box = box /\ new.then = then
    <3>1. Call("patch") \in CallSet /\ Call("patch").kind = "patch" /\ Call("patch").batch = batchId
      BY CallIsCall DEF CallKinds
    <3> QED BY <2>0, <2>2, <2>4, <3>1 DEF CallSet
  <2>6. PanelSound'
    <3>1. (dirty' /\ position # 0) => position \in 1 .. Len(items) /\ onScreen = items[position].id
      BY <2>2, <2>3
    <3>2. dirty' \in BOOLEAN
      BY <2>1 DEF Reviewed, PanelSound
    <3> QED BY <1>1, <2>1, <3>1, <3>2 DEF Reviewed, PanelSound
  <2>7. CallsSound'
    <3>1. calls' \subseteq CallSet
      BY <2>1, <2>5 DEF Reviewed, CallsSound
    <3>2. \A c, d \in calls' : Ours(c) /\ Ours(d) => c = d
      BY <1>3, <2>1
    <3>3. \A c \in calls : CallSound(c)'
      BY <1>1, <1>3 DEF Reviewed, CallsSound, CallSound, Ours
    <3>4. CallSound(new)'
      <4>1. then \in {"step", "accept"} => reviewing'
        BY <2>1 DEF SeesIt
      <4>2. then = "save" => calls' = {new}
        BY <2>1
      <4> QED BY <1>1, <2>1, <2>2, <2>4, <2>5, <4>1, <4>2 DEF CallSound, Ours
    <3> QED BY <2>1, <3>1, <3>2, <3>3, <3>4 DEF CallsSound, Ours
  <2> QED BY <1>1, <1>2, <2>6, <2>7 DEF Reviewed
<1>6. CASE ~ (CurrentItem # NoItem /\ NeedsSaving(confirm))
  <2>1. Continue(then, to, calls)
    BY <1>6 DEF Persist
  <2>2. ~ confirm /\ then # "accept"
    BY <1>6 DEF NeedsSaving, SeesIt
  <2>3. CASE then \in {"open", "step"}
    <3> DEFINE p == ClampTo(IF then = "open" THEN to ELSE position + to - 1, Len(items))
    <3>1. position' = p /\ LoadItem(p) /\ reviewing' = (reviewing \/ then = "open") /\ calls' = calls
      BY <2>1, <2>3 DEF Continue
    <3>2. items # << >>
      BY <1>4, <2>3, EmptySeq DEF Reviewed, PanelSound
    <3>3. p \in 1 .. Len(items) /\ p \in Nat
      BY <1>4, <2>3, <3>2 DEF ClampTo
    <3> HIDE DEF p
    <3>4. dirty' = FALSE /\ imageOf' = [item |-> items[p], batch |-> batchId]
      BY <3>1, <3>3 DEF LoadItem
    <3>5. items[p] \in PanelItem
      BY <1>4, <3>3
    <3>8. reviewing' \in BOOLEAN
      BY <3>1 DEF Reviewed, PanelSound
    <3>9. reviewing'
      BY <2>3, <3>1
    <3>6. PanelSound'
      BY <1>1, <1>3, <3>1, <3>3, <3>4, <3>5, <3>8, <3>9 DEF Reviewed, PanelSound, Ours
    <3>7. CallsSound'
      BY <1>1, <3>1, <3>4 DEF Reviewed, CallsSound, CallSound, Ours
    <3> QED BY <1>1, <1>2, <3>6, <3>7 DEF Reviewed
  <2>4. CASE then = "save"
    <3>1. calls' = {Call("save")} /\ UNCHANGED <<position, reviewing, dirty, imageOf>> /\ calls = {}
      BY <2>1, <2>4 DEF Continue
    <3>2. Call("save") \in CallSet /\ Call("save").kind = "save" /\ Call("save").batch = batchId
      BY CallIsCall DEF CallKinds
    <3>3. dirty => position = 0
      <4>1. ~ (dirty /\ position # 0)
        BY <1>3, <1>6, EditIsOfOpenImage DEF NeedsSaving
      <4> QED BY <4>1
    <3>4. PanelSound'
      BY <1>1, <3>1 DEF Reviewed, PanelSound
    <3>5. CallsSound'
      BY <1>1, <3>1, <3>2, <3>3 DEF CallsSound, CallSound, Ours
    <3> QED BY <1>1, <1>2, <3>4, <3>5 DEF Reviewed
  <2> QED BY <2>2, <2>3, <2>4
<1> QED BY <1>5, <1>6

\* The steps of the user. While one asks for something, nothing else is under way.
LEMMA UserWaits ==
    ASSUME Waits, MayAct
    PROVE  imageOf = NoImage /\ (\A c \in calls : c.kind = "poll" /\ ~ Ours(c))
BY DEF Waits, MayAct, Quiet, Ours

\* A request that changes nothing yet.
LEMMA AskKeeps ==
    ASSUME Reviewed, imageOf = NoImage, \A c \in calls : c.kind = "poll",
           NEW r \in CallSet, r.batch = batchId, calls' = calls \cup {r},
           \/ r.kind = "upload" /\ batchId = 0 /\ calls = {}
           \/ r.kind \in {"unbox", "discard"} /\ batchId # 0,
           UNCHANGED <<batchId, items, position, reviewing, dirty, imageOf, onScreen, box, stagedItems, uploaded,
                       reviewed, confirmed>>
    PROVE  Reviewed'
<1>1. StagedSound' /\ Here' = Here /\ Staged' = Staged
  BY StageUntouched DEF Reviewed
<1>2. ConfirmedSound'
  BY DEF Reviewed, ConfirmedSound
<1>3. PanelSound'
  BY <1>1 DEF Reviewed, PanelSound
<1>4. \A c \in calls : CallSound(c)'
  BY <1>1 DEF Reviewed, CallsSound, CallSound, Ours
<1>5. CallSound(r)'
  BY <1>1 DEF CallSound, Ours
<1>6. CallsSound'
  BY <1>4, <1>5 DEF Reviewed, CallsSound, Ours
<1> QED BY <1>1, <1>2, <1>3, <1>6 DEF Reviewed

LEMMA UploadKeeps == ASSUME Reviewed, Waits, Upload PROVE Reviewed'
<1>1. imageOf = NoImage /\ batchId = 0 /\ calls = {}
  BY UserWaits DEF Upload, Starts, Waits
<1>2. PICK r : r = Call("upload")
  OBVIOUS
<1>3. r \in CallSet /\ r.kind = "upload" /\ r.batch = batchId
  BY <1>2, CallIsCall DEF CallKinds
<1>4. calls' = calls \cup {r}
  BY <1>2 DEF Upload
<1> QED BY <1>1, <1>3, <1>4, AskKeeps DEF Upload, serverVars

LEMMA OpenReviewerKeeps == ASSUME Reviewed, Waits, NEW n \in 1 .. BatchSize, OpenReviewer(n) PROVE Reviewed'
<1>1. imageOf = NoImage /\ (\A c \in calls : c.kind = "poll") /\ batchId # 0 /\ items # << >>
  BY UserWaits DEF OpenReviewer, Starts
<1>2. n \in Nat
  BY PanelConstants
<1> QED BY <1>1, <1>2, PersistKeeps DEF OpenReviewer, serverVars

LEMMA StepKeeps == ASSUME Reviewed, Waits, NEW delta \in {0, 2}, Step(delta) PROVE Reviewed'
<1>1. imageOf = NoImage /\ (\A c \in calls : c.kind = "poll") /\ reviewing
  BY UserWaits DEF Step, Starts
<1>2. batchId # 0 /\ delta \in Nat
  BY <1>1 DEF Reviewed, PanelSound
<1> QED BY <1>1, <1>2, PersistKeeps DEF Step, serverVars

LEMMA AcceptKeeps == ASSUME Reviewed, Waits, Accept PROVE Reviewed'
<1>1. imageOf = NoImage /\ (\A c \in calls : c.kind = "poll") /\ SeesIt /\ reviewing
  BY UserWaits DEF Accept, Starts, SeesIt
<1>2. batchId # 0 /\ onScreen = CurrentItem.id
  BY <1>1 DEF Reviewed, PanelSound, SeesIt, Waits
<1> QED BY <1>1, <1>2, PersistKeeps DEF Accept, serverVars

LEMMA SaveAllKeeps == ASSUME Reviewed, Waits, SaveAll PROVE Reviewed'
<1>1. imageOf = NoImage /\ (\A c \in calls : c.kind = "poll") /\ batchId # 0 /\ calls = {}
  BY UserWaits DEF SaveAll, Starts, Waits
<1> QED BY <1>1, PersistKeeps DEF SaveAll, serverVars

LEMMA DrawBoxKeeps == ASSUME Reviewed, Waits, DrawBox PROVE Reviewed'
<1>1. (\A c \in calls : c.kind = "poll" /\ ~ Ours(c)) /\ SeesIt /\ imageOf = NoImage
  BY UserWaits DEF DrawBox
<1>2. CurrentItem # NoItem /\ onScreen = CurrentItem.id
  BY <1>1 DEF SeesIt, Waits
<1>3. position \in 1 .. Len(items) /\ CurrentItem = items[position]
  BY <1>1, <1>2, OpenImage
<1>4. /\ box' = onScreen /\ dirty' = TRUE
      /\ UNCHANGED <<batchId, items, position, reviewing, imageOf, onScreen, calls, stagedItems, uploaded,
                     reviewed, confirmed>>
  BY DEF DrawBox, serverVars
<1>5. StagedSound' /\ Here' = Here /\ Staged' = Staged
  BY <1>4, StageUntouched DEF Reviewed
<1>6. PanelSound'
  BY <1>1, <1>2, <1>3, <1>4, <1>5 DEF Reviewed, PanelSound
<1>7. CallsSound'
  BY <1>1, <1>4, <1>5 DEF Reviewed, CallsSound, CallSound, Ours
<1>8. ConfirmedSound'
  BY <1>4 DEF Reviewed, ConfirmedSound
<1> QED BY <1>5, <1>6, <1>7, <1>8 DEF Reviewed

LEMMA DeleteBoxKeeps == ASSUME Reviewed, Waits, DeleteBox PROVE Reviewed'
<1>1. (\A c \in calls : c.kind = "poll" /\ ~ Ours(c)) /\ SeesIt /\ imageOf = NoImage
  BY UserWaits DEF DeleteBox, Starts
<1>2. CurrentItem # NoItem
  BY <1>1 DEF SeesIt
<1>3. batchId # 0 /\ CurrentItem \in PanelItem
  BY <1>1, <1>2, OpenImage
<1>4. PICK r : r = [Call("unbox") EXCEPT !.item = CurrentItem]
  OBVIOUS
<1>5. Call("unbox") \in CallSet /\ Call("unbox").kind = "unbox" /\ Call("unbox").batch = batchId
  BY CallIsCall DEF CallKinds
<1>6. r \in CallSet /\ r.kind = "unbox" /\ r.batch = batchId
  BY <1>3, <1>4, <1>5 DEF CallSet
<1>7. calls' = calls \cup {r}
  BY <1>4 DEF DeleteBox
<1> QED BY <1>1, <1>3, <1>6, <1>7, AskKeeps DEF DeleteBox, serverVars

LEMMA DiscardBatchKeeps == ASSUME Reviewed, Waits, DiscardBatch PROVE Reviewed'
<1>1. imageOf = NoImage /\ (\A c \in calls : c.kind = "poll") /\ batchId # 0
  BY UserWaits DEF DiscardBatch, Starts
<1>2. PICK r : r = Call("discard")
  OBVIOUS
<1>3. r \in CallSet /\ r.kind = "discard" /\ r.batch = batchId
  BY <1>2, CallIsCall DEF CallKinds
<1>4. calls' = calls \cup {r}
  BY <1>2 DEF DiscardBatch
<1> QED BY <1>1, <1>3, <1>4, AskKeeps DEF DiscardBatch, serverVars

\* The panel goes, with at most the poll left of what was asked.
LEMMA HideKeeps ==
    ASSUME Reviewed, HidePanel, imageOf = NoImage, calls' \subseteq calls, \A c \in calls' : ~ Ours(c),
           StagedSound', UNCHANGED <<dirty, imageOf, onScreen, box, reviewed, confirmed>>
    PROVE  Reviewed'
<1>1. batchId' = 0 /\ items' = << >> /\ position' = 0 /\ reviewing' = FALSE
  BY DEF HidePanel
<1>2. << >> \in Seq(PanelItem)
  BY EmptySeq
<1>3. PanelSound'
  BY <1>1, <1>2 DEF Reviewed, PanelSound
<1>4. CallsSound'
  BY <1>1 DEF Reviewed, CallsSound, CallSound, Ours
<1>5. ConfirmedSound'
  BY DEF Reviewed, ConfirmedSound
<1> QED BY <1>3, <1>4, <1>5 DEF Reviewed

LEMMA ClosePanelKeeps == ASSUME Reviewed, Waits, ClosePanel PROVE Reviewed'
<1>1. imageOf = NoImage /\ \A c \in calls : ~ Ours(c)
  BY UserWaits DEF ClosePanel, Starts
<1>2. HidePanel /\ UNCHANGED <<dirty, imageOf, onScreen, box, reviewed, confirmed, calls, stagedItems, uploaded>>
  BY DEF ClosePanel, serverVars
<1>3. StagedSound'
  BY <1>2 DEF Reviewed, StagedSound, Staged, HidePanel
<1>4. \A c \in calls' : ~ Ours(c)
  BY <1>1, <1>2
<1> QED BY <1>1, <1>2, <1>3, <1>4, HideKeeps

LEMMA ImageShownKeeps == ASSUME Reviewed, ImageShown PROVE Reviewed'
<1>1. /\ imageOf # NoImage /\ imageOf' = NoImage
      /\ UNCHANGED <<batchId, items, position, reviewing, dirty, calls, stagedItems, uploaded, confirmed>>
  BY DEF ImageShown, serverVars
<1>2. StagedSound' /\ Here' = Here /\ Staged' = Staged
  BY <1>1, StageUntouched DEF Reviewed
<1>3. (\A c \in calls : ~ Ours(c)) /\ reviewing /\ ~ dirty /\ imageOf.item \in PanelItem
  BY <1>1 DEF Reviewed, PanelSound
<1>4. imageOf.item.id \in Pairs /\ imageOf.item.box \in {NoBox, imageOf.item.id}
  BY <1>3 DEF PanelItem
<1>5. /\ onScreen' \in Pairs /\ box' = onScreen' /\ onScreen' \in reviewed' \cup {NoBox}
      /\ reviewed \subseteq reviewed'
  <2>1. CASE imageOf.item.id \in InBatch(imageOf.batch)
    BY <1>3, <1>4, <2>1 DEF ImageShown
  <2>2. CASE imageOf.item.id \notin InBatch(imageOf.batch)
    BY <2>2 DEF ImageShown, Reviewed, PanelSound
  <2> QED BY <2>1, <2>2
<1>6. PanelSound'
  BY <1>1, <1>2, <1>3, <1>5, NoItemIsPanelItem DEF Reviewed, PanelSound
<1>7. CallsSound'
  <2>1. \A c \in calls : CallSound(c)'
    BY <1>1, <1>2, <1>5 DEF Reviewed, CallsSound, CallSound, Ours
  <2> QED BY <1>1, <2>1 DEF Reviewed, CallsSound, Ours
<1>8. ConfirmedSound'
  BY <1>1, <1>5 DEF Reviewed, ConfirmedSound
<1> QED BY <1>2, <1>6, <1>7, <1>8 DEF Reviewed

\* The server's side and its answers. An item changes where it is.
LEMMA ItemChanges ==
    ASSUME StagedSound, NEW i \in Staged, NEW v \in [box : {NoBox, i}, confirmed : BOOLEAN],
           stagedItems' = [stagedItems EXCEPT ![i] = v], UNCHANGED <<batchId, uploaded>>
    PROVE  StagedSound' /\ Here' = Here /\ Staged' = Staged
<1>1. Staged' = Staged
  BY DEF Staged
<1>2. Here' = Here
  BY <1>1 DEF Here, InBatch
<1>3. \A j \in Staged : stagedItems'[j] = IF j = i THEN v ELSE stagedItems[j]
  BY DEF Staged
<1>4. \A j \in Staged' : stagedItems'[j] \in [box : {NoBox, j}, confirmed : BOOLEAN]
  BY <1>1, <1>3 DEF StagedSound
<1> QED BY <1>1, <1>2, <1>4 DEF StagedSound

LEMMA ProposesKeeps == ASSUME Reviewed, NEW i \in Ids, Proposes(i) PROVE Reviewed'
<1>1. /\ i \in Staged /\ stagedItems' = [stagedItems EXCEPT ![i].box = i]
      /\ UNCHANGED <<batchId, items, position, reviewing, dirty, imageOf, onScreen, box, calls,
                     uploaded, reviewed, confirmed>>
  BY DEF Proposes
<1>2. stagedItems[i] \in [box : {NoBox, i}, confirmed : BOOLEAN]
  BY <1>1 DEF Reviewed, StagedSound
<1>3. PICK v : v = [stagedItems[i] EXCEPT !.box = i]
  OBVIOUS
<1>4. v \in [box : {NoBox, i}, confirmed : BOOLEAN]
  BY <1>2, <1>3
<1>5. stagedItems' = [stagedItems EXCEPT ![i] = v]
  BY <1>1, <1>3
<1>6. StagedSound' /\ Here' = Here
  BY <1>1, <1>4, <1>5, ItemChanges DEF Reviewed
<1>7. PanelSound'
  BY <1>1, <1>6 DEF Reviewed, PanelSound
<1>8. CallsSound'
  BY <1>1, <1>6 DEF Reviewed, CallsSound, CallSound, Ours
<1>9. ConfirmedSound'
  BY <1>1 DEF Reviewed, ConfirmedSound
<1> QED BY <1>6, <1>7, <1>8, <1>9 DEF Reviewed

LEMMA UploadedKeeps == ASSUME Reviewed, NEW c \in calls, Uploaded(c) PROVE Reviewed'
<1>1. c.kind = "upload" /\ batchId = 0 /\ calls = {c} /\ Ours(c)
  BY DEF Uploaded, Reviewed, CallsSound, CallSound, Ours
<1>2. PICK b : b = uploaded + 1
  OBVIOUS
<1>3. /\ uploaded' = b /\ batchId' = b /\ items' = << >>
      /\ UNCHANGED <<position, reviewing, dirty, imageOf, onScreen, box, reviewed, confirmed>>
  BY <1>2 DEF Uploaded
<1>4. uploaded \in Nat /\ b \in Nat /\ b # 0 /\ b > uploaded
  BY <1>2 DEF Reviewed, StagedSound
<1>5. imageOf = NoImage /\ position = 0 /\ reviewing = FALSE
  BY <1>1 DEF Reviewed, PanelSound
<1>6. StagedSound'
  <2> DEFINE more == {<<b, k>> : k \in 1 .. BatchSize}
  <2>1. /\ Staged' = Staged \cup more
        /\ \A i \in Staged \cup more :
              stagedItems'[i] = IF i \in Staged THEN stagedItems[i] ELSE [box |-> NoBox, confirmed |-> FALSE]
    BY <1>3 DEF Uploaded, Staged
  <2>2. Staged \subseteq (1 .. uploaded) \X (1 .. BatchSize)
    BY DEF Reviewed, StagedSound
  <2>3. Staged' \subseteq (1 .. b) \X (1 .. BatchSize)
    <3>1. more \subseteq (1 .. b) \X (1 .. BatchSize)
      BY <1>4, PanelConstants
    <3>2. 1 .. uploaded \subseteq 1 .. b
      BY <1>4
    <3> HIDE DEF more
    <3> QED BY <2>1, <2>2, <3>1, <3>2
  <2>4. \A i \in Staged' : stagedItems'[i] \in [box : {NoBox, i}, confirmed : BOOLEAN]
    <3> HIDE DEF more
    <3>1. \A i \in Staged : stagedItems[i] \in [box : {NoBox, i}, confirmed : BOOLEAN]
      BY DEF Reviewed, StagedSound
    <3>2. \A i : [box |-> NoBox, confirmed |-> FALSE] \in [box : {NoBox, i}, confirmed : BOOLEAN]
      OBVIOUS
    <3> QED BY <2>1, <3>1, <3>2
  <2>5. <<b, 1>> \in Staged'
    <3>1. 1 \in 1 .. BatchSize
      BY PanelConstants
    <3> QED BY <2>1, <3>1
  <2>6. Here' # {}
    BY <1>3, <2>5 DEF Here, InBatch
  <2>7. batchId' \in 0 .. uploaded'
    BY <1>3, <1>4
  <2> QED BY <1>3, <1>4, <2>3, <2>4, <2>6, <2>7 DEF StagedSound
<1>7. PICK r : r = [Call("poll") EXCEPT !.batch = b]
  OBVIOUS
<1>8. r \in CallSet /\ r.kind = "poll" /\ r.batch = b
  <2>1. Call("poll") \in CallSet /\ Call("poll").kind = "poll"
    BY CallIsCall DEF CallKinds
  <2> QED BY <1>4, <1>7, <2>1 DEF CallSet
<1>9. calls' = {r}
  BY <1>1, <1>3, <1>7 DEF Uploaded
<1>10. PanelSound'
  <2>1. << >> \in Seq(PanelItem)
    BY EmptySeq
  <2> QED BY <1>3, <1>4, <1>5, <2>1 DEF Reviewed, PanelSound
<1>11. CallsSound'
  BY <1>3, <1>8, <1>9 DEF CallsSound, CallSound, Ours
<1>12. ConfirmedSound'
  BY <1>3 DEF Reviewed, ConfirmedSound
<1> QED BY <1>6, <1>10, <1>11, <1>12 DEF Reviewed

LEMMA PollReadKeeps == ASSUME Reviewed, NEW c \in calls, PollRead(c) PROVE Reviewed'
<1>1. /\ c.kind \in {"poll", "refresh"}
      /\ UNCHANGED <<batchId, items, position, reviewing, dirty, imageOf, onScreen, box,
                     stagedItems, uploaded, reviewed, confirmed>>
  BY DEF PollRead, serverVars
<1>2. StagedSound' /\ Here' = Here /\ Staged' = Staged
  BY <1>1, StageUntouched DEF Reviewed
<1>3. PICK s : s = ItemsOf(c.batch)
  OBVIOUS
<1>4. s \in Seq(PanelItem) /\ (batchId # 0 => PanelInOrder(Here, s))
  <2>1. PanelInOrder(InBatch(c.batch), s)
    BY <1>3, ItemsAreInOrder DEF Reviewed
  <2>2. batchId # 0 => c.batch = batchId
    BY DEF Reviewed, CallsSound, CallSound
  <2> QED BY <2>1, <2>2 DEF PanelInOrder, Here
<1>5. PICK r : r = [c EXCEPT !.kind = IF @ = "poll" THEN "polled" ELSE "refreshed", !.answer = s]
  OBVIOUS
<1>6. calls' = (calls \ {c}) \cup {r}
  BY <1>3, <1>5 DEF PollRead
<1>7. /\ r \in CallSet /\ r.kind = (IF c.kind = "poll" THEN "polled" ELSE "refreshed")
      /\ r.batch = c.batch /\ r.answer = s
  <2>1. c \in CallSet
    BY DEF Reviewed, CallsSound
  <2> QED BY <1>1, <1>4, <1>5, <2>1 DEF CallSet, CallKinds
<1>8. /\ c.kind = "refresh" => calls = {c} /\ (dirty => position = 0) /\ batchId # 0
      /\ batchId # 0 => c.batch = batchId
  BY DEF Reviewed, CallsSound, CallSound, Ours
<1>9. PanelSound'
  <2>1. (\E d \in calls : d.kind \in {"refresh", "refreshed"})
            => \E d \in calls' : d.kind \in {"refresh", "refreshed"}
    BY <1>1, <1>6, <1>7
  <2>2. (\A d \in calls : ~ Ours(d)) => \A d \in calls' : ~ Ours(d)
    BY <1>1, <1>6, <1>7 DEF Ours
  <2> QED BY <1>1, <1>2, <2>1, <2>2 DEF Reviewed, PanelSound
<1>10. CallsSound'
  <2>1. calls' \subseteq CallSet
    BY <1>6, <1>7 DEF Reviewed, CallsSound
  <2>2. \A d, e \in calls' : Ours(d) /\ Ours(e) => d = e
    BY <1>1, <1>6, <1>7, <1>8 DEF Reviewed, CallsSound, Ours
  <2>3. ASSUME NEW d \in calls \ {c}
        PROVE  CallSound(d)'
    <3>1. CallSound(d) /\ calls # {d}
      BY <2>3 DEF Reviewed, CallsSound
    <3> QED BY <1>1, <1>2, <3>1 DEF CallSound, Ours
  <2>4. CallSound(r)'
    BY <1>1, <1>2, <1>4, <1>6, <1>7, <1>8 DEF CallSound, Ours
  <2> QED BY <1>6, <2>1, <2>2, <2>3, <2>4 DEF CallsSound, Ours
<1>11. ConfirmedSound'
  BY <1>1 DEF Reviewed, ConfirmedSound
<1> QED BY <1>2, <1>9, <1>10, <1>11 DEF Reviewed

LEMMA PolledKeeps == ASSUME Reviewed, NEW c \in calls, Polled(c) PROVE Reviewed'
<1>1. /\ c.kind \in {"polled", "refreshed"} /\ c \in CallSet
      /\ UNCHANGED <<dirty, imageOf, onScreen, box, stagedItems, uploaded, reviewed, confirmed>>
  BY DEF Polled, serverVars, Reviewed, CallsSound
<1>2. CallSound(c)
  BY DEF Reviewed, CallsSound
<1>3. ASSUME batchId # 0
      PROVE  PanelInOrder(Here, c.answer) /\ c.answer # << >> /\ Len(c.answer) = Cardinality(Here)
  <2>1. PanelInOrder(Here, c.answer) /\ Here # {} /\ StagedSound
    BY <1>1, <1>2, <1>3 DEF CallSound, Reviewed, StagedSound
  <2>2. Len(c.answer) # 0
    BY <2>1, ImagesOfBatch DEF PanelInOrder, Here
  <2> QED BY <2>1, <2>2, EmptySeq DEF PanelInOrder
<1> DEFINE Marked(d) == [d EXCEPT !.current = @ /\ d.kind \notin {"patch", "unbox"}]
<1>4. PICK again : /\ calls' = {Marked(d) : d \in calls \ {c}} \cup again
                   /\ again \in {{}, {Call("poll")}}
                   /\ (c.kind # "polled" \/ batchId = 0) => again = {}
  BY <1>1 DEF Polled
<1>5. \A r \in again : r \in CallSet /\ r.kind = "poll" /\ r.batch = batchId
  <2>1. Call("poll") \in CallSet /\ Call("poll").kind = "poll" /\ Call("poll").batch = batchId
    BY CallIsCall DEF CallKinds
  <2> QED BY <1>4, <2>1
<1>6. \A d \in calls : /\ Marked(d) \in CallSet /\ Marked(d).kind = d.kind /\ Marked(d).batch = d.batch
                      /\ Marked(d).item = d.item /\ Marked(d).box = d.box /\ Marked(d).then = d.then
                      /\ Marked(d).answer = d.answer
  <2>1. SUFFICES ASSUME NEW d \in calls
                 PROVE  /\ Marked(d) \in CallSet /\ Marked(d).kind = d.kind /\ Marked(d).batch = d.batch
                        /\ Marked(d).item = d.item /\ Marked(d).box = d.box /\ Marked(d).then = d.then
                        /\ Marked(d).answer = d.answer
    OBVIOUS
  <2>2. d \in CallSet
    BY DEF Reviewed, CallsSound
  <2> QED BY <2>2 DEF CallSet
<1> HIDE DEF Marked
<1>7. \A d \in calls' : d.kind \in {"refresh", "refreshed"} => \E e \in calls \ {c} : e.kind = d.kind
  BY <1>4, <1>5, <1>6
<1>8. \A d \in calls \ {c} : d.kind \notin {"upload", "save", "refresh", "refreshed"}
  BY DEF Reviewed, CallsSound, CallSound
<1>9. \A d \in calls' : d.kind \notin {"upload", "save", "refresh", "refreshed"}
  BY <1>4, <1>5, <1>6, <1>8
<1>10. (\A d \in calls : ~ Ours(d)) => \A d \in calls' : ~ Ours(d)
  BY <1>4, <1>5, <1>6 DEF Ours
<1>11. calls' \subseteq CallSet /\ \A d, e \in calls' : Ours(d) /\ Ours(e) => d = e
  <2>1. \A d \in calls' : Ours(d) => \E x \in calls : d = Marked(x) /\ Ours(x)
    BY <1>4, <1>5, <1>6 DEF Ours
  <2> QED BY <1>4, <1>5, <1>6, <2>1 DEF Reviewed, CallsSound
<1>12. CASE c.answer = << >>
  <2>1. HidePanel /\ batchId = 0
    BY <1>3, <1>12 DEF Polled
  <2>2. again = {}
    BY <1>4, <2>1
  <2>3. imageOf = NoImage
    BY <2>1 DEF Reviewed, PanelSound
  <2>4. StagedSound'
    BY <1>1, <2>1 DEF Reviewed, StagedSound, Staged, HidePanel
  <2>5. \A d \in calls' : ~ Ours(d)
    <3>1. \A d \in calls \ {c} : ~ Ours(d)
      BY <1>8, <2>1 DEF Reviewed, CallsSound, CallSound
    <3> QED BY <1>4, <1>6, <2>2, <3>1 DEF Ours
  <2>6. batchId' = 0 /\ items' = << >> /\ position' = 0 /\ reviewing' = FALSE
    BY <2>1 DEF HidePanel
  <2>7. PanelSound'
    <3>1. << >> \in Seq(PanelItem)
      BY EmptySeq
    <3> QED BY <1>1, <2>3, <2>6, <3>1 DEF Reviewed, PanelSound
  <2>8. CallsSound'
    <3>1. \A d \in calls' : CallSound(d)'
      BY <1>9, <2>5, <2>6 DEF CallSound, Ours
    <3> QED BY <1>11, <3>1 DEF CallsSound, Ours
  <2>9. ConfirmedSound'
    BY <1>1 DEF Reviewed, ConfirmedSound
  <2> QED BY <2>4, <2>7, <2>8, <2>9 DEF Reviewed
<1>13. CASE c.answer # << >>
  <2>1. /\ items' = c.answer /\ UNCHANGED batchId
        /\ c.kind = "polled" => UNCHANGED <<position, reviewing>>
        /\ c.kind = "refreshed" => /\ position' = (IF position > Len(c.answer) THEN Len(c.answer) ELSE position)
                                   /\ reviewing' = FALSE
    BY <1>1, <1>13 DEF Polled
  <2>2. StagedSound' /\ Here' = Here /\ Staged' = Staged
    BY <1>1, <2>1, StageUntouched DEF Reviewed
  <2>3. c.answer \in Seq(PanelItem) /\ Len(c.answer) \in Nat /\ Len(c.answer) # 0
    <3>1. c.answer \in Seq(PanelItem)
      BY <1>1 DEF CallSet
    <3> QED BY <1>13, <3>1, EmptySeq, LenProperties
  <2>4. position \in Nat /\ items \in Seq(PanelItem) /\ Len(items) \in Nat
    <3>1. position \in Nat /\ items \in Seq(PanelItem)
      BY DEF Reviewed, PanelSound
    <3> QED BY <3>1, LenProperties
  <2>5. ASSUME c.kind = "polled"
        PROVE  /\ reviewing => position \in 1 .. Len(c.answer)
               /\ (dirty /\ position # 0) => position \in 1 .. Len(c.answer) /\ onScreen = c.answer[position].id
    <3>1. CASE batchId = 0
      BY <3>1 DEF Reviewed, PanelSound
    <3>2. CASE batchId # 0
      <4>1. \A d \in calls : d.kind \notin {"refresh", "refreshed"}
        BY <1>8, <2>5
      <4>2. items = << >> \/ PanelInOrder(Here, items)
        BY <3>2, <4>1 DEF Reviewed, PanelSound
      <4>3. items # << >> => /\ Len(items) = Len(c.answer)
                             /\ \A k \in 1 .. Len(items) : items[k].id = c.answer[k].id
        <5>1. CASE PanelInOrder(Here, items)
          BY <1>3, <3>2, <5>1 DEF PanelInOrder
        <5> QED BY <4>2, <5>1
      <4>4. position \in 1 .. Len(items) => items # << >>
        BY <2>4, EmptySeq
      <4> QED BY <4>3, <4>4 DEF Reviewed, PanelSound
    <3> QED BY <3>1, <3>2
  <2>6. PanelSound'
    <3>1. position' \in Nat
      BY <1>1, <2>1, <2>3, <2>4
    <3>2. reviewing' \in BOOLEAN /\ (reviewing' => position' \in 1 .. Len(items'))
      <4>1. CASE c.kind = "polled"
        <5>1. reviewing' = reviewing /\ position' = position /\ items' = c.answer
          BY <2>1, <4>1
        <5> QED BY <2>5, <4>1, <5>1 DEF Reviewed, PanelSound
      <4>2. CASE c.kind = "refreshed"
        BY <2>1, <4>2
      <4> QED BY <1>1, <4>1, <4>2
    <3>3. (dirty' /\ position' # 0) => position' \in 1 .. Len(items') /\ onScreen' = items'[position'].id
      <4>1. CASE c.kind = "polled"
        BY <1>1, <2>1, <2>5, <4>1
      <4>2. CASE c.kind = "refreshed"
        <5>1. dirty => position = 0
          BY <1>2, <4>2 DEF CallSound
        <5> QED BY <1>1, <2>1, <2>3, <4>2, <5>1
      <4> QED BY <1>1, <4>1, <4>2
    <3>4. batchId' = 0 => position' = 0 /\ ~ reviewing'
      BY <1>1, <2>1, <2>3 DEF Reviewed, PanelSound
    <3>5. batchId' # 0 => PanelInOrder(Here', items')
      BY <1>3, <2>1, <2>2
    <3>6. imageOf' # NoImage => (\A d \in calls' : ~ Ours(d)) /\ reviewing' /\ batchId' # 0 /\ ~ dirty'
      <4>1. SUFFICES ASSUME imageOf # NoImage
                     PROVE  (\A d \in calls' : ~ Ours(d)) /\ reviewing' /\ batchId' # 0 /\ ~ dirty'
        BY <1>1
      <4>2. (\A d \in calls : ~ Ours(d)) /\ reviewing /\ batchId # 0 /\ ~ dirty
        BY <4>1 DEF Reviewed, PanelSound
      <4>3. c.kind = "polled"
        BY <1>1, <4>2 DEF Ours
      <4> QED BY <1>1, <1>10, <2>1, <4>2, <4>3
    <3>7. /\ items' \in Seq(PanelItem) /\ dirty' \in BOOLEAN /\ imageOf'.item \in PanelItem
          /\ onScreen' \in Pairs /\ box' = onScreen' /\ onScreen' \in reviewed' \cup {NoBox}
      BY <1>1, <2>1, <2>3 DEF Reviewed, PanelSound
    <3> QED BY <3>1, <3>2, <3>3, <3>4, <3>5, <3>6, <3>7 DEF PanelSound, Ours
  <2>7. CallsSound'
    <3>1. \A d \in calls \ {c} : CallSound(Marked(d))'
      <4>1. SUFFICES ASSUME NEW d \in calls \ {c}, NEW r, r = Marked(d)
                     PROVE  CallSound(r)'
        BY DEF Marked
      <4>2. /\ r.kind = d.kind /\ r.batch = d.batch /\ r.item = d.item /\ r.box = d.box /\ r.then = d.then
            /\ r.answer = d.answer /\ r.kind \notin {"upload", "save", "refresh", "refreshed"}
        BY <1>6, <1>8, <4>1
      <4>3. CallSound(d) /\ calls # {d}
        BY DEF Reviewed, CallsSound
      <4>4. items' # << >>
        BY <1>13, <2>1
      <4>5. c.kind = "refreshed" => calls = {c}
        BY <1>2 DEF CallSound
      <4>6. UNCHANGED reviewing
        BY <1>1, <2>1, <4>5
      <4> QED BY <1>1, <2>1, <2>2, <4>2, <4>3, <4>4, <4>6 DEF CallSound, Ours
    <3>2. \A d \in again : CallSound(d)'
      BY <1>5, <2>1 DEF CallSound, Ours
    <3>3. \A d \in calls' : CallSound(d)'
      BY <1>4, <3>1, <3>2
    <3> QED BY <1>11, <3>3 DEF CallsSound, Ours
  <2>8. ConfirmedSound'
    BY <1>1 DEF Reviewed, ConfirmedSound
  <2> QED BY <2>2, <2>6, <2>7, <2>8 DEF Reviewed
<1> QED BY <1>12, <1>13

\* An item of the panel is replaced by one of the same image.
LEMMA SameImages ==
    ASSUME NEW s \in Seq(PanelItem), NEW u, u = [k \in DOMAIN s |-> u[k]],
           \A k \in DOMAIN s : u[k] \in PanelItem /\ u[k].id = s[k].id
    PROVE  /\ u \in Seq(PanelItem) /\ Len(u) = Len(s) /\ (u = << >> <=> s = << >>)
           /\ \A S : PanelInOrder(S, s) => PanelInOrder(S, u)
<1>1. Len(s) \in Nat /\ DOMAIN s = 1 .. Len(s)
  BY LenProperties
<1>2. u \in Seq(PanelItem) /\ Len(u) = Len(s)
  BY <1>1, IsASeq
<1>3. u = << >> <=> s = << >>
  BY <1>1, <1>2, EmptySeq
<1> QED BY <1>1, <1>2, <1>3 DEF PanelInOrder

LEMMA UnboxedKeeps == ASSUME Reviewed, NEW c \in calls, Unboxed(c) PROVE Reviewed'
<1>1. /\ c.kind = "unbox" /\ Ours(c) /\ c \in CallSet /\ calls' = calls \ {c} /\ batchId # 0 /\ c.batch = batchId
      /\ UNCHANGED <<batchId, position, reviewing, imageOf, onScreen, uploaded, reviewed, confirmed>>
  BY DEF Unboxed, Ours, Reviewed, CallsSound, CallSound
<1>2. \A d \in calls' : ~ Ours(d)
  BY <1>1 DEF Reviewed, CallsSound
<1>3. imageOf = NoImage /\ items \in Seq(PanelItem)
  BY <1>1 DEF Reviewed, PanelSound
<1>4. /\ StagedSound' /\ Here' = Here /\ dirty' \in BOOLEAN /\ (dirty' => dirty) /\ box' = onScreen
      /\ items' \in Seq(PanelItem) /\ Len(items') = Len(items) /\ (items' = << >> <=> items = << >>)
      /\ PanelInOrder(Here, items) => PanelInOrder(Here, items')
      /\ dirty' => items' = items
  <2>1. CASE There(c)
    <3>1. PICK v : v = [box |-> NoBox, confirmed |-> FALSE]
      OBVIOUS
    <3>2. c.item.id \in Staged /\ v \in [box : {NoBox, c.item.id}, confirmed : BOOLEAN]
      BY <2>1, <3>1 DEF There, InBatch
    <3>3. stagedItems' = [stagedItems EXCEPT ![c.item.id] = v]
      BY <2>1, <3>1 DEF Unboxed
    <3>4. StagedSound' /\ Here' = Here
      BY <1>1, <3>2, <3>3, ItemChanges DEF Reviewed
    <3>5. \A i \in PanelItem : LET w == [i EXCEPT !.box = NoBox, !.confirmed = FALSE]
                               IN w \in PanelItem /\ w.id = i.id
      BY NoItemIsPanelItem DEF PanelItem
    <3>6. /\ items' = [k \in DOMAIN items |-> items'[k]]
          /\ \A k \in DOMAIN items : items'[k] \in PanelItem /\ items'[k].id = items[k].id
      <4>1. items' = [k \in DOMAIN items |->
                             IF c.current /\ items[k].id = c.item.id
                             THEN [items[k] EXCEPT !.box = NoBox, !.confirmed = FALSE] ELSE items[k]]
        BY <2>1 DEF Unboxed
      <4>2. \A k \in DOMAIN items : items[k] \in PanelItem
        BY <1>3
      <4> QED BY <3>5, <4>1, <4>2
    <3>7. /\ items' \in Seq(PanelItem) /\ Len(items') = Len(items) /\ (items' = << >> <=> items = << >>)
          /\ \A S : PanelInOrder(S, items) => PanelInOrder(S, items')
      BY <1>3, <3>6, SameImages
    <3>8. dirty' = FALSE /\ box' = onScreen
      BY <2>1 DEF Unboxed
    <3> QED BY <3>4, <3>7, <3>8
  <2>2. CASE ~ There(c)
    <3>1. UNCHANGED <<stagedItems, items, dirty, box>>
      BY <2>2 DEF Unboxed
    <3>2. StagedSound' /\ Here' = Here
      BY <1>1, <3>1, StageUntouched DEF Reviewed
    <3> QED BY <1>3, <3>1, <3>2 DEF Reviewed, PanelSound
  <2> QED BY <2>1, <2>2
<1>5. \A d \in calls : d.kind \notin {"refresh", "refreshed"}
  BY <1>1 DEF Reviewed, CallsSound, CallSound
<1>6. PanelSound'
  <2>1. (dirty' /\ position # 0) => position \in 1 .. Len(items') /\ onScreen = items'[position].id
    BY <1>4 DEF Reviewed, PanelSound
  <2> QED BY <1>1, <1>3, <1>4, <1>5, <2>1 DEF Reviewed, PanelSound
<1>7. CallsSound'
  <2>1. ASSUME NEW d \in calls'
        PROVE  CallSound(d)'
    BY <1>1, <1>2, <1>4, <1>5 DEF Reviewed, CallsSound, CallSound, Ours
  <2> QED BY <1>1, <1>2, <2>1 DEF Reviewed, CallsSound, Ours
<1>8. ConfirmedSound'
  BY <1>1 DEF Reviewed, ConfirmedSound
<1> QED BY <1>4, <1>6, <1>7, <1>8 DEF Reviewed

\* The images that stay are staged as they were.
LEMMA SomeStay ==
    ASSUME StagedSound, NEW stay \in SUBSET Staged, stagedItems' = [i \in stay |-> stagedItems[i]],
           UNCHANGED uploaded, batchId' \in {0, batchId},
           batchId' # 0 => \E i \in stay : i[1] = batchId
    PROVE  StagedSound'
<1>1. Staged' = stay
  BY DEF Staged
<1>2. batchId' # 0 => Here' # {}
  BY <1>1 DEF Here, InBatch
<1> QED BY <1>1, <1>2 DEF StagedSound

LEMMA SavedKeeps == ASSUME Reviewed, NEW c \in calls, Saved(c) PROVE Reviewed'
<1>1. /\ c.kind = "save" /\ Ours(c) /\ calls = {c} /\ (dirty => position = 0) /\ batchId # 0 /\ c.batch = batchId
      /\ UNCHANGED <<dirty, imageOf, onScreen, box, uploaded, reviewed, confirmed>>
  BY DEF Saved, Ours, Reviewed, CallsSound, CallSound
<1>2. imageOf = NoImage
  BY <1>1 DEF Reviewed, PanelSound
<1> DEFINE stay == {i \in Staged : i[1] = c.batch => stagedItems[i].box = NoBox}
<1>3. stagedItems' = [i \in stay |-> stagedItems[i]]
  BY DEF Saved
<1>4. CASE ~ \E i \in stay : i[1] = c.batch
  <2>1. HidePanel /\ calls' = calls \ {c}
    BY <1>4 DEF Saved
  <2>2. StagedSound'
    BY <1>1, <1>3, <2>1, SomeStay DEF Reviewed, HidePanel
  <2>3. calls' = {}
    BY <1>1, <2>1
  <2> QED BY <1>1, <1>2, <2>1, <2>2, <2>3, HideKeeps
<1>5. CASE \E i \in stay : i[1] = c.batch
  <2>1. PICK r : r = Call("refresh")
    OBVIOUS
  <2>2. r \in CallSet /\ r.kind = "refresh" /\ r.batch = batchId
    BY <2>1, CallIsCall DEF CallKinds
  <2>3. calls' = {r} /\ UNCHANGED <<batchId, items, position, reviewing>>
    BY <1>1, <1>5, <2>1 DEF Saved
  <2>4. StagedSound'
    BY <1>1, <1>3, <1>5, <2>3, SomeStay DEF Reviewed
  <2>5. PanelSound'
    BY <1>1, <1>2, <2>2, <2>3 DEF Reviewed, PanelSound
  <2>6. CallsSound'
    BY <1>1, <2>2, <2>3 DEF CallsSound, CallSound, Ours
  <2>7. ConfirmedSound'
    BY <1>1 DEF Reviewed, ConfirmedSound
  <2> QED BY <2>4, <2>5, <2>6, <2>7 DEF Reviewed
<1> QED BY <1>4, <1>5

LEMMA DiscardedKeeps == ASSUME Reviewed, NEW c \in calls, Discarded(c) PROVE Reviewed'
<1>1. /\ c.kind = "discard" /\ Ours(c) /\ calls' = calls \ {c} /\ HidePanel
      /\ UNCHANGED <<dirty, imageOf, onScreen, box, uploaded, reviewed, confirmed>>
  BY DEF Discarded, Ours
<1>2. imageOf = NoImage
  BY <1>1 DEF Reviewed, PanelSound
<1>3. \A d \in calls' : ~ Ours(d)
  BY <1>1 DEF Reviewed, CallsSound
<1>4. PICK stay \in SUBSET Staged : stagedItems' = [i \in stay |-> stagedItems[i]]
  BY DEF Discarded
<1>5. StagedSound'
  BY <1>1, <1>4, SomeStay DEF Reviewed, HidePanel
<1> QED BY <1>1, <1>2, <1>3, <1>5, HideKeeps

LEMMA PatchedKeeps == ASSUME Reviewed, refused \in Nat, Waits, Waits', NEW c \in calls, NEW ok \in BOOLEAN, Patched(c, ok)
                      PROVE  Reviewed'
<1>1. /\ c.kind = "patch" /\ Ours(c) /\ c \in CallSet /\ batchId # 0 /\ c.batch = batchId
      /\ items # << >> /\ c.item.id \in Here /\ c.box = c.item.id /\ c.item.id \in reviewed /\ c.then # "nothing"
      /\ c.then = "save" => calls = {c}
      /\ UNCHANGED <<batchId, onScreen, box, uploaded, reviewed>>
  BY DEF Patched, Ours, Reviewed, CallsSound, CallSound
<1>2. There(c)
  BY <1>1 DEF There, Here
<1>3. ok
  <2>1. ~ ok => refused' = refused + 1
    BY <1>2 DEF Patched
  <2>2. refused = 0 /\ refused' = 0
    BY DEF Waits
  <2> QED BY <2>1, <2>2
<1>4. PICK v : v = [box |-> c.box, confirmed |-> TRUE]
  OBVIOUS
<1>5. PICK saved : saved = [id |-> c.item.id, box |-> c.box, confirmed |-> TRUE]
  OBVIOUS
<1>6. /\ stagedItems' = [stagedItems EXCEPT ![c.item.id] = v]
      /\ confirmed' = confirmed \cup {<<c.item.id, c.box>>}
      /\ items' = [k \in DOMAIN items |-> IF c.current /\ items[k].id = c.item.id THEN saved ELSE items[k]]
  BY <1>3, <1>4, <1>5 DEF Patched
<1>7. StagedSound' /\ Here' = Here
  <2>1. c.item.id \in Staged
    BY <1>1 DEF Here, InBatch
  <2>2. v \in [box : {NoBox, c.item.id}, confirmed : BOOLEAN]
    BY <1>1, <1>4
  <2> QED BY <1>1, <1>6, <2>1, <2>2, ItemChanges DEF Reviewed
<1>8. items \in Seq(PanelItem) /\ position \in Nat
  BY DEF Reviewed, PanelSound
<1>9. /\ items' \in Seq(PanelItem) /\ Len(items') = Len(items) /\ items' # << >> /\ DOMAIN items = 1 .. Len(items)
      /\ \A S : PanelInOrder(S, items) => PanelInOrder(S, items')
      /\ Len(items) \in Nat /\ Len(items) # 0
  <2>1. saved \in PanelItem /\ saved.id = c.item.id
    BY <1>1, <1>5 DEF PanelItem, CallSet
  <2>2. \A k \in DOMAIN items : items[k] \in PanelItem
    BY <1>8
  <2>3. items' = [k \in DOMAIN items |-> items'[k]]
    BY <1>6
  <2>4. \A k \in DOMAIN items : items'[k] \in PanelItem /\ items'[k].id = items[k].id
    BY <1>6, <2>1, <2>2
  <2>5. /\ items' \in Seq(PanelItem) /\ Len(items') = Len(items) /\ (items' = << >> <=> items = << >>)
        /\ \A S : PanelInOrder(S, items) => PanelInOrder(S, items')
    BY <1>8, <2>3, <2>4, SameImages
  <2> QED BY <1>1, <1>8, <2>5, EmptySeq, LenProperties
<1>10. \A d \in calls : d.kind \notin {"refresh", "refreshed"}
  BY <1>1 DEF Reviewed, CallsSound, CallSound
<1>11. items' = << >> \/ PanelInOrder(Here', items')
  BY <1>1, <1>7, <1>9, <1>10 DEF Reviewed, PanelSound
<1>12. imageOf = NoImage /\ \A d \in calls \ {c} : ~ Ours(d)
  BY <1>1 DEF Reviewed, PanelSound, CallsSound
<1>13. ConfirmedSound'
  BY <1>1, <1>6 DEF Reviewed, ConfirmedSound
<1>14. \A d \in calls \ {c} : CallSound(d)'
  BY <1>1, <1>7, <1>12 DEF Reviewed, CallsSound, CallSound, Ours
<1>15. CASE c.then \in {"open", "step"} \/ (c.then = "accept" /\ position < Len(items))
  <2> DEFINE p == ClampTo(IF c.then = "open" THEN c.to ELSE position + c.to - 1, Len(items))
  <2>1. /\ position' = p /\ dirty' = FALSE
        /\ imageOf' = IF p \in DOMAIN items THEN [item |-> items'[p], batch |-> batchId] ELSE imageOf
        /\ reviewing' = (reviewing \/ c.then = "open") /\ calls' = calls \ {c}
    BY <1>3, <1>15 DEF Patched
  <2>2. c.to \in Nat
    BY <1>1 DEF CallSet
  <2>3. p \in 1 .. Len(items) /\ p \in Nat
    BY <1>8, <1>9, <2>2 DEF ClampTo
  <2> HIDE DEF p
  <2>4. imageOf' = [item |-> items'[p], batch |-> batchId] /\ items'[p] \in PanelItem
    BY <1>9, <2>1, <2>3
  <2>5. reviewing'
    <3>1. c.then \in {"step", "accept"} => reviewing
      BY <1>1 DEF Reviewed, CallsSound, CallSound
    <3> QED BY <1>15, <2>1, <3>1
  <2>6. reviewing' \in BOOLEAN
    BY <2>1 DEF Reviewed, PanelSound
  <2>7. PanelSound'
    <3>1. position' \in 1 .. Len(items') /\ position' \in Nat
      BY <1>9, <2>1, <2>3
    <3>2. imageOf'.item \in PanelItem
      BY <2>4
    <3>3. \A d \in calls' : ~ Ours(d)
      BY <1>12, <2>1
    <3>4. onScreen' \in Pairs /\ box' = onScreen' /\ onScreen' \in reviewed' \cup {NoBox}
      BY <1>1 DEF Reviewed, PanelSound
    <3> QED BY <1>1, <1>9, <1>11, <2>1, <2>5, <2>6, <3>1, <3>2, <3>3, <3>4 DEF PanelSound, Ours
  <2>8. CallsSound'
    BY <1>14, <2>1 DEF Reviewed, CallsSound, Ours
  <2> QED BY <1>7, <1>13, <2>7, <2>8 DEF Reviewed
<1>16. CASE ~ (c.then \in {"open", "step"} \/ (c.then = "accept" /\ position < Len(items)))
  <2>1. PICK more : /\ dirty' = FALSE /\ calls' = (calls \ {c}) \cup more
                    /\ more = IF c.then = "save" THEN {Call("save")} ELSE {}
                    /\ UNCHANGED <<position, reviewing, imageOf>>
    BY <1>3, <1>16 DEF Patched
  <2>2. PanelSound'
    <3>1. (batchId # 0 => items' = << >> \/ PanelInOrder(Here, items')) /\ imageOf' = NoImage
      BY <1>7, <1>11, <1>12, <2>1
    <3> QED BY <1>1, <1>7, <1>9, <2>1, <3>1 DEF Reviewed, PanelSound
  <2>3. CASE c.then = "save"
    <3>1. PICK r : r = Call("save")
      OBVIOUS
    <3>2. r \in CallSet /\ r.kind = "save" /\ r.batch = batchId
      BY <3>1, CallIsCall DEF CallKinds
    <3>3. calls' = {r}
      BY <1>1, <2>1, <2>3, <3>1
    <3>4. CallsSound'
      BY <1>1, <2>1, <3>2, <3>3 DEF CallsSound, CallSound, Ours
    <3> QED BY <1>7, <1>13, <2>2, <3>4 DEF Reviewed
  <2>4. CASE c.then # "save"
    <3>1. calls' = calls \ {c}
      BY <2>1, <2>4
    <3>2. CallsSound'
      BY <1>14, <3>1 DEF Reviewed, CallsSound, Ours
    <3> QED BY <1>7, <1>13, <2>2, <3>2 DEF Reviewed
  <2> QED BY <2>3, <2>4
<1> QED BY <1>15, <1>16

LEMMA ReviewerInitHolds == ReviewerInit => ReviewerInv
<1>1. SUFFICES ASSUME ReviewerInit
               PROVE  ReviewerInv
  OBVIOUS
<1>2. << >> \in Seq(PanelItem) /\ DOMAIN stagedItems = {}
  BY <1>1, EmptySeq DEF ReviewerInit
<1>3. StagedSound
  BY <1>1, <1>2 DEF ReviewerInit, StagedSound, Staged
<1>4. PanelSound
  BY <1>1, <1>2, NoItemIsPanelItem DEF ReviewerInit, PanelSound
<1>5. CallsSound /\ ConfirmedSound /\ refused \in Nat
  BY <1>1 DEF ReviewerInit, CallsSound, ConfirmedSound
<1> QED BY <1>3, <1>4, <1>5 DEF ReviewerInv, Reviewed

LEMMA ReviewerSteps ==
    ASSUME ReviewerInv, [ReviewerNext]_reviewerVars
    PROVE  ReviewerInv'
<1>1. CASE UNCHANGED reviewerVars
  <2>1. Waits' = Waits /\ refused' = refused
    BY <1>1 DEF reviewerVars, Waits
  <2>2. Reviewed => Reviewed'
    BY <1>1 DEF reviewerVars, Reviewed, StagedSound, Here, InBatch, Staged, PanelSound, CallsSound, CallSound, Ours,
               ConfirmedSound
  <2> QED BY <2>1, <2>2 DEF ReviewerInv
<1>2. CASE ReviewerNext
  <2>1. /\ UNCHANGED <<rushed, tidy>> /\ refused' \in Nat
        /\ (refused' = 0 => refused = 0)
    <3>1. refused \in Nat
      BY DEF ReviewerInv
    <3>2. UNCHANGED <<rushed, tidy>>
      BY <1>2 DEF ReviewerNext, Upload, Accept, DrawBox, DeleteBox, SaveAll, DiscardBatch, ClosePanel, ImageShown,
         OpenReviewer, Step, Proposes, Uploaded, PollRead, Polled, Unboxed, Saved, Discarded, Patched
    <3>3. refused' \in {refused, refused + 1}
      <4>1. CASE \E c \in calls, ok \in BOOLEAN : Patched(c, ok)
        BY <4>1 DEF Patched
      <4>2. CASE ~ \E c \in calls, ok \in BOOLEAN : Patched(c, ok)
        BY <1>2, <4>2 DEF ReviewerNext, Upload, Accept, DrawBox, DeleteBox, SaveAll, DiscardBatch, ClosePanel,
           ImageShown, OpenReviewer, Step, Proposes, Uploaded, PollRead, Polled, Unboxed, Saved, Discarded
      <4> QED BY <4>1, <4>2
    <3> QED BY <3>1, <3>2, <3>3
  <2>2. SUFFICES ASSUME Waits'
                 PROVE  Reviewed'
    BY <2>1 DEF ReviewerInv
  <2>3. Waits /\ Reviewed /\ refused \in Nat
    BY <2>1, <2>2 DEF ReviewerInv, Waits
  <2>4. CASE Upload
    BY <2>3, <2>4, UploadKeeps
  <2>5. CASE Accept
    BY <2>3, <2>5, AcceptKeeps
  <2>6. CASE DrawBox
    BY <2>3, <2>6, DrawBoxKeeps
  <2>7. CASE DeleteBox
    BY <2>3, <2>7, DeleteBoxKeeps
  <2>8. CASE SaveAll
    BY <2>3, <2>8, SaveAllKeeps
  <2>9. CASE DiscardBatch
    BY <2>3, <2>9, DiscardBatchKeeps
  <2>10. CASE ClosePanel
    BY <2>3, <2>10, ClosePanelKeeps
  <2>11. CASE ImageShown
    BY <2>3, <2>11, ImageShownKeeps
  <2>12. CASE \E n \in 1 .. BatchSize : OpenReviewer(n)
    BY <2>3, <2>12, OpenReviewerKeeps
  <2>13. CASE \E delta \in {0, 2} : Step(delta)
    BY <2>3, <2>13, StepKeeps
  <2>14. CASE \E i \in Ids : Proposes(i)
    BY <2>3, <2>14, ProposesKeeps
  <2>15. ASSUME NEW c \in calls,
                \/ Uploaded(c) \/ PollRead(c) \/ Polled(c) \/ Unboxed(c) \/ Saved(c) \/ Discarded(c)
                \/ \E ok \in BOOLEAN : Patched(c, ok)
         PROVE  Reviewed'
    BY <2>2, <2>3, <2>15, UploadedKeeps, PollReadKeeps, PolledKeeps, UnboxedKeeps, SavedKeeps, DiscardedKeeps,
       PatchedKeeps
  <2> QED BY <1>2, <2>4, <2>5, <2>6, <2>7, <2>8, <2>9, <2>10, <2>11, <2>12, <2>13, <2>14, <2>15 DEF ReviewerNext
<1> QED BY <1>1, <1>2

\* For any number of images, batches and requests: a user who waits for the page
\* confirms no box that was not on the screen over its own image.
THEOREM BoxesAreConfirmedOnTheirImage == ReviewerSpec => []ConfirmedOnItsImage
<1>1. ReviewerInit => ReviewerInv
  BY ReviewerInitHolds
<1>2. ReviewerInv /\ [ReviewerNext]_reviewerVars => ReviewerInv'
  BY ReviewerSteps
<1>3. ReviewerInv => ConfirmedOnItsImage
  BY DEF ReviewerInv, Waits, Reviewed, ConfirmedSound, ConfirmedOnItsImage
<1> QED BY <1>1, <1>2, <1>3, PTL DEF ReviewerSpec
==============================================================================
