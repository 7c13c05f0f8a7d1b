---------------------------- MODULE AnalysisWorker ----------------------------
(***************************************************************************)
(* The Web Worker that samples the camera for analysis                     *)
(* (api/static/analysis-worker.js): every frame of the stream is dropped,  *)
(* or drawn, encoded and sent over /ws/ingest. One thread, but an encode   *)
(* awaits, and frames, messages and the socket's events come in between.   *)
(*                                                                         *)
(* Frames are numbered; the number is also the time it was taken, in frame *)
(* periods. Bytes queued in the socket are counted in messages.            *)
(***************************************************************************)
EXTENDS Naturals, Sequences, SequencesExt

CONSTANTS
    Interval,       \* 1000 / cfg.fps, in frame periods
    Ceiling,        \* cfg.maxWsBufferedBytes, in messages
    MaxFrames       \* bound: frames of the stream

ASSUME WorkerAssumption ==
    Interval \in Nat \ {0} /\ Ceiling \in Nat /\ MaxFrames \in Nat

VARIABLES
    frame,          \* framesIn = framesClosed
    socket,         \* "connecting", "open" or "closed"
    ready,          \* the handshake is complete
    encodeBusy,
    encoding,       \* images being encoded
    pendingCapMs, lastSendMs,
    seq,            \* seq of the next message
    buffered,       \* ws.bufferedAmount
    wire,           \* messages sent
    passedOver      \* skipThrottle + skipBusy + skipBackpressure + encode errors

workerVars == <<frame, socket, ready, encodeBusy, encoding, pendingCapMs, lastSendMs, seq, buffered, wire, passedOver>>

WorkerInit ==
    /\ frame = 0 /\ socket = "connecting" /\ ready = FALSE
    /\ encodeBusy = FALSE /\ encoding = {}
    /\ pendingCapMs = 0 /\ lastSendMs = 0 /\ seq = 0
    /\ buffered = 0 /\ wire = << >> /\ passedOver = 0

-----------------------------------------------------------------------------
\* connect(): hello, and its answer.
SocketOpens ==
    /\ socket = "connecting"
    /\ socket' = "open"
    /\ UNCHANGED <<frame, ready, encodeBusy, encoding, pendingCapMs, lastSendMs, seq, buffered, wire, passedOver>>

HelloAck ==
    /\ socket = "open" /\ ~ready
    /\ ready' = TRUE
    /\ UNCHANGED <<frame, socket, encodeBusy, encoding, pendingCapMs, lastSendMs, seq, buffered, wire, passedOver>>

\* Nothing connects again: the page makes a new worker with the next stream.
SocketCloses ==
    /\ socket /= "closed"
    /\ socket' = "closed" /\ ready' = FALSE
    /\ UNCHANGED <<frame, encodeBusy, encoding, pendingCapMs, lastSendMs, seq, buffered, wire, passedOver>>

Drains ==
    /\ socket = "open" /\ buffered > 0
    /\ buffered' = buffered - 1
    /\ UNCHANGED <<frame, socket, ready, encodeBusy, encoding, pendingCapMs, lastSendMs, seq, wire, passedOver>>

-----------------------------------------------------------------------------
\* Mutant: a frame may overtake an encode.
NeverBusy == FALSE

Busy == encodeBusy

HasRoom == buffered <= Ceiling

\* dropReason: in this order; without a connection the frame is not counted.
Dropped(t) ==
    \/ ~ready \/ socket /= "open"
    \/ t - lastSendMs < Interval
    \/ Busy
    \/ ~HasRoom

\* handleFrame and the start of finishEncode. Drawing may fail; the frame is
\* closed either way.
FrameArrives ==
    /\ frame < MaxFrames
    /\ frame' = frame + 1
    /\ IF Dropped(frame')
         THEN /\ passedOver' = IF ready /\ socket = "open" THEN passedOver + 1 ELSE passedOver
              /\ UNCHANGED <<lastSendMs, pendingCapMs, encodeBusy, encoding>>
         ELSE /\ lastSendMs' = frame' /\ pendingCapMs' = frame'
              /\ \/ encodeBusy' = TRUE /\ encoding' = encoding \cup {frame'} /\ UNCHANGED passedOver
                 \/ encodeBusy' = FALSE /\ passedOver' = passedOver + 1 /\ UNCHANGED encoding
    /\ UNCHANGED <<socket, ready, seq, buffered, wire>>

\* The rest of finishEncode: the header is made only now.
FinishEncode(image) ==
    /\ image \in encoding
    /\ encoding' = encoding \ {image}
    /\ encodeBusy' = FALSE
    /\ IF socket = "open" /\ HasRoom
         THEN /\ wire' = Append(wire, [seq |-> seq, cap |-> pendingCapMs, image |-> image])
              /\ seq' = seq + 1 /\ buffered' = buffered + 1
              /\ UNCHANGED passedOver
         ELSE passedOver' = passedOver + 1 /\ UNCHANGED <<wire, seq, buffered>>
    /\ UNCHANGED <<frame, socket, ready, pendingCapMs, lastSendMs>>

EncodeFails(image) ==
    /\ image \in encoding
    /\ encoding' = encoding \ {image}
    /\ encodeBusy' = FALSE /\ passedOver' = passedOver + 1
    /\ UNCHANGED <<frame, socket, ready, pendingCapMs, lastSendMs, seq, buffered, wire>>

WorkerNext ==
    \/ SocketOpens \/ HelloAck \/ SocketCloses \/ Drains \/ FrameArrives
    \/ \E image \in encoding : FinishEncode(image) \/ EncodeFails(image)

WorkerSpec == WorkerInit /\ [][WorkerNext]_workerVars

-----------------------------------------------------------------------------
\* Properties.

\* The capture time in a header is that of the image behind it, though it is read
\* from a variable of the worker after an await; and images leave in the order
\* they were taken, under consecutive numbers.
HeaderIsOfItsImage ==
    /\ \A i \in DOMAIN wire : wire[i].cap = wire[i].image /\ wire[i].seq = i - 1
    /\ \A i, j \in DOMAIN wire : i < j => wire[i].image < wire[j].image

\* A link that does not drain never holds more than one message past the ceiling.
QueueBounded == buffered <= Ceiling + 1

\* Together: what is on the wire, and how much of it.
WireIsTrue == HeaderIsOfItsImage /\ QueueBounded
=============================================================================
