--------------------------- MODULE IngestSockets ---------------------------
(***************************************************************************)
(* The /ws/ingest sockets of the browser's analysis worker                 *)
(* (api/ingest.py) and what their handlers do to the one BrowserSource     *)
(* they share (camera/browser.py): the admission while the Object Learning *)
(* Studio is closed, the handshake that opens a client session, and the    *)
(* frames, which are decoded and stored on a worker thread.                *)
(*                                                                         *)
(* A handler runs alone from one await to the next. The browser slot       *)
(* itself is in FramePipeline; here a frame matters for whose clock it is  *)
(* stamped with and which number it gets in its session.                   *)
(***************************************************************************)
EXTENDS Integers, FiniteSets

CONSTANTS
    Conns,      \* the connections of a behaviour
    MaxFrames,  \* bound: frame messages that reach submit
    Overlaps,   \* whether a client may connect while another socket is served
    Nobody      \* no connection

VARIABLES
    overlap,        \* fixed for a behaviour
    studioActive, studioSession,   \* the Studio: open or not, and its sessions so far
    socket,         \* where each connection's handler is
    admittedIn,     \* studioSession when the connection was admitted (history)
    clockOf,        \* whose clock offset _clock_offset is
    seq,            \* _seq
    frameId,        \* _frame_id, and _submitted - 1
    decodeFailures, \* _decode_failures
    statsFrames,    \* ingest_stats["frames"]
    sent,           \* frames stored per connection (history)
    last            \* the last frame stored (history)

sourceVars == <<clockOf, seq, frameId, decodeFailures, sent, last>>

NoFrame == [conn |-> Nobody, clock |-> Nobody, seq |-> -1, nth |-> -1, late |-> FALSE]

IngestInit ==
    /\ overlap \in Overlaps
    /\ socket = [c \in Conns |-> "none"]
    /\ admittedIn = [c \in Conns |-> 0]
    /\ clockOf = Nobody
    /\ seq = -1 /\ frameId = -1
    /\ decodeFailures = 0
    /\ statsFrames = 0
    /\ sent = [c \in Conns |-> 0]
    /\ last = NoFrame

Goto(c, to) == socket' = [socket EXCEPT ![c] = to]
Served(c) == socket[c] \notin {"none", "closed"}
InSubmit == {c \in Conns : socket[c] \in {"submit", "submitted"}}

---------------------------------------------------------------------------

\* ws_ingest up to accept(): refused while the Studio is open.
Admitted == ~studioActive

Connect(c) ==
    /\ socket[c] = "none"
    /\ overlap \/ \A d \in Conns : ~Served(d)
    /\ \/ Admitted /\ Goto(c, "hello") /\ admittedIn' = [admittedIn EXCEPT ![c] = studioSession]
       \/ ~Admitted /\ Goto(c, "closed") /\ UNCHANGED admittedIn
    /\ UNCHANGED <<overlap, sourceVars, statsFrames>>

\* _handshake: the hello is acknowledged with the server's clock ...
Hello(c) ==
    /\ socket[c] = "hello"
    /\ Goto(c, "echo")
    /\ UNCHANGED <<overlap, admittedIn, sourceVars, statsFrames>>

\* ... and with the echo begin_client_session() starts the client's session.
\* Mutant: the numbering goes on from the session before.
KeepSeq == UNCHANGED seq

ResetSeq == seq' = -1

Echo(c) ==
    /\ socket[c] = "echo"
    /\ clockOf' = c
    /\ ResetSeq
    /\ Goto(c, "receive")
    /\ UNCHANGED <<overlap, admittedIn, frameId, decodeFailures, sent, last, statsFrames>>

\* Timeout, garbage or a disconnect during the handshake.
HandshakeFails(c) ==
    /\ socket[c] \in {"hello", "echo"}
    /\ Goto(c, "closed")
    /\ UNCHANGED <<overlap, admittedIn, sourceVars, statsFrames>>

\* A well-formed message goes to submit on a worker thread. (A malformed one is
\* counted, twice over, and the handler waits for the next.)
Receive(c) ==
    /\ socket[c] = "receive"
    /\ statsFrames + Cardinality(InSubmit) < MaxFrames
    /\ Goto(c, "submit")
    /\ UNCHANGED <<overlap, admittedIn, sourceVars, statsFrames>>

\* submit(): the frame is decoded, then numbered and stamped under the lock with
\* the offset in force at that moment; or it is not decodable.
NoteFailure == decodeFailures' = decodeFailures + 1

Submit(c) ==
    /\ socket[c] = "submit"
    /\ Goto(c, "submitted")
    /\ \/ /\ seq' = seq + 1
          /\ frameId' = frameId + 1
          /\ sent' = [sent EXCEPT ![c] = @ + 1]
          /\ last' = [conn |-> c, clock |-> clockOf, seq |-> seq + 1, nth |-> sent[c],
                      late |-> studioActive]
          /\ UNCHANGED decodeFailures
       \/ NoteFailure /\ UNCHANGED <<seq, frameId, sent, last>>
    /\ UNCHANGED <<overlap, admittedIn, clockOf, statsFrames>>

\* Back on the event loop.
Count(c) ==
    /\ socket[c] = "submitted"
    /\ statsFrames' = statsFrames + 1
    /\ Goto(c, "receive")
    /\ UNCHANGED <<overlap, admittedIn, sourceVars>>

\* A disconnect is seen only while the handler waits for a message.
Disconnect(c) ==
    /\ socket[c] = "receive"
    /\ Goto(c, "closed")
    /\ UNCHANGED <<overlap, admittedIn, sourceVars, statsFrames>>

IngestNext ==
    \E c \in Conns :
        \/ Connect(c) \/ Hello(c) \/ Echo(c) \/ HandshakeFails(c)
        \/ Receive(c) \/ Submit(c) \/ Count(c) \/ Disconnect(c)

---------------------------------------------------------------------------
(* Properties. *)

\* Every variable has its type.
IngestTypeOK ==
    /\ socket \in [Conns -> {"none", "hello", "echo", "receive", "submit", "submitted", "closed"}]
    /\ clockOf \in Conns \union {Nobody}
    /\ seq \in -1 .. MaxFrames - 1 /\ frameId \in -1 .. MaxFrames - 1
    /\ statsFrames \in 0 .. MaxFrames

\* The handlers' count of frames and the source's counts tell the same story: they
\* differ by the frames whose handler has not come back from the worker thread.
CountsAgree ==
    statsFrames + Cardinality({c \in Conns : socket[c] = "submitted"})
        = frameId + 1 + decodeFailures

\* A frame can come in while the Studio is open only over a connection that was
\* admitted before this Studio session began.
OnlyOldSockets == last.late => admittedIn[last.conn] < studioSession

\* As long as a client connects only after the socket before it is done, every
\* frame is stamped with its own client's clock, and the frames of a session are
\* numbered from 0 without a gap.
OwnSession ==
    ~overlap /\ last # NoFrame => last.clock = last.conn /\ last.seq = last.nth

\* Together: what the sockets promise, whatever the Studio does.
SocketsAreSound == CountsAgree /\ OnlyOldSockets /\ OwnSession

\* What the comment at the guard of ws_ingest says: no frame reaches the pipeline
\* while the Studio is open.
FramesStayOut == ~last.late
=============================================================================
