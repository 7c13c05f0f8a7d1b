--------------------------- MODULE FramePipeline ---------------------------
(***************************************************************************)
(* The live frame path: BrowserSource (camera/browser.py) -> producer      *)
(* thread -> LatestFrameMailbox (camera/mailbox.py) -> consumer thread ->  *)
(* one analysis iteration (pipeline/loop.py), with the completion and the  *)
(* timer scheduler (pipeline/scheduler.py), pause/resume, the debug stall  *)
(* and the shutdown of AnalysisLoop.                                       *)
(*                                                                         *)
(* Each action is one section that the code runs under one lock, or the    *)
(* code between two points where another thread can interfere. A frame is  *)
(* its frame_id; the ids are handed out in order by submit.                *)
(***************************************************************************)
EXTENDS Integers

CONSTANTS
    MaxFrames,   \* bound: frames submitted in a behaviour
    Schedulers,  \* config consumer.scheduler values to consider
    AgeGuards    \* whether analysis.max_frame_age_ms is set, values to consider

\* What ConsumerConfig and AnalysisConfig leave to choose.
LoopConfig == [scheduler : {"completion", "timer"}, ageGuard : BOOLEAN]

ASSUME BoundAssumption == MaxFrames \in Nat
ASSUME ConfigAssumption ==
    [scheduler : Schedulers, ageGuard : AgeGuards] \subseteq LoopConfig

NoFrame == -1
Frames == 0 .. (MaxFrames - 1)
Slot == Frames \union {NoFrame}

Phases == {"new", "running", "join_consumer", "join_producer", "stop_source", "stopped"}
Errors == {"none", "consumer", "join_consumer", "join_producer"}

VARIABLES
    config,       \* [scheduler, ageGuard], fixed when the loop is built
    \* BrowserSource
    frameId,      \* _frame_id, and _submitted - 1: the newest decoded frame
    srcSlot,      \* _slot
    ready,        \* _frame_ready
    srcDropped,   \* _dropped
    sourceRunning,\* _running
    \* LatestFrameMailbox
    mbox,         \* _slot
    notified,     \* the consumer in Condition.wait has been notified
    consumed,     \* _consumed
    mboxDropped,  \* _dropped
    \* producer thread
    prodPc, prodFrame,
    \* consumer thread and its iteration
    consPc, consFrame,
    taken,        \* the last frame got from the mailbox (history)
    analysed,     \* frames that perception really ran on (history)
    droppedStale, \* _dropped_stale
    infoSubmitted, infoDropped,  \* source.info() as read by the iteration
    \* AnalysisLoop
    phase, stopEvt, paused, stalled, error,
    sincePause    \* snapshots emitted under the pause() in force (history)

sourceVars   == <<frameId, srcSlot, ready, srcDropped>>
mailboxVars  == <<mbox, notified, consumed, mboxDropped>>
producerVars == <<prodPc, prodFrame>>
iterVars     == <<consFrame, taken, analysed, droppedStale, infoSubmitted, infoDropped>>
loopVars     == <<phase, stopEvt, paused, stalled, error>>
vars == <<config, sourceVars, sourceRunning, mailboxVars, producerVars, consPc,
          iterVars, loopVars, sincePause>>

Held(slot) == IF slot = NoFrame THEN 0 ELSE 1

\* The counters as the code derives them.
Submitted == frameId + 1
FramesAnalysed == consumed - droppedStale

FirstError(e) == IF error = "none" THEN e ELSE error

Init ==
    /\ config \in [scheduler : Schedulers, ageGuard : AgeGuards]
    /\ frameId = -1
    /\ srcSlot = NoFrame
    /\ ready = FALSE
    /\ srcDropped = 0
    /\ sourceRunning = FALSE
    /\ mbox = NoFrame
    /\ notified = FALSE
    /\ consumed = 0
    /\ mboxDropped = 0
    /\ prodPc = "unstarted"
    /\ prodFrame = NoFrame
    /\ consPc = "unstarted"
    /\ consFrame = NoFrame
    /\ taken = NoFrame
    /\ analysed = 0
    /\ droppedStale = 0
    /\ infoSubmitted = 0
    /\ infoDropped = 0
    /\ phase = "new"
    /\ stopEvt = FALSE
    /\ paused = FALSE
    /\ stalled = FALSE
    /\ error = "none"
    /\ sincePause = 0

---------------------------------------------------------------------------
(* BrowserSource, called from the ingest worker threads. *)

\* submit() with a frame that decodes: number it, drop what still waits. It
\* never looks at _running. (A frame that does not decode counts in
\* _decode_failures only and gets no number.)
\* Mutant: the frame is stored and nobody is told.
SignalReadyForgotten == UNCHANGED ready

SignalReady == ready' = TRUE

Submit ==
    /\ frameId + 1 < MaxFrames
    /\ frameId' = frameId + 1
    /\ srcDropped' = srcDropped + Held(srcSlot)
    /\ srcSlot' = frameId + 1
    /\ SignalReady
    /\ UNCHANGED <<config, sourceRunning, mailboxVars, producerVars, consPc, iterVars,
                   loopVars, sincePause>>

---------------------------------------------------------------------------
(* Producer thread: AnalysisLoop._run_producer. *)

\* Mutant: the pause is looked at before the stop.
PauseBeforeStop == stopEvt /\ ~paused

ProducerShouldStop == stopEvt

ProducerStops ==
    /\ prodPc = "head" /\ ProducerShouldStop
    /\ prodPc' = "done"
    /\ UNCHANGED <<config, sourceVars, sourceRunning, mailboxVars, prodFrame, consPc,
                   iterVars, loopVars, sincePause>>

\* Not stopped; then, unless the loop is paused, on to source.read(). Stop and
\* pause may come or go between the two looks.
ProducerGoesOn ==
    /\ prodPc = "head" /\ ~stopEvt
    /\ prodPc' = "unstopped"
    /\ UNCHANGED <<config, sourceVars, sourceRunning, mailboxVars, prodFrame, consPc,
                   iterVars, loopVars, sincePause>>

ProducerCalls ==
    /\ prodPc = "unstopped"
    /\ prodPc' = IF paused THEN "head" ELSE "read"
    /\ UNCHANGED <<config, sourceVars, sourceRunning, mailboxVars, prodFrame, consPc,
                   iterVars, loopVars, sincePause>>

\* read() returns None without touching the slot: the source is not running,
\* or no frame came within read_timeout_s. The thread ends on a source that
\* is not running.
ReadNothing ==
    /\ prodPc = "read"
    /\ ~ready \/ ~sourceRunning
    /\ prodPc' = IF sourceRunning THEN "head" ELSE "done"
    /\ UNCHANGED <<config, sourceVars, sourceRunning, mailboxVars, prodFrame, consPc,
                   iterVars, loopVars, sincePause>>

\* read() was let through by _frame_ready: it empties the slot, and gives the
\* frame up when the source was stopped meanwhile.
ReadSlot ==
    /\ prodPc = "read" /\ ready
    /\ srcSlot' = NoFrame
    /\ ready' = FALSE
    /\ \/ /\ ~sourceRunning
          /\ prodPc' = "done"
          /\ UNCHANGED prodFrame
       \/ /\ sourceRunning /\ srcSlot = NoFrame
          /\ prodPc' = "head"
          /\ UNCHANGED prodFrame
       \/ /\ sourceRunning /\ srcSlot # NoFrame
          /\ prodPc' = "put"
          /\ prodFrame' = srcSlot
    /\ UNCHANGED <<config, frameId, srcDropped, sourceRunning, mailboxVars, consPc,
                   iterVars, loopVars, sincePause>>

\* LatestFrameMailbox.put: newest wins, and the waiting consumer is notified.
\* Mutants: the drop is not counted; the waiting frame wins; no notify.
PutUncounted(frame) ==
    /\ mbox' = frame
    /\ notified' = (notified \/ consPc = "wait")
    /\ UNCHANGED mboxDropped

PutOldestWins(frame) ==
    /\ mboxDropped' = mboxDropped + Held(mbox)
    /\ mbox' = IF mbox = NoFrame THEN frame ELSE mbox
    /\ notified' = (notified \/ consPc = "wait")

PutSilently(frame) ==
    /\ mboxDropped' = mboxDropped + Held(mbox)
    /\ mbox' = frame
    /\ UNCHANGED notified

PutMailbox(frame) ==
    /\ mboxDropped' = mboxDropped + Held(mbox)
    /\ mbox' = frame
    /\ notified' = (notified \/ consPc = "wait")

Put ==
    /\ prodPc = "put"
    /\ PutMailbox(prodFrame)
    /\ prodFrame' = NoFrame
    /\ prodPc' = "head"
    /\ UNCHANGED <<config, sourceVars, sourceRunning, consumed, consPc, iterVars,
                   loopVars, sincePause>>

Producer == ProducerStops \/ ProducerGoesOn \/ ProducerCalls \/ ReadNothing \/ ReadSlot \/ Put

---------------------------------------------------------------------------
(* Consumer thread: run_completion_consumer or _run_consumer_timer, then    *)
(* AnalysisLoop._iterate.                                                   *)

ConsumerStops ==
    /\ consPc = "head" /\ stopEvt
    /\ consPc' = "done"
    /\ UNCHANGED <<config, sourceVars, sourceRunning, mailboxVars, producerVars, iterVars,
                   loopVars, sincePause>>

\* One look each for stop, pause and stall, and any of them may come or go in
\* between. The rate ceiling and the timer's next_due only delay these steps.
ConsumerGoesOn ==
    /\ consPc = "head" /\ ~stopEvt
    /\ consPc' = "unstopped"
    /\ UNCHANGED <<config, sourceVars, sourceRunning, mailboxVars, producerVars, iterVars,
                   loopVars, sincePause>>

\* Mutant: only the producer honours the pause.
IgnorePause == TRUE

ConsumerMayRun == ~paused

ConsumerLooksForPause ==
    /\ consPc = "unstopped"
    /\ consPc' = IF ConsumerMayRun THEN "unpaused" ELSE "head"
    /\ UNCHANGED <<config, sourceVars, sourceRunning, mailboxVars, producerVars, iterVars,
                   loopVars, sincePause>>

ConsumerCalls ==
    /\ consPc = "unpaused"
    /\ consPc' = IF stalled THEN "head" ELSE "get"
    /\ UNCHANGED <<config, sourceVars, sourceRunning, mailboxVars, producerVars, iterVars,
                   loopVars, sincePause>>

\* The end of LatestFrameMailbox.get: whatever waits is taken and counted.
TakeWaiting ==
    /\ consFrame' = mbox
    /\ taken' = IF mbox = NoFrame THEN taken ELSE mbox
    /\ mbox' = NoFrame
    /\ consumed' = consumed + Held(mbox)
    /\ notified' = FALSE
    /\ consPc' = "age"

\* get(block=True) with an empty slot goes to sleep in Condition.wait.
GetBlocks ==
    /\ consPc = "get" /\ config.scheduler = "completion" /\ mbox = NoFrame
    /\ consPc' = "wait"
    /\ UNCHANGED <<config, sourceVars, sourceRunning, mailboxVars, producerVars, iterVars,
                   loopVars, sincePause>>

GetReturns ==
    /\ consPc = "get"
    /\ config.scheduler = "timer" \/ mbox # NoFrame
    /\ TakeWaiting
    /\ UNCHANGED <<config, sourceVars, sourceRunning, mboxDropped, producerVars, analysed,
                   droppedStale, infoSubmitted, infoDropped, loopVars, sincePause>>

\* Condition.wait ends: notified, or idle_poll_timeout_s is over.
WaitEnds ==
    /\ consPc = "wait"
    /\ TakeWaiting
    /\ UNCHANGED <<config, sourceVars, sourceRunning, mboxDropped, producerVars, analysed,
                   droppedStale, infoSubmitted, infoDropped, loopVars, sincePause>>

\* The staleness guard: a frame too old at dequeue is counted and not analysed.
DropStale ==
    /\ droppedStale' = droppedStale + 1
    /\ consFrame' = NoFrame

CheckAge ==
    /\ consPc = "age"
    /\ \/ UNCHANGED <<droppedStale, consFrame>>
       \/ config.ageGuard /\ consFrame # NoFrame /\ DropStale
    /\ consPc' = "analyse"
    /\ UNCHANGED <<config, sourceVars, sourceRunning, mailboxVars, producerVars, taken,
                   analysed, infoSubmitted, infoDropped,
                   loopVars, sincePause>>

\* Perception and tracker, for a frame that is there and fresh. An error of the
\* perception engine is contained in _run_perception.
Analyse ==
    /\ consPc = "analyse"
    /\ analysed' = analysed + Held(consFrame)
    /\ consPc' = "info"
    /\ UNCHANGED <<config, sourceVars, sourceRunning, mailboxVars, producerVars, consFrame,
                   taken, droppedStale, infoSubmitted, infoDropped,
                   loopVars, sincePause>>

\* Anything else that raises in the iteration ends the thread: _run_consumer
\* records the error and returns.
AnalyseRaises ==
    /\ consPc = "analyse" /\ consFrame # NoFrame
    /\ analysed' = analysed + 1
    /\ error' = FirstError("consumer")
    /\ consPc' = "done"
    /\ UNCHANGED <<config, sourceVars, sourceRunning, mailboxVars, producerVars, consFrame,
                   taken, droppedStale, infoSubmitted, infoDropped, phase, stopEvt, paused, stalled, sincePause>>

\* _add_frame_counters, first half: source.info() under the source's lock.
ReadInfo ==
    /\ consPc = "info"
    /\ infoSubmitted' = Submitted
    /\ infoDropped' = srcDropped
    /\ consPc' = "emit"
    /\ UNCHANGED <<config, sourceVars, sourceRunning, mailboxVars, producerVars, consFrame,
                   taken, analysed, droppedStale,
                   loopVars, sincePause>>

\* Second half: the mailbox counters, frames_in_flight, and the snapshot that
\* reports it.
\* Mutant: the source's own drops are left out of the balance.
FramesInFlightForgetful ==
    infoSubmitted - FramesAnalysed - droppedStale - mboxDropped

FramesInFlight ==
    infoSubmitted - FramesAnalysed - droppedStale - infoDropped - mboxDropped

Emit ==
    /\ consPc = "emit"
    /\ consFrame' = NoFrame
    /\ infoSubmitted' = 0 /\ infoDropped' = 0
    /\ consPc' = "head"
    /\ sincePause' = IF paused THEN sincePause + 1 ELSE sincePause
    /\ UNCHANGED <<config, sourceVars, sourceRunning, mailboxVars, producerVars, taken,
                   analysed, droppedStale, loopVars>>

Consumer ==
    \/ ConsumerStops \/ ConsumerGoesOn \/ ConsumerLooksForPause \/ ConsumerCalls
    \/ GetBlocks \/ GetReturns \/ WaitEnds \/ CheckAge \/ Analyse \/ AnalyseRaises \/ ReadInfo \/ Emit

---------------------------------------------------------------------------
(* AnalysisLoop, called from the application's threads. *)

LoopStart ==
    /\ phase = "new"
    /\ phase' = "running"
    /\ sourceRunning' = TRUE
    /\ prodPc' = "head"
    /\ consPc' = "head"
    /\ UNCHANGED <<config, sourceVars, mailboxVars, prodFrame, iterVars, stopEvt, paused,
                   stalled, error, sincePause>>

Pause ==
    /\ ~paused
    /\ paused' = TRUE
    /\ sincePause' = 0
    /\ UNCHANGED <<config, sourceVars, sourceRunning, mailboxVars, producerVars, consPc,
                   iterVars, phase, stopEvt, stalled, error>>

Resume ==
    /\ paused
    /\ paused' = FALSE
    /\ sincePause' = 0
    /\ UNCHANGED <<config, sourceVars, sourceRunning, mailboxVars, producerVars, consPc,
                   iterVars, phase, stopEvt, stalled, error>>

RequestStall ==
    /\ ~stalled
    /\ stalled' = TRUE
    /\ UNCHANGED <<config, sourceVars, sourceRunning, mailboxVars, producerVars, consPc,
                   iterVars, phase, stopEvt, paused, error, sincePause>>

\* The clamped stall deadline (at most _MAX_STALL_S) passes.
StallExpires ==
    /\ stalled
    /\ stalled' = FALSE
    /\ UNCHANGED <<config, sourceVars, sourceRunning, mailboxVars, producerVars, consPc,
                   iterVars, phase, stopEvt, paused, error, sincePause>>

\* stop() before start(): the loop can never be started.
StopUnstarted ==
    /\ phase = "new"
    /\ phase' = "stopped"
    /\ UNCHANGED <<config, sourceVars, sourceRunning, mailboxVars, producerVars, consPc,
                   iterVars, stopEvt, paused, stalled, error, sincePause>>

\* stop(): raise the event, then mailbox.wake().
LoopStop ==
    /\ phase = "running"
    /\ phase' = "join_consumer"
    /\ stopEvt' = TRUE
    /\ notified' = (notified \/ consPc = "wait")
    /\ UNCHANGED <<config, sourceVars, sourceRunning, mbox, consumed, mboxDropped,
                   producerVars, consPc, iterVars, paused, stalled, error, sincePause>>

\* join(timeout) of the consumer, then of the producer: the thread has ended, or
\* the time is over and the error is recorded.
\* Mutants: a join that times out goes unnoticed; it is recorded under the place
\* where the thread is.
JoinUnchecked(from, pc) == error

JoinMisnamed(from, pc) == IF pc = "done" THEN error ELSE FirstError(pc)

JoinOutcome(from, pc) == IF pc = "done" THEN error ELSE FirstError(from)

Join(from, to, pc) ==
    /\ phase = from
    /\ phase' = to
    /\ error' = JoinOutcome(from, pc)
    /\ UNCHANGED <<config, sourceVars, sourceRunning, mailboxVars, producerVars, consPc,
                   iterVars, stopEvt, paused, stalled, sincePause>>

JoinConsumer == Join("join_consumer", "join_producer", consPc)
JoinProducer == Join("join_producer", "stop_source", prodPc)

\* source.stop(): not running any more, and a blocked read() is released.
StopSource ==
    /\ phase = "stop_source"
    /\ phase' = "stopped"
    /\ sourceRunning' = FALSE
    /\ ready' = TRUE
    /\ UNCHANGED <<config, frameId, srcSlot, srcDropped, mailboxVars, producerVars, consPc,
                   iterVars, stopEvt, paused, stalled, error, sincePause>>

Stopping == JoinConsumer \/ JoinProducer \/ StopSource

Control == LoopStart \/ Pause \/ Resume \/ RequestStall \/ StallExpires
           \/ StopUnstarted \/ LoopStop \/ Stopping

Next == Submit \/ Producer \/ Consumer \/ Control

\* Both threads run whenever they can (every wait in them has a timeout and
\* perception returns), a stop() that began goes on, and time passes. Nobody
\* has to submit, pause, resume, stall or stop.
Fairness ==
    /\ WF_vars(Producer)
    /\ WF_vars(Consumer)
    /\ WF_vars(Stopping)
    /\ WF_vars(StallExpires)

Spec == Init /\ [][Next]_vars
FairSpec == Spec /\ Fairness

---------------------------------------------------------------------------
(* Properties. *)

\* Every variable has its type.
PlacesOK ==
    /\ frameId \in Slot /\ srcSlot \in Slot /\ mbox \in Slot
    /\ prodFrame \in Slot /\ consFrame \in Slot /\ taken \in Slot

CountersOK ==
    /\ srcDropped \in Nat /\ consumed \in Nat /\ mboxDropped \in Nat
    /\ analysed \in Nat /\ droppedStale \in Nat
    /\ infoSubmitted \in Nat /\ infoDropped \in Nat /\ sincePause \in Nat

FlagsOK ==
    /\ ready \in BOOLEAN /\ sourceRunning \in BOOLEAN /\ notified \in BOOLEAN
    /\ stopEvt \in BOOLEAN /\ paused \in BOOLEAN /\ stalled \in BOOLEAN

ControlOK ==
    /\ config \in [scheduler : Schedulers, ageGuard : AgeGuards]
    /\ prodPc \in {"unstarted", "head", "unstopped", "read", "put", "done"}
    /\ consPc \in {"unstarted", "head", "unstopped", "unpaused", "get", "wait", "age", "analyse",
                   "info", "emit", "done"}
    /\ phase \in Phases
    /\ error \in Errors

TypeOK == PlacesOK /\ CountersOK /\ FlagsOK /\ ControlOK

\* The counter identity of _add_frame_counters: every frame that was decoded is
\* consumed, dropped by the browser buffer, dropped by the mailbox, or in one of
\* the three places a frame can wait. It holds at every moment of every
\* interleaving, until the source has been stopped.
Accounted ==
    consumed + mboxDropped + srcDropped + Held(srcSlot) + Held(prodFrame) + Held(mbox)

Reconciles == phase # "stopped" => Submitted = Accounted

\* frames_analysed, which the code derives as consumed - dropped_stale, is the
\* number of frames perception really ran on, but for the one in the consumer's
\* hands: no stale frame is analysed and no analysed frame is counted stale.
BeingDecided == IF consPc \in {"age", "analyse"} THEN Held(consFrame) ELSE 0
AnalysedIsTrue == FramesAnalysed = analysed + BeingDecided

\* Together: the counters a snapshot reports.
CountersTrue == Reconciles /\ AnalysedIsTrue

\* The frames_in_flight of a snapshot never shows more than the three places a
\* frame can wait, however late its two readings are taken.
InFlightAtMostThree == consPc = "emit" => FramesInFlight <= 3

\* After pause() returns, the consumer finishes the iteration or the get() it was
\* in: at most one more snapshot, whatever the two threads were doing.
PauseOvershootsOnce == sincePause <= 1

\* stop() that reports no error has really ended both threads: none of them can
\* read a frame or emit a snapshot any more.
CleanStop ==
    phase = "stopped" /\ error = "none" =>
        /\ prodPc \in {"unstarted", "done"}
        /\ consPc \in {"unstarted", "done"}

\* A consumer asleep in get() over a frame has been notified: it does not depend
\* on the poll timeout to see it.
NoLostWakeup == consPc = "wait" /\ mbox # NoFrame => notified

\* The path from submit to get is a newest-wins channel.
Channel == INSTANCE NewestWins WITH
    produced <- frameId,
    pending <- {srcSlot, prodFrame, mbox} \ {NoFrame},
    delivered <- taken,
    closed <- phase = "stopped"

ImplementsNewestWins == Channel!Spec

\* If the loop runs on, neither paused nor stalled, then once the camera has gone
\* quiet (after MaxFrames frames at the latest) its last frame has reached the
\* consumer: the newest frame is never left behind in a slot.
Healthy == phase = "running" /\ ~paused /\ ~stalled /\ consPc # "done"
NewestArrives == <>[]Healthy => <>[](taken = frameId)

\* Once stop() has begun both threads end and it returns, paused or not.
StopEnds == stopEvt ~> (phase = "stopped" /\ prodPc = "done" /\ consPc = "done")

\* What the docstring of _add_frame_counters says of frames_in_flight: a small
\* transient 0..3.
InFlightTransient == consPc = "emit" => FramesInFlight \in 0 .. 3
=============================================================================
