------------------------ MODULE FramePipelineProofs ------------------------
(***************************************************************************)
(* Proofs about FramePipeline, for any number of frames, either scheduler  *)
(* and with or without the age guard.                                      *)
(***************************************************************************)
EXTENDS FramePipeline, TLAPS

\* Frames leave each place in the order of their numbers, and the places on the
\* way hold them oldest first: what was taken, then the mailbox, the producer's
\* hands and the source slot.
Before(a, b) == a # NoFrame /\ b # NoFrame => a < b

InOrder ==
    /\ Before(taken, mbox) /\ Before(taken, prodFrame) /\ Before(taken, srcSlot)
    /\ Before(mbox, prodFrame) /\ Before(mbox, srcSlot)
    /\ Before(prodFrame, srcSlot)
    /\ taken <= frameId /\ mbox <= frameId /\ prodFrame <= frameId /\ srcSlot <= frameId

\* The producer holds a frame exactly between its read() and its put().
InHand == prodFrame # NoFrame <=> prodPc = "put"

\* The identity, with the one exception the code has: read() gives up a frame it
\* took from the slot of a stopped source, and the producer ends.
Balance ==
    \/ Submitted = Accounted
    \/ /\ Submitted = Accounted + 1
       /\ phase = "stopped" /\ prodPc = "done"

\* What ReadInfo saw is at most three frames ahead of what Emit will subtract.
InfoFresh ==
    consPc = "emit" => infoSubmitted - infoDropped <= consumed + mboxDropped + 3

\* Neither thread exists before start(); the source runs from start() until
\* stop() has stopped it.
Lifecycle ==
    /\ phase = "new" => prodPc = "unstarted" /\ consPc = "unstarted"
    /\ phase \notin {"new", "stopped"} => sourceRunning

IInv == TypeOK /\ InOrder /\ InHand /\ Balance /\ InfoFresh /\ Lifecycle

\* A pause that has seen a snapshot has the consumer back at its loop head, not
\* past the look for the pause, or ended.
Overshoot ==
    \/ sincePause = 0
    \/ sincePause = 1 /\ paused /\ consPc \in {"head", "unstopped", "done"}

\* What each finished phase of stop() has established when no error is recorded.
Joined ==
    error = "none" =>
        /\ phase \in {"join_producer", "stop_source"} => consPc = "done"
        /\ phase = "stop_source" => prodPc = "done"

LEMMA TypeInit == Init => TypeOK
<1>1. Init => PlacesOK
  BY BoundAssumption DEF Init, PlacesOK, Slot, Frames, NoFrame
<1>2. Init => CountersOK
  BY DEF Init, CountersOK
<1>3. Init => FlagsOK
  BY DEF Init, FlagsOK
<1>4. Init => ControlOK
  BY DEF Init, ControlOK, Phases, Errors
<1> QED BY <1>1, <1>2, <1>3, <1>4 DEF TypeOK

LEMMA TypeStep == TypeOK /\ [Next]_vars => TypeOK'
<1> SUFFICES ASSUME TypeOK, [Next]_vars PROVE TypeOK'
  OBVIOUS
<1> USE DEF Held, FirstError, sourceVars, mailboxVars, producerVars, iterVars, loopVars
<1>1. CASE Submit
  <2> USE <1>1 DEF Submit, SignalReady
  <2>1. PlacesOK' BY BoundAssumption DEF TypeOK, PlacesOK, Slot, Frames, NoFrame
  <2>2. CountersOK' BY DEF TypeOK, CountersOK
  <2>3. FlagsOK' BY DEF TypeOK, FlagsOK
  <2>4. ControlOK' BY DEF TypeOK, ControlOK
  <2> QED BY <2>1, <2>2, <2>3, <2>4 DEF TypeOK
<1>2. CASE Producer
  <2> USE <1>2 DEF Producer, ProducerStops, ProducerShouldStop, ProducerGoesOn,
                   ProducerCalls, ReadNothing, ReadSlot, Put, PutMailbox
  <2>1. PlacesOK' BY DEF TypeOK, PlacesOK, Slot
  <2>2. CountersOK' BY DEF TypeOK, CountersOK
  <2>3. FlagsOK' BY DEF TypeOK, FlagsOK
  <2>4. ControlOK' BY DEF TypeOK, ControlOK
  <2> QED BY <2>1, <2>2, <2>3, <2>4 DEF TypeOK
<1>3. CASE Consumer
  <2> USE <1>3 DEF Consumer, ConsumerStops, ConsumerGoesOn, ConsumerLooksForPause,
                   ConsumerMayRun, ConsumerCalls, GetBlocks, GetReturns, WaitEnds, TakeWaiting, CheckAge, DropStale, Analyse,
                   AnalyseRaises, ReadInfo, Submitted, Emit
  <2>1. PlacesOK' BY DEF TypeOK, PlacesOK, Slot
  <2>2. CountersOK' BY BoundAssumption DEF TypeOK, PlacesOK, CountersOK, Slot, Frames, NoFrame
  <2>3. FlagsOK' BY DEF TypeOK, FlagsOK
  <2>4. ControlOK' BY DEF TypeOK, ControlOK, Errors
  <2> QED BY <2>1, <2>2, <2>3, <2>4 DEF TypeOK
<1>4. CASE Control
  <2> USE <1>4 DEF Control, LoopStart, Pause, Resume, RequestStall, StallExpires,
                   StopUnstarted, LoopStop, Stopping, JoinConsumer, JoinProducer, Join,
                   JoinOutcome, StopSource
  <2>1. PlacesOK' BY DEF TypeOK, PlacesOK
  <2>2. CountersOK' BY DEF TypeOK, CountersOK
  <2>3. FlagsOK' BY DEF TypeOK, FlagsOK
  <2>4. ControlOK' BY DEF TypeOK, ControlOK, Phases, Errors
  <2> QED BY <2>1, <2>2, <2>3, <2>4 DEF TypeOK
<1>5. CASE UNCHANGED vars
  BY <1>5 DEF vars, TypeOK, PlacesOK, CountersOK, FlagsOK, ControlOK
<1> QED BY <1>1, <1>2, <1>3, <1>4, <1>5 DEF Next

LEMMA TypeCorrect == Spec => []TypeOK
  BY TypeInit, TypeStep, PTL DEF Spec

---------------------------------------------------------------------------
(* Accounting and order. *)

LEMMA InductiveInvariant == Spec => []IInv
<1> USE DEF sourceVars, mailboxVars, producerVars, iterVars, loopVars
<1>1. Init => IInv
  <2> SUFFICES ASSUME Init, TypeOK PROVE IInv
    BY TypeInit
  <2> QED
    BY BoundAssumption DEF Init, IInv, InOrder, Before, InHand, Balance, Submitted, Accounted,
                           Held, InfoFresh, Lifecycle, NoFrame
<1>2. IInv /\ [Next]_vars => IInv'
  <2> SUFFICES ASSUME IInv, [Next]_vars, TypeOK' PROVE IInv'
    BY TypeStep DEF IInv
  <2> USE DEF IInv
  <2>0. PlacesOK /\ CountersOK /\ PlacesOK' /\ CountersOK' /\ NoFrame = -1
    BY DEF TypeOK, NoFrame
  <2>1. CASE Submit
    <3> USE <2>0, <2>1, BoundAssumption DEF Submit
    <3>1. InOrder' BY DEF InOrder, Before, PlacesOK, Slot, Frames
    <3>2. InHand' BY DEF InHand
    <3>3. Balance'
      BY DEF Balance, Submitted, Accounted, Held, PlacesOK, CountersOK, Slot, Frames
    <3>4. InfoFresh' /\ Lifecycle' BY DEF InfoFresh, Lifecycle
    <3> QED BY <3>1, <3>2, <3>3, <3>4
  <2>2. CASE Producer
    <3>1. CASE ProducerStops \/ ProducerGoesOn \/ ProducerCalls \/ ReadNothing
      BY <2>0, <3>1 DEF ProducerStops, ProducerGoesOn, ProducerCalls, ReadNothing, InOrder, Before,
                       InHand, Balance, Submitted, Accounted, Held, InfoFresh, Lifecycle
    <3>2. CASE ReadSlot
      <4> USE <2>0, <3>2, BoundAssumption DEF ReadSlot
      <4>1. prodFrame = NoFrame BY DEF InHand
      <4>2. InOrder' BY <4>1 DEF InOrder, Before, PlacesOK, Slot, Frames
      <4>3. InHand' BY <4>1 DEF InHand
      <4>4. Balance'
        BY <4>1 DEF Balance, Lifecycle, Submitted, Accounted, Held, PlacesOK, CountersOK,
                    Slot, Frames
      <4>5. InfoFresh' /\ Lifecycle' BY DEF InfoFresh, Lifecycle
      <4> QED BY <4>2, <4>3, <4>4, <4>5
    <3>3. CASE Put
      <4> USE <2>0, <3>3, BoundAssumption DEF Put, PutMailbox
      <4>1. prodFrame # NoFrame BY DEF InHand
      <4>2. InOrder' BY <4>1 DEF InOrder, Before, PlacesOK, Slot, Frames
      <4>3. InHand' BY DEF InHand
      <4>4. Balance'
        BY <4>1 DEF Balance, Submitted, Accounted, Held, PlacesOK, CountersOK, Slot, Frames
      <4>5. InfoFresh' /\ Lifecycle' BY DEF InfoFresh, Held, CountersOK, Lifecycle
      <4> QED BY <4>2, <4>3, <4>4, <4>5
    <3> QED BY <2>2, <3>1, <3>2, <3>3 DEF Producer
  <2>3. CASE Consumer
    <3>1. CASE ConsumerStops \/ ConsumerGoesOn \/ ConsumerLooksForPause \/ ConsumerCalls
               \/ GetBlocks
      BY <2>0, <3>1 DEF ConsumerStops, ConsumerGoesOn, ConsumerLooksForPause, ConsumerCalls,
                       GetBlocks, InOrder, Before, InHand,
                       Balance, Submitted, Accounted, Held, InfoFresh, Lifecycle
    <3>2. CASE GetReturns \/ WaitEnds
      <4> USE <2>0, <3>2, BoundAssumption DEF GetReturns, WaitEnds, TakeWaiting
      <4>1. InOrder' BY DEF InOrder, Before, PlacesOK, Slot, Frames
      <4>2. InHand' BY DEF InHand
      <4>3. Balance'
        BY DEF Balance, Submitted, Accounted, Held, PlacesOK, CountersOK, Slot, Frames
      <4>4. InfoFresh' /\ Lifecycle' BY DEF InfoFresh, Lifecycle
      <4> QED BY <4>1, <4>2, <4>3, <4>4
    <3>3. CASE CheckAge \/ Analyse \/ AnalyseRaises
      BY <2>0, <3>3 DEF CheckAge, Analyse, AnalyseRaises, InOrder, Before, InHand,
                       Balance, Submitted, Accounted, Held, InfoFresh, Lifecycle
    <3>4. CASE ReadInfo
      <4> USE <2>0, <3>4, BoundAssumption DEF ReadInfo
      <4>1. InOrder' /\ InHand' BY DEF InOrder, Before, InHand
      <4>2. Balance' BY DEF Balance, Submitted, Accounted, Held
      <4>3. Submitted <= Accounted + 1 /\ (prodFrame # NoFrame => Submitted = Accounted)
        BY DEF Balance, InHand, Submitted, Accounted, Held, PlacesOK, CountersOK, Slot, Frames
      <4>4. InfoFresh' /\ Lifecycle'
        BY <4>3 DEF InfoFresh, Lifecycle, Submitted, Accounted, Held, PlacesOK, CountersOK, Slot, Frames
      <4> QED BY <4>1, <4>2, <4>4
    <3>5. CASE Emit
      BY <2>0, <3>5 DEF Emit, InOrder, Before, InHand, Balance, Submitted, Accounted, Held,
                       InfoFresh, Lifecycle
    <3> QED BY <2>3, <3>1, <3>2, <3>3, <3>4, <3>5 DEF Consumer
  <2>4. CASE Control
    <3> USE <2>4 DEF Control, LoopStart, Pause, Resume, RequestStall, StallExpires,
                     StopUnstarted, LoopStop, Stopping, JoinConsumer, JoinProducer, Join,
                     StopSource
    <3>1. InOrder' BY DEF InOrder, Before
    <3>2. InHand' BY DEF InHand, Lifecycle
    <3>3. Balance' BY DEF Balance, Submitted, Accounted, Held
    <3>4. InfoFresh' BY DEF InfoFresh
    <3>5. Lifecycle' BY DEF Lifecycle
    <3> QED BY <3>1, <3>2, <3>3, <3>4, <3>5
  <2>5. CASE UNCHANGED vars
    BY <2>5 DEF vars, InOrder, Before, InHand, Balance, Submitted, Accounted, Held, InfoFresh, Lifecycle
  <2> QED BY <2>1, <2>2, <2>3, <2>4, <2>5 DEF Next
<1> QED BY <1>1, <1>2, TypeCorrect, PTL DEF Spec

\* The counter identity of _add_frame_counters, for any number of frames and any
\* interleaving of ingest, producer, consumer, pause, stall and stop.
THEOREM CountersReconcile == Spec => []Reconciles
<1>1. IInv => Reconciles
  BY DEF IInv, Balance, Reconciles
<1> QED BY <1>1, InductiveInvariant, PTL

\* frames_in_flight never reports more than the three places a frame can wait.
THEOREM InFlightBounded == Spec => []InFlightAtMostThree
<1>1. IInv => InFlightAtMostThree
  BY DEF IInv, TypeOK, CountersOK, InfoFresh, InFlightAtMostThree, FramesInFlight,
         FramesAnalysed
<1> QED BY <1>1, InductiveInvariant, PTL

---------------------------------------------------------------------------
(* Threads: wake-up, pause and stop. *)

\* A consumer asleep over a frame has been notified.
THEOREM WakeupNotLost == Spec => []NoLostWakeup
<1> USE DEF NoLostWakeup, mailboxVars, loopVars
<1>1. Init => NoLostWakeup
  BY DEF Init
<1>2. NoLostWakeup /\ [Next]_vars => NoLostWakeup'
  <2> SUFFICES ASSUME NoLostWakeup, [Next]_vars PROVE NoLostWakeup'
    OBVIOUS
  <2>1. CASE Submit BY <2>1 DEF Submit
  <2>2. CASE Producer
    BY <2>2 DEF Producer, ProducerStops, ProducerGoesOn, ProducerCalls, ReadNothing, ReadSlot, Put, PutMailbox
  <2>3. CASE Consumer
    BY <2>3 DEF Consumer, ConsumerStops, ConsumerGoesOn, ConsumerLooksForPause, ConsumerCalls,
                GetBlocks, GetReturns, WaitEnds,
                TakeWaiting, CheckAge, Analyse, AnalyseRaises, ReadInfo, Emit
  <2>4. CASE Control
    BY <2>4 DEF Control, LoopStart, Pause, Resume, RequestStall, StallExpires, StopUnstarted,
                LoopStop, Stopping, JoinConsumer, JoinProducer, Join, StopSource
  <2>5. CASE UNCHANGED vars BY <2>5 DEF vars
  <2> QED BY <2>1, <2>2, <2>3, <2>4, <2>5 DEF Next
<1> QED BY <1>1, <1>2, PTL DEF Spec

\* At most one snapshot after pause() has returned.
THEOREM PauseTakesHold == Spec => []PauseOvershootsOnce
<1> USE DEF Overshoot, iterVars, loopVars
<1>1. Init => Overshoot
  BY DEF Init
<1>2. Overshoot /\ [Next]_vars => Overshoot'
  <2> SUFFICES ASSUME Overshoot, [Next]_vars PROVE Overshoot'
    OBVIOUS
  <2>1. CASE Submit BY <2>1 DEF Submit
  <2>2. CASE Producer
    BY <2>2 DEF Producer, ProducerStops, ProducerGoesOn, ProducerCalls, ReadNothing, ReadSlot, Put
  <2>3. CASE Consumer
    BY <2>3 DEF Consumer, ConsumerStops, ConsumerGoesOn, ConsumerLooksForPause, ConsumerMayRun,
                ConsumerCalls, GetBlocks, GetReturns,
                WaitEnds, TakeWaiting, CheckAge, Analyse, AnalyseRaises, ReadInfo, Emit
  <2>4. CASE Control
    BY <2>4 DEF Control, LoopStart, Pause, Resume, RequestStall, StallExpires, StopUnstarted,
                LoopStop, Stopping, JoinConsumer, JoinProducer, Join, StopSource
  <2>5. CASE UNCHANGED vars BY <2>5 DEF vars
  <2> QED BY <2>1, <2>2, <2>3, <2>4, <2>5 DEF Next
<1>3. Overshoot => PauseOvershootsOnce
  BY DEF PauseOvershootsOnce
<1> QED BY <1>1, <1>2, <1>3, PTL DEF Spec

\* A stop() that reports no error has ended both threads.
THEOREM StopIsClean == Spec => []CleanStop
<1> DEFINE Inv == Joined /\ CleanStop
<1> USE DEF Joined, CleanStop, FirstError, producerVars, loopVars
<1>1. Init => Inv
  BY DEF Init
<1>2. IInv /\ Inv /\ [Next]_vars => Inv'
  <2> SUFFICES ASSUME Lifecycle, Inv, [Next]_vars PROVE Inv'
    BY DEF IInv
  <2>1. CASE Submit BY <2>1 DEF Submit
  <2>2. CASE Producer
    BY <2>2 DEF Producer, ProducerStops, ProducerGoesOn, ProducerCalls, ReadNothing, ReadSlot, Put
  <2>3. CASE Consumer
    BY <2>3 DEF Consumer, ConsumerStops, ConsumerGoesOn, ConsumerLooksForPause, ConsumerCalls,
                GetBlocks, GetReturns, WaitEnds,
                TakeWaiting, CheckAge, Analyse, AnalyseRaises, ReadInfo, Emit
  <2>4. CASE Control
    BY <2>4 DEF Control, LoopStart, Pause, Resume, RequestStall, StallExpires, StopUnstarted,
                LoopStop, Stopping, JoinConsumer, JoinProducer, Join, JoinOutcome, StopSource,
                Lifecycle
  <2>5. CASE UNCHANGED vars BY <2>5 DEF vars
  <2> QED BY <2>1, <2>2, <2>3, <2>4, <2>5 DEF Next
<1> QED BY <1>1, <1>2, InductiveInvariant, PTL DEF Spec

\* frames_analysed counts what perception ran on.
THEOREM AnalysedCounterIsTrue == Spec => []AnalysedIsTrue
<1> USE DEF AnalysedIsTrue, FramesAnalysed, BeingDecided, Held, mailboxVars, iterVars
<1>1. Init => AnalysedIsTrue
  BY DEF Init
<1>2. IInv /\ IInv' /\ AnalysedIsTrue /\ [Next]_vars => AnalysedIsTrue'
  <2> SUFFICES ASSUME CountersOK, CountersOK', Lifecycle, AnalysedIsTrue, [Next]_vars
               PROVE AnalysedIsTrue'
    BY DEF IInv, TypeOK
  <2> USE DEF CountersOK
  <2>1. CASE Submit BY <2>1 DEF Submit
  <2>2. CASE Producer
    BY <2>2 DEF Producer, ProducerStops, ProducerGoesOn, ProducerCalls, ReadNothing, ReadSlot, Put, PutMailbox
  <2>3. CASE Consumer
    BY <2>3 DEF Consumer, ConsumerStops, ConsumerGoesOn, ConsumerLooksForPause, ConsumerCalls,
                GetBlocks, GetReturns, WaitEnds,
                TakeWaiting, CheckAge, DropStale, Analyse, AnalyseRaises, ReadInfo, Emit
  <2>4. CASE Control
    BY <2>4 DEF Lifecycle, Control, LoopStart, Pause, Resume, RequestStall,
                StallExpires, StopUnstarted, LoopStop, Stopping, JoinConsumer, JoinProducer,
                Join, StopSource
  <2>5. CASE UNCHANGED vars BY <2>5 DEF vars
  <2> QED BY <2>1, <2>2, <2>3, <2>4, <2>5 DEF Next
<1> QED BY <1>1, <1>2, InductiveInvariant, PTL DEF Spec

\* What the counters report is what happened to the frames.
THEOREM CountersAreTrue == Spec => []CountersTrue
<1>1. Reconciles /\ AnalysedIsTrue => CountersTrue
  BY DEF CountersTrue
<1> QED BY <1>1, CountersReconcile, AnalysedCounterIsTrue, PTL

---------------------------------------------------------------------------
(* Refinement: the path is a newest-wins channel. *)

Pending == {srcSlot, prodFrame, mbox} \ {NoFrame}

THEOREM NewestWinsRefinement == Spec => ImplementsNewestWins
<1> USE DEF sourceVars, mailboxVars, producerVars, iterVars, loopVars
<1>1. Init => Channel!Init
  BY DEF Init, Channel!Init, NoFrame
<1>2. IInv /\ IInv' /\ [Next]_vars => [Channel!Next]_(Channel!vars)
  <2> SUFFICES ASSUME IInv, IInv', [Next]_vars PROVE [Channel!Next]_(Channel!vars)
    OBVIOUS
  <2> DEFINE same == UNCHANGED <<frameId, srcSlot, prodFrame, mbox, taken, phase>>
  <2>0. same => UNCHANGED Channel!vars
    BY DEF Channel!vars
  <2>1. PlacesOK /\ NoFrame = -1 /\ InOrder /\ InHand /\ Lifecycle
    BY DEF IInv, TypeOK, NoFrame
  <2>2. CASE Submit
    <3>1. CASE srcSlot = NoFrame
      <4>1. Channel!Produce
        BY <2>1, <2>2, <3>1, BoundAssumption DEF Submit, Channel!Produce, PlacesOK, Slot, Frames
      <4> QED BY <4>1 DEF Channel!Next
    <3>2. CASE srcSlot # NoFrame
      <4>1. srcSlot # prodFrame /\ srcSlot # mbox
        BY <2>1, <3>2, BoundAssumption DEF InOrder, Before, PlacesOK, Slot, Frames
      <4>2. srcSlot \in Pending
        BY <3>2 DEF Pending
      <4>3. Pending' = (Pending \ {srcSlot}) \union {frameId + 1}
        BY <2>1, <2>2, <3>2, <4>1, BoundAssumption DEF Submit, Pending, PlacesOK, Slot, Frames
      <4>4. Channel!Produce
        BY <2>2, <4>2, <4>3 DEF Submit, Channel!Produce, Pending
      <4> QED BY <4>4 DEF Channel!Next
    <3> QED BY <3>1, <3>2
  <2>3. CASE Producer
    <3>1. CASE ProducerStops \/ ProducerGoesOn \/ ProducerCalls \/ ReadNothing
      BY <2>0, <3>1 DEF ProducerStops, ProducerGoesOn, ProducerCalls, ReadNothing
    <3>2. CASE ReadSlot
      <4>0. prodFrame = NoFrame
        BY <2>1, <3>2 DEF ReadSlot, InHand
      <4>1. CASE prodFrame' = srcSlot
        BY <3>2, <4>0, <4>1 DEF ReadSlot, Channel!vars
      <4>2. CASE prodFrame' # srcSlot
        <5>1. srcSlot # NoFrame /\ ~sourceRunning
          BY <3>2, <4>0, <4>2 DEF ReadSlot
        <5>2. phase = "stopped"
          BY <2>1, <3>2, <5>1 DEF ReadSlot, Lifecycle
        <5>3. srcSlot # mbox
          BY <2>1, <5>1, BoundAssumption DEF InOrder, Before, PlacesOK, Slot, Frames
        <5>4. srcSlot \in Pending /\ Pending' = Pending \ {srcSlot}
          BY <3>2, <4>0, <5>1, <5>3 DEF ReadSlot, Pending
        <5>5. Channel!Discard
          BY <3>2, <5>2, <5>4 DEF ReadSlot, Channel!Discard, Pending
        <5> QED BY <5>5 DEF Channel!Next
      <4> QED BY <4>1, <4>2
    <3>3. CASE Put
      <4>0. prodFrame # NoFrame
        BY <2>1, <3>3 DEF Put, InHand
      <4>1. CASE mbox = NoFrame
        BY <3>3, <4>0, <4>1 DEF Put, PutMailbox, Channel!vars
      <4>2. CASE mbox # NoFrame
        <5>1. mbox < prodFrame /\ mbox # srcSlot
          BY <2>1, <4>0, <4>2, BoundAssumption DEF InOrder, Before, PlacesOK, Slot, Frames
        <5>2. mbox \in Pending /\ prodFrame \in Pending
          BY <4>0, <4>2 DEF Pending
        <5>3. Pending' = Pending \ {mbox}
          BY <2>1, <3>3, <4>0, <5>1, BoundAssumption DEF Put, PutMailbox, Pending, PlacesOK, Slot, Frames
        <5>4. Channel!Overtake
          BY <3>3, <5>1, <5>2, <5>3 DEF Put, Channel!Overtake, Pending
        <5> QED BY <5>4 DEF Channel!Next
      <4> QED BY <4>1, <4>2
    <3> QED BY <2>3, <3>1, <3>2, <3>3 DEF Producer
  <2>4. CASE Consumer
    <3>1. CASE GetReturns \/ WaitEnds
      <4>1. TakeWaiting /\ UNCHANGED <<frameId, srcSlot, prodFrame, phase>>
        BY <3>1 DEF GetReturns, WaitEnds
      <4>2. CASE mbox = NoFrame
        BY <2>0, <4>1, <4>2 DEF TakeWaiting
      <4>3. CASE mbox # NoFrame
        <5>1. mbox \in Pending /\ \A g \in Pending : mbox <= g
          BY <2>1, <4>3, BoundAssumption DEF Pending, InOrder, Before, PlacesOK, Slot, Frames
        <5>2. mbox # srcSlot /\ mbox # prodFrame /\ taken < mbox
          BY <2>1, <4>3, BoundAssumption DEF InOrder, Before, PlacesOK, Slot, Frames
        <5>3. Pending' = Pending \ {mbox} /\ taken' = mbox
          BY <4>1, <4>3, <5>2 DEF TakeWaiting, Pending
        <5>4. Channel!Deliver
          BY <4>1, <5>1, <5>2, <5>3 DEF Channel!Deliver, Pending
        <5> QED BY <5>4 DEF Channel!Next
      <4> QED BY <4>2, <4>3
    <3>2. CASE ConsumerStops \/ ConsumerGoesOn \/ ConsumerLooksForPause \/ ConsumerCalls
               \/ GetBlocks \/ CheckAge \/ Analyse \/ AnalyseRaises \/ ReadInfo \/ Emit
      BY <2>0, <3>2 DEF ConsumerStops, ConsumerGoesOn, ConsumerLooksForPause, ConsumerCalls,
                       GetBlocks, CheckAge, DropStale, Analyse,
                       AnalyseRaises, ReadInfo, Emit
    <3> QED BY <2>4, <3>1, <3>2 DEF Consumer
  <2>5. CASE Control
    <3>1. CASE StopUnstarted \/ StopSource
      <4>1. Channel!Close
        BY <3>1 DEF StopUnstarted, StopSource, Channel!Close
      <4> QED BY <4>1 DEF Channel!Next
    <3>2. CASE LoopStart \/ LoopStop \/ JoinConsumer \/ JoinProducer
      BY <3>2 DEF LoopStart, LoopStop, JoinConsumer, JoinProducer, Join, Channel!vars
    <3>3. CASE Pause \/ Resume \/ RequestStall \/ StallExpires
      BY <2>0, <3>3 DEF Pause, Resume, RequestStall, StallExpires
    <3> QED BY <2>5, <3>1, <3>2, <3>3 DEF Control, Stopping
  <2>6. CASE UNCHANGED vars
    BY <2>0, <2>6 DEF vars
  <2> QED BY <2>2, <2>3, <2>4, <2>5, <2>6 DEF Next
<1> QED BY <1>1, <1>2, InductiveInvariant, PTL DEF Spec, ImplementsNewestWins, Channel!Spec
=============================================================================
