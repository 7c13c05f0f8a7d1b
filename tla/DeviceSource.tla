---------------------------- MODULE DeviceSource ----------------------------
(***************************************************************************)
(* A camera the backend owns (camera/device.py): the producer thread reads *)
(* it and reopens it with a doubling backoff, while another thread starts  *)
(* and stops it. One lock covers the capture object; a stop event reaches  *)
(* into the waits. Opening tries two back ends, each with a probe for a    *)
(* first frame, and holds the lock all the while.                          *)
(*                                                                         *)
(* Time is the number of ticks until the next reopening is due. The camera *)
(* comes and goes.                                                         *)
(***************************************************************************)
EXTENDS Integers

CONSTANTS
    Initial, Longest,   \* backoff, in ticks: reconnect_initial_s, reconnect_max_s
    MaxCalls,           \* bound: commands of start and stop
    MaxFlips            \* bound: times the camera comes or goes

\* CaptureConfig: both are positive, and either may be the longer one.
CaptureConfig == {Initial, Longest} \subseteq Nat \ {0}

ASSUME DeviceAssumption ==
    /\ CaptureConfig
    /\ MaxCalls \in Nat /\ MaxFlips \in Nat

Backends == 1 .. 2
Threads == {"reader", "control"}

VARIABLES
    present,    \* the camera delivers frames
    opened,     \* _cap is a capture object
    running, stopSet,       \* _running, _stop_evt
    holder,     \* who holds the lock: a thread or "nobody"
    at,         \* per thread: where it is
    backend,    \* per thread: the back end it is trying
    due,        \* ticks until _retry_at
    backoff,
    commands, flips

deviceVars == <<present, opened, running, stopSet, holder, at, backend, due, backoff, commands, flips>>

DeviceInit ==
    /\ present \in BOOLEAN
    /\ opened = FALSE /\ running = FALSE /\ stopSet = FALSE /\ holder = "nobody"
    /\ at = [reader |-> "top", control |-> "new"]
    /\ backend = [t \in Threads |-> 1]
    /\ due = 0 /\ backoff = 0 /\ commands = 0 /\ flips = 0 

InStep(t, step) == at[t] = step
Moves(t, step) == at' = [at EXCEPT ![t] = step]
FreeLock(t) == holder = "nobody" /\ holder' = t
Unlock == holder' = "nobody"

-----------------------------------------------------------------------------
\* _open_locked, by either thread. Mutant: the event is not looked at.
OpenRegardless == TRUE

MayOpen == ~stopSet

\* The next back end is tried, unless a stop was asked for: then opening fails.
TryBackend(t) ==
    /\ InStep(t, "open")
    /\ Moves(t, IF MayOpen THEN "probe" ELSE "openFailed")
    /\ UNCHANGED <<present, opened, running, stopSet, holder, backend, due, backoff, commands, flips>>

\* The probe ends with a frame, or by its deadline or the stop event.
ProbeFinds(t) ==
    /\ InStep(t, "probe") /\ present
    /\ opened' = TRUE
    /\ Moves(t, "openDone")
    /\ UNCHANGED <<present, running, stopSet, holder, backend, due, backoff, commands, flips>>

ProbeGivesUp(t) ==
    /\ InStep(t, "probe") /\ (~present \/ stopSet)
    /\ IF backend[t] + 1 \in Backends
         THEN backend' = [backend EXCEPT ![t] = @ + 1] /\ Moves(t, "open")
         ELSE Moves(t, "openFailed") /\ UNCHANGED backend
    /\ UNCHANGED <<present, opened, running, stopSet, holder, due, backoff, commands, flips>>

-----------------------------------------------------------------------------
\* start and stop, called by the owner of the loop.

CallStart ==
    /\ at["control"] \in {"new", "stopped", "startFailed"} /\ commands < MaxCalls
    /\ FreeLock("control")
    /\ stopSet' = FALSE /\ backoff' = Initial
    /\ backend' = [backend EXCEPT !["control"] = 1]
    /\ Moves("control", "open")
    /\ commands' = commands + 1
    /\ UNCHANGED <<present, opened, running, due, flips>>

\* A start() that fails raises to its caller.
StartDone ==
    /\ at["control"] \in {"openDone", "openFailed"}
    /\ running' = (running \/ InStep("control", "openDone"))
    /\ Moves("control", IF InStep("control", "openDone") THEN "started" ELSE "startFailed")
    /\ Unlock
    /\ UNCHANGED <<present, opened, stopSet, backend, due, backoff, commands, flips>>

CallStop ==
    /\ at["control"] \in {"started", "startFailed"} /\ commands < MaxCalls
    /\ stopSet' = TRUE
    /\ Moves("control", "stopping")
    /\ commands' = commands + 1
    /\ UNCHANGED <<present, opened, running, holder, backend, due, backoff, flips>>

StopDone ==
    /\ InStep("control", "stopping") /\ holder = "nobody"
    /\ running' = FALSE /\ opened' = FALSE
    /\ Moves("control", "stopped")
    /\ UNCHANGED <<present, stopSet, holder, backend, due, backoff, commands, flips>>

-----------------------------------------------------------------------------
\* read(), over and over on the producer thread.

BeginRead ==
    /\ InStep("reader", "top") /\ running /\ ~stopSet
    /\ Moves("reader", "wantLock")
    /\ UNCHANGED <<present, opened, running, stopSet, holder, backend, due, backoff, commands, flips>>

LockForRead ==
    /\ InStep("reader", "wantLock") /\ FreeLock("reader")
    /\ Moves("reader", IF opened THEN "frame" ELSE "retry")
    /\ UNCHANGED <<present, opened, running, stopSet, backend, due, backoff, commands, flips>>

\* A frame: _frame_from_locked.
GoodRead ==
    /\ InStep("reader", "frame") /\ present
    /\ backoff' = Initial
    /\ Moves("reader", "top") /\ Unlock
    /\ UNCHANGED <<present, opened, running, stopSet, backend, due, commands, flips>>

BadRead ==
    /\ InStep("reader", "frame") /\ ~present
    /\ opened' = FALSE /\ due' = 0
    /\ Moves("reader", "retry")
    /\ UNCHANGED <<present, running, stopSet, holder, backend, backoff, commands, flips>>

\* Mutant: at the longest backoff the camera is given up.
GiveUpAtLongest == due = 0 /\ backoff < Longest

RetryDue == due = 0

\* No camera: reopen it if it is time, under the same lock.
Retry ==
    /\ InStep("reader", "retry")
    /\ IF RetryDue
         THEN /\ backend' = [backend EXCEPT !["reader"] = 1]
              /\ Moves("reader", "open") /\ UNCHANGED holder
         ELSE Moves("reader", "wait") /\ Unlock /\ UNCHANGED backend
    /\ UNCHANGED <<present, opened, running, stopSet, due, backoff, commands, flips>>

\* _reopen_locked succeeded: the next read() gets the frame.
Reopened ==
    /\ InStep("reader", "openDone")
   
    /\ Moves("reader", "top") /\ Unlock
    /\ UNCHANGED <<present, opened, running, stopSet, backend, due, backoff, commands, flips>>

Doubled == IF backoff * 2 < Longest THEN backoff * 2 ELSE Longest

ReopenFailed ==
    /\ InStep("reader", "openFailed")
    /\ due' = backoff /\ backoff' = Doubled
    /\ Moves("reader", "wait") /\ Unlock
    /\ UNCHANGED <<present, opened, running, stopSet, backend, commands, flips>>

\* The wait, at most 0.25 s or until the stop event, is outside the lock.
WaitOver ==
    /\ InStep("reader", "wait")
    /\ Moves("reader", "top")
    /\ UNCHANGED <<present, opened, running, stopSet, holder, backend, due, backoff, commands, flips>>

-----------------------------------------------------------------------------
Tick ==
    /\ due > 0
    /\ due' = due - 1
    /\ UNCHANGED <<present, opened, running, stopSet, holder, at, backend, backoff, commands, flips>>

CameraComesOrGoes ==
    /\ flips < MaxFlips
    /\ present' = ~present /\ flips' = flips + 1
    /\ UNCHANGED <<opened, running, stopSet, holder, at, backend, due, backoff, commands>>

Opening(t) == TryBackend(t) \/ ProbeFinds(t) \/ ProbeGivesUp(t)
Reading ==
    \/ BeginRead \/ LockForRead \/ GoodRead \/ BadRead \/ Retry
    \/ Reopened \/ ReopenFailed \/ WaitOver \/ Opening("reader")
Finishing == StartDone \/ StopDone \/ Opening("control")

DeviceNext == Reading \/ Finishing \/ CallStart \/ CallStop \/ Tick \/ CameraComesOrGoes

\* The producer thread runs and time passes; nobody has to start or stop, and the
\* camera need not come or go.
DeviceFairness == WF_deviceVars(Reading) /\ WF_deviceVars(Tick)

DeviceSpec == DeviceInit /\ [][DeviceNext]_deviceVars /\ DeviceFairness

-----------------------------------------------------------------------------
\* Properties.

\* Once stop() has returned the camera is released and stays so: a read() that
\* was waiting for the lock does not open it again.
CameraReleased == InStep("control", "stopped") => ~opened

\* A camera that is there while the source runs is opened, however often it went
\* away before and however long the backoff had become.
CameraComesBack == (running /\ present) ~> (opened \/ ~present \/ ~running \/ stopSet)
=============================================================================
