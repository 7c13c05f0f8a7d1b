------------------------------ MODULE MCBrowser ------------------------------
(***************************************************************************)
(* The browser's side and the camera of the server: capture and recording  *)
(* (BrowserCapture), the worker that sends frames (AnalysisWorker), the    *)
(* Studio page (StudioPage) and its review of a batch (BatchReviewer), and *)
(* a camera the server owns (DeviceSource). They share no state, so a      *)
(* behaviour is of one of them, `part`, while the others rest in an        *)
(* initial state.                                                          *)
(***************************************************************************)
EXTENDS DeviceSource, AnalysisWorker, BrowserCapture, StudioPage, BatchReviewer

VARIABLE part

Is(p) == part = p
Members == {"device", "worker", "capture", "page", "reviewer"}

\* The choices a part makes at the start, settled while it rests.
Rests(p) ==
    CASE p = "device"   -> present = TRUE
      [] p = "worker"   -> TRUE
      [] p = "capture"  -> overlap = FALSE /\ mode = "realtime"
      [] p = "page"     -> hasty = FALSE
      [] p = "reviewer" -> rushed = FALSE /\ tidy = TRUE

\* The reviewer's user waits and is tidy: ConfirmedOnItsImage is about that one.
BrowserInit ==
    /\ part \in Members
    /\ \A p \in Members \ {"reviewer"} : Is(p) \/ Rests(p)
    /\ Rests("reviewer")
    /\ DeviceInit /\ WorkerInit /\ CaptureInit /\ PageInit /\ ReviewerInit

BrowserNext ==
    \/ Is("device") /\ DeviceNext /\ UNCHANGED <<workerVars, captureVars, pageVars, reviewerVars, part>>
    \/ Is("worker") /\ WorkerNext /\ UNCHANGED <<deviceVars, captureVars, pageVars, reviewerVars, part>>
    \/ Is("capture") /\ CaptureNext /\ UNCHANGED <<deviceVars, workerVars, pageVars, reviewerVars, part>>
    \/ Is("page") /\ PageNext /\ UNCHANGED <<deviceVars, workerVars, captureVars, reviewerVars, part>>
    \/ Is("reviewer") /\ ReviewerNext /\ UNCHANGED <<deviceVars, workerVars, captureVars, pageVars, part>>

browserVars == <<deviceVars, workerVars, captureVars, pageVars, reviewerVars, part>>

\* The fairness is DeviceFairness, where the device is the part.
BrowserSpec ==
    /\ BrowserInit
    /\ [][BrowserNext]_browserVars
    /\ WF_deviceVars(Is("device") /\ Reading /\ UNCHANGED <<workerVars, captureVars, pageVars, reviewerVars, part>>)
    /\ WF_deviceVars(Is("device") /\ Tick /\ UNCHANGED <<workerVars, captureVars, pageVars, reviewerVars, part>>)
=============================================================================
