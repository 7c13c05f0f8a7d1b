-------------------------- MODULE StudioLifecycle --------------------------
(***************************************************************************)
(* Entering and leaving the Object Learning Studio (api/studio.py): the    *)
(* token handed to the Studio page, the pause of the analysis loop, and    *)
(* the page's requests, which travel on connections of their own and may   *)
(* overtake each other: the enter of a page that loads and the leave a     *)
(* page sends (as a beacon) when it goes.                                  *)
(*                                                                         *)
(* Both handlers run on the event loop without an await: each is a step.   *)
(* Pages are shown one after the other in one tab; a page that is shown    *)
(* again after a reload is another page.                                   *)
(***************************************************************************)
EXTENDS Integers, Sequences, SequencesExt

CONSTANTS
    Pages,         \* the Studio pages of a behaviour
    StopOnEnter,   \* config studio.stop_monitoring_on_enter, values to consider
    Orders,        \* whether requests are handled in the order they are sent
    MaxLosses      \* bound: enters that fail and leaves that are lost

ASSUME StudioAssumption ==
    /\ StopOnEnter \subseteq BOOLEAN /\ Orders \subseteq BOOLEAN
    /\ MaxLosses \in Nat

NoToken == 0

VARIABLES
    config,     \* [stop, ordered], fixed for a behaviour
    page,       \* "away" before it loads, "entering", "open", "left", or "gone":
                \* it went and no leave of it arrives
    held,       \* state.token of each page
    requests,   \* sent and not handled yet
    active, token, pausedByUs,  \* app.state.studio
    sessions,   \* tokens given out so far
    paused,     \* AnalysisLoop.paused
    losses

pageVars == <<page, held, requests, losses>>
serverVars == <<active, token, pausedByUs, sessions, paused>>
studioVars == <<config, pageVars, serverVars>>

StudioInit ==
    /\ config \in [stop : StopOnEnter, ordered : Orders]
    /\ page = [p \in Pages |-> "away"]
    /\ held = [p \in Pages |-> NoToken]
    /\ requests = <<>>
    /\ active = FALSE /\ token = NoToken /\ pausedByUs = FALSE
    /\ sessions = 0
    /\ paused = FALSE
    /\ losses = 0

Shown(p) == page[p] \in {"entering", "open"}

---------------------------------------------------------------------------
(* The page (static/studio/studio.js: enter, leave, the pagehide beacon).   *)

LoadPage(p) ==
    /\ page[p] = "away"
    /\ \A q \in Pages : ~Shown(q)
    /\ page' = [page EXCEPT ![p] = "entering"]
    /\ requests' = Append(requests, [kind |-> "enter", page |-> p])
    /\ UNCHANGED <<config, held, losses, serverVars>>

\* The page's fetch of its enter fails: the page opens all the same, without a
\* token. The request is lost, or is still handled and only its answer is not seen.
EnterFails(p) ==
    /\ page[p] = "entering" /\ losses < MaxLosses
    /\ losses' = losses + 1
    /\ page' = [page EXCEPT ![p] = "open"]
    /\ \/ UNCHANGED requests
       \/ \E i \in DOMAIN requests :
             /\ requests[i] = [kind |-> "enter", page |-> p]
             /\ requests' = RemoveAt(requests, i)
    /\ UNCHANGED <<config, held, serverVars>>

\* "Save and return", or pagehide. Both are wired once the enter is answered or has
\* failed (main), in which case the token is null.
LeavePage(p) ==
    /\ page[p] = "open"
    /\ page' = [page EXCEPT ![p] = "left"]
    /\ requests' = Append(requests, [kind |-> "leave", page |-> p, token |-> held[p]])
    /\ UNCHANGED <<config, held, losses, serverVars>>

\* The page goes before its enter is answered: nothing sends a leave yet.
LeaveEarly(p) ==
    /\ page[p] = "entering"
    /\ page' = [page EXCEPT ![p] = "gone"]
    /\ UNCHANGED <<config, held, requests, losses, serverVars>>

\* The page goes and its leave is lost.
LoseLeave(p) ==
    /\ page[p] = "open" /\ losses < MaxLosses
    /\ losses' = losses + 1
    /\ page' = [page EXCEPT ![p] = "gone"]
    /\ UNCHANGED <<config, held, requests, serverVars>>

---------------------------------------------------------------------------
(* The handlers.                                                            *)

\* studio_enter: hand out the running session's token, or start a session and
\* pause the loop. (The sweep of stale batches is in BatchStaging.)
\* Mutant: whether it was the Studio that paused the loop is noted the wrong way
\* round.
NotedWrongly == config.stop /\ paused

PausedByUs == config.stop /\ ~paused

LoopPausedOnEnter == paused \/ config.stop

StartSession ==
    /\ sessions' = sessions + 1
    /\ token' = sessions + 1
    /\ active' = TRUE
    /\ pausedByUs' = PausedByUs
    /\ paused' = LoopPausedOnEnter

StudioEnter(p) ==
    /\ \/ active /\ UNCHANGED serverVars
       \/ ~active /\ StartSession
    /\ IF page[p] = "entering"
       THEN page' = [page EXCEPT ![p] = "open"] /\ held' = [held EXCEPT ![p] = token']
       ELSE UNCHANGED <<page, held>>

\* studio_leave: nothing when the Studio is not active, a 409 for a token that is
\* not the session's; otherwise the loop is resumed if the Studio had paused it.
\* Mutants: the token is kept; the token is not compared.
TokenKept == token

MayEndAny(t) == active

MayEnd(t) == active /\ t \in {NoToken, token}

TokenAfterLeave == NoToken

StudioLeave(t) ==
    /\ \/ /\ MayEnd(t)
          /\ paused' = (paused /\ ~pausedByUs)
          /\ active' = FALSE /\ token' = TokenAfterLeave /\ pausedByUs' = FALSE
       \/ ~MayEnd(t) /\ UNCHANGED <<paused, active, token, pausedByUs>>
    /\ UNCHANGED <<page, held, sessions>>

Handle(i) ==
    /\ config.ordered => i = 1
    /\ requests' = RemoveAt(requests, i)
    /\ IF requests[i].kind = "enter" THEN StudioEnter(requests[i].page)
                                     ELSE StudioLeave(requests[i].token)
    /\ UNCHANGED <<config, losses>>

StudioHandler == \E i \in DOMAIN requests : Handle(i)

StudioNext ==
    \/ StudioHandler
    \/ \E p \in Pages : LoadPage(p) \/ EnterFails(p) \/ LeavePage(p) \/ LeaveEarly(p) \/ LoseLeave(p)

\* Every request that was sent is handled; nobody has to open or leave a page.
StudioFairness == WF_studioVars(StudioHandler)

StudioSpec == StudioInit /\ [][StudioNext]_studioVars
FairStudioSpec == StudioSpec /\ StudioFairness

---------------------------------------------------------------------------
(* Properties. *)

\* Every variable has its type.
StudioTypeOK ==
    /\ page \in [Pages -> {"away", "entering", "open", "left", "gone"}]
    /\ held \in [Pages -> 0 .. sessions]
    /\ active \in BOOLEAN /\ pausedByUs \in BOOLEAN /\ paused \in BOOLEAN
    /\ token = IF active THEN sessions ELSE NoToken

\* The loop is paused exactly while a session holds the pause: whoever enters and
\* leaves in whatever order, leaving restores what entering found.
RestoredExactly ==
    /\ paused = (active /\ config.stop)
    /\ pausedByUs = paused

\* With requests handled in the order they were sent, monitoring is off while a
\* page that was let in shows the Studio, reloads and lost requests included.
LetIn(p) == page[p] = "open" /\ held[p] # NoToken
OpenMeansPaused == config.ordered /\ config.stop => \A p \in Pages : LetIn(p) => paused

\* The loop's pause and the session never come apart, neither way.
PauseFollowsSession == RestoredExactly /\ OpenMeansPaused

\* In any order: a page that is alone with its token keeps its session, whatever
\* leaves of other pages are still on their way, as long as each of these pages knew
\* its token. (The token check of studio_leave: without it, the late leave of a page
\* whose session another page has ended ends the session of a third.)
OwnSessionSafe ==
    \A p \in Pages :
        /\ config.stop /\ LetIn(p)
        /\ \A q \in Pages \ {p} :
              held[q] # held[p] /\ (page[q] = "left" => held[q] # NoToken)
        => paused

\* With requests handled in order, monitoring is on again in the end once the last
\* page has gone, if every page that went sent a leave that arrived: no page went
\* before its enter was answered, and no leave was lost.
NobodyShown == \A p \in Pages : ~Shown(p)
EveryLeaveArrives == \A p \in Pages : page[p] # "gone"
MonitoringComesBack ==
    config.ordered /\ <>[](NobodyShown /\ EveryLeaveArrives) => <>[](~paused)

\* What the module docstring of api/studio.py guarantees: nothing keeps detecting
\* while the Studio is open.
NothingDetectsWhileOpen ==
    config.stop => \A p \in Pages : page[p] = "open" => paused
=============================================================================
