----------------------------- MODULE Broadcast -----------------------------
(***************************************************************************)
(* Last-value-wins fan-out of snapshots to WebSocket clients               *)
(* (api/broadcast.py): publish() on the analysis thread, and one           *)
(* serve_state_client task per client on the event loop.                   *)
(*                                                                         *)
(* The event loop runs a task without interruption from one await to the   *)
(* next, so other tasks and scheduled callbacks come in only there; the    *)
(* analysis thread can come in between any two sections of the lock. A     *)
(* snapshot is its snapshot_id. A client that comes back is another client.*)
(***************************************************************************)
EXTENDS Integers, FiniteSets

CONSTANTS
    Clients,       \* the state clients of a behaviour
    MaxSnapshots,  \* bound: snapshots published in a behaviour
    Fallbacks      \* whether the wait for a wake also ends after a period

ASSUME BroadcastAssumption ==
    /\ IsFiniteSet(Clients)
    /\ MaxSnapshots \in Nat
    /\ Fallbacks \subseteq BOOLEAN

None == 0        \* no snapshot yet; ids start at 1
Ids == 0 .. MaxSnapshots

\* Where a client's task is. "opening", "woken" and "closing" are the gaps
\* between two lock sections in which only the analysis thread can come in.
Places == {"new", "opening", "wait", "woken", "send", "sleep", "closing", "gone"}
AtAwait == {"wait", "send", "sleep"}

VARIABLES
    fallback,   \* the period timeout of the wait, fixed for a behaviour
    latest,     \* _latest
    waiters,    \* _waiters
    clients,    \* _clients
    dropped,    \* _dropped_clients
    waking,     \* publish(): its copy of the waiters still to be called
    callbacks,  \* clients whose event.set is scheduled on the event loop
    place,      \* where each client's task is
    wake,       \* each client's asyncio.Event
    lastId,     \* last_id of each client
    received,   \* the last snapshot each client was sent in full (history)
    sending,    \* the snapshot each client's send is busy with
    slow,       \* the client's send timed out
    joinedAt    \* latest when the client registered (history)

publisherVars == <<latest, waking>>
registryVars  == <<waiters, clients, dropped>>
clientVars    == <<place, wake, lastId, received, sending, slow, joinedAt>>
vars == <<fallback, publisherVars, registryVars, callbacks, clientVars>>

Init ==
    /\ fallback \in Fallbacks
    /\ latest = None
    /\ waiters = {}
    /\ clients = 0
    /\ dropped = 0
    /\ waking = {}
    /\ callbacks = {}
    /\ place = [c \in Clients |-> "new"]
    /\ wake = [c \in Clients |-> FALSE]
    /\ lastId = [c \in Clients |-> None]
    /\ received = [c \in Clients |-> None]
    /\ sending = [c \in Clients |-> None]
    /\ slow = [c \in Clients |-> FALSE]
    /\ joinedAt = [c \in Clients |-> None]

---------------------------------------------------------------------------
(* The analysis thread. *)

\* publish(), the lock section: the newest snapshot, and a copy of the waiters.
\* The next publish comes after this one has called all of them.
\* Mutant: only idle clients are woken.
WakeTheIdle == {c \in waiters : place[c] = "wait"}

WakeTargets == waiters

Publish ==
    /\ waking = {}
    /\ latest < MaxSnapshots
    /\ latest' = latest + 1
    /\ waking' = WakeTargets
    /\ UNCHANGED <<fallback, registryVars, callbacks, clientVars>>

\* publish(), outside the lock: call_soon_threadsafe(event.set), also for a
\* client that has unregistered since.
WakeClient(c) ==
    /\ c \in waking
    /\ waking' = waking \ {c}
    /\ callbacks' = callbacks \union {c}
    /\ UNCHANGED <<fallback, latest, registryVars, clientVars>>

---------------------------------------------------------------------------
(* The event loop: no task is between two of its awaits. *)

Goto(c, to) == place' = [place EXCEPT ![c] = to]
LoopFree == \A c \in Clients : place[c] \in AtAwait \union {"new", "gone"}

\* The loop runs the scheduled event.set of a client (several of them do what
\* one does).
RunCallback(c) ==
    /\ LoopFree /\ c \in callbacks
    /\ callbacks' = callbacks \ {c}
    /\ wake' = [wake EXCEPT ![c] = TRUE]
    /\ UNCHANGED <<fallback, publisherVars, registryVars, place, lastId, received, sending, slow, joinedAt>>

\* A client connects: _open(), and then _add_waiter().
Open(c) ==
    /\ LoopFree /\ place[c] = "new"
    /\ clients' = clients + 1
    /\ Goto(c, "opening")
    /\ UNCHANGED <<fallback, publisherVars, waiters, dropped, callbacks, wake, lastId, received, sending,
                   slow, joinedAt>>

AddWaiter(c) ==
    /\ place[c] = "opening"
    /\ waiters' = waiters \union {c}
    /\ joinedAt' = [joinedAt EXCEPT ![c] = latest]
    /\ Goto(c, "wait")
    /\ UNCHANGED <<fallback, publisherVars, clients, dropped, callbacks, wake, lastId, received, sending, slow>>

\* The wait ends with the wake or after the period; either way the event is
\* cleared before latest() is read.
ClearWake(c) == wake' = [wake EXCEPT ![c] = FALSE]

WaitReturns(c) ==
    /\ LoopFree /\ place[c] = "wait"
    /\ wake[c] \/ fallback
    /\ ClearWake(c)
    /\ Goto(c, "woken")
    /\ UNCHANGED <<fallback, publisherVars, registryVars, callbacks, lastId, received, sending, slow, joinedAt>>

\* latest(): nothing new for this client, or a send begins.
\* Mutant: a snapshot is sent again on every wake.
AnySnapshot(c) == latest # None

HasNews(c) == latest # None /\ latest # lastId[c]

ReadLatest(c) ==
    /\ place[c] = "woken"
    /\ \/ ~HasNews(c) /\ Goto(c, "wait") /\ UNCHANGED sending
       \/ /\ HasNews(c)
          /\ sending' = [sending EXCEPT ![c] = latest]
          /\ Goto(c, "send")
    /\ UNCHANGED <<fallback, publisherVars, registryVars, callbacks, wake, lastId, received, slow, joinedAt>>

\* send_text() completes. When it came sooner than min_send_interval after the
\* last one the task sleeps the rest of the interval.
\* Mutant: the snapshot that is newest by now is noted as sent.
NoteNewest(c) == lastId' = [lastId EXCEPT ![c] = latest]

NoteSent(c) == lastId' = [lastId EXCEPT ![c] = sending[c]]

SendCompletes(c) ==
    /\ LoopFree /\ place[c] = "send"
    /\ NoteSent(c)
    /\ received' = [received EXCEPT ![c] = sending[c]]
    /\ sending' = [sending EXCEPT ![c] = None]
    /\ Goto(c, "wait") \/ Goto(c, "sleep")
    /\ UNCHANGED <<fallback, publisherVars, registryVars, callbacks, wake, slow, joinedAt>>

SleepEnds(c) ==
    /\ LoopFree /\ place[c] = "sleep"
    /\ Goto(c, "wait")
    /\ UNCHANGED <<fallback, publisherVars, registryVars, callbacks, wake, lastId, received, sending, slow, joinedAt>>

\* The task leaves its loop (a send that timed out or failed, a cancellation at
\* any await), and its finally block first unregisters the waiter ...
Leave(c, wasDropped) ==
    /\ waiters' = waiters \ {c}
    /\ slow' = [slow EXCEPT ![c] = wasDropped]
    /\ sending' = [sending EXCEPT ![c] = None]
    /\ Goto(c, "closing")
    /\ UNCHANGED <<fallback, publisherVars, clients, dropped, callbacks, wake, lastId, received, joinedAt>>

SendTimesOut(c) == LoopFree /\ place[c] = "send" /\ Leave(c, TRUE)
SendFails(c)    == LoopFree /\ place[c] = "send" /\ Leave(c, FALSE)
Cancelled(c)    == LoopFree /\ place[c] \in AtAwait /\ Leave(c, FALSE)

\* ... and then counts the client out. The task's own state goes with it.
\* Mutants: a slow client is only counted as dropped; it is counted out twice.
CountDropOnly(wasDropped) ==
    IF wasDropped THEN dropped' = dropped + 1 /\ UNCHANGED clients
                  ELSE clients' = clients - 1 /\ UNCHANGED dropped

CountOutTwice(wasDropped) ==
    /\ clients' = IF wasDropped THEN clients - 2 ELSE clients - 1
    /\ dropped' = IF wasDropped THEN dropped + 1 ELSE dropped

CloseClient(wasDropped) ==
    /\ clients' = clients - 1
    /\ dropped' = IF wasDropped THEN dropped + 1 ELSE dropped

Close(c) ==
    /\ place[c] = "closing"
    /\ CloseClient(slow[c])
    /\ Goto(c, "gone")
    /\ wake' = [wake EXCEPT ![c] = FALSE]
    /\ lastId' = [lastId EXCEPT ![c] = None]
    /\ received' = [received EXCEPT ![c] = None]
    /\ joinedAt' = [joinedAt EXCEPT ![c] = None]
    /\ UNCHANGED <<fallback, publisherVars, waiters, callbacks, sending, slow>>

Task(c) ==
    \/ AddWaiter(c) \/ WaitReturns(c) \/ ReadLatest(c) \/ SendCompletes(c)
    \/ SleepEnds(c) \/ SendTimesOut(c) \/ SendFails(c) \/ Close(c)

Next ==
    \/ Publish
    \/ \E c \in Clients : WakeClient(c) \/ RunCallback(c) \/ Open(c) \/ Task(c) \/ Cancelled(c)

\* The analysis thread calls the waiters it copied, the event loop runs what is
\* scheduled on it, and a task goes on: each send ends one way or another within
\* its timeout. Nobody has to publish, connect or go away.
\* WaitReturns can be disabled again only by itself, but it and the callbacks
\* wait for LoopFree, which other tasks keep taking away: the event loop's queue
\* is first come first served, which is strong fairness here.
Fairness ==
    \A c \in Clients :
        /\ WF_vars(WakeClient(c))
        /\ SF_vars(RunCallback(c))
        /\ SF_vars(Task(c))

Spec == Init /\ [][Next]_vars
FairSpec == Spec /\ Fairness

---------------------------------------------------------------------------
(* Properties. *)

\* Every variable has its type.
TypeOK ==
    /\ fallback \in BOOLEAN
    /\ latest \in Ids
    /\ waiters \subseteq Clients /\ waking \subseteq Clients /\ callbacks \subseteq Clients
    /\ clients \in 0 .. Cardinality(Clients)
    /\ dropped \in 0 .. Cardinality(Clients)
    /\ place \in [Clients -> Places]
    /\ wake \in [Clients -> BOOLEAN]
    /\ lastId \in [Clients -> Ids]
    /\ received \in [Clients -> Ids]
    /\ sending \in [Clients -> Ids]
    /\ slow \in [Clients -> BOOLEAN]
    /\ joinedAt \in [Clients -> Ids]

\* A snapshot published since the client registered, and not yet sent to it, is
\* never forgotten while the client waits: its event is set, or will be by a
\* callback or by the publish() under way. The period timeout is not needed.
NoMissedWake ==
    \A c \in Clients :
        place[c] = "wait" /\ latest \notin {received[c], joinedAt[c]} =>
            wake[c] \/ c \in callbacks \/ c \in waking

\* Every send carries a snapshot newer than all the client got before: none is
\* repeated and none comes out of order.
OnlyNews == \A c \in Clients : place[c] = "send" => sending[c] > received[c]

\* The bookkeeping balances whatever way each client ended: client_count counts
\* the tasks between their first and last section, dropped_clients the slow ones,
\* and no task that is over is still among the waiters.
Ended == {c \in Clients : place[c] = "gone"}
Balanced ==
    /\ clients = Cardinality({c \in Clients : place[c] # "new"} \ Ended)
    /\ dropped = Cardinality({c \in Ended : slow[c]})
    /\ waiters = {c \in Clients : place[c] \in AtAwait \union {"woken"}}

\* A client that stays gets the last snapshot there is: woken for it if it was
\* registered when it was published, by the period timeout if it was not.
Reachable(c) == fallback \/ latest # joinedAt[c]
LastValueArrives ==
    \A c \in Clients :
        <>[](place[c] \in AtAwait \union {"woken"} /\ Reachable(c)) => <>[](received[c] = latest)
=============================================================================
