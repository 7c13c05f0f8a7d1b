---------------------------- MODULE StudioIngest ----------------------------
(***************************************************************************)
(* The Studio and the ingest sockets together: api/ingest.py asks          *)
(* studio_is_active() once, when a socket is opened, and the Studio may be *)
(* entered and left at any time after that.                                *)
(***************************************************************************)
EXTENDS StudioLifecycle, FiniteSets

CONSTANTS Conns, MaxFrames, Overlaps, Nobody

ASSUME IngestAssumption ==
    /\ IsFiniteSet(Conns) /\ Nobody \notin Conns
    /\ MaxFrames \in Nat /\ Overlaps \subseteq BOOLEAN

VARIABLES overlap, socket, admittedIn, clockOf, seq, frameId, decodeFailures, statsFrames,
          sent, last

Ingest == INSTANCE IngestSockets WITH studioActive <- active, studioSession <- sessions

ingestVars == <<overlap, socket, admittedIn, clockOf, seq, frameId, decodeFailures, statsFrames,
                sent, last>>
vars == <<studioVars, ingestVars>>

Init == StudioInit /\ Ingest!IngestInit

Next ==
    \/ StudioNext /\ UNCHANGED ingestVars
    \/ Ingest!IngestNext /\ UNCHANGED studioVars

Spec == Init /\ [][Next]_vars
FairSpec == Spec /\ StudioFairness

---------------------------------------------------------------------------

\* Every variable of both parts has its type.
TypeOK == StudioTypeOK /\ Ingest!IngestTypeOK

\* What IngestSockets promises, in the presence of the real Studio: the counts of
\* handlers and source agree, ...
CountsAgree == Ingest!CountsAgree

\* ... a frame comes in during a Studio session only over an older connection, ...
OnlyOldSockets == Ingest!OnlyOldSockets

\* ... and clients that do not overlap keep their own clock and numbering.
OwnSession == Ingest!OwnSession

\* Together: what the sockets promise, whatever the Studio does.
SocketsAreSound == CountsAgree /\ OnlyOldSockets /\ OwnSession

\* What the comment at the guard of ws_ingest says: no analysis frame reaches the
\* pipeline while the Studio is open.
FramesStayOut == Ingest!FramesStayOut
=============================================================================
