------------------------- MODULE StudioIngestProofs -------------------------
(***************************************************************************)
(* Proofs about the Studio and the ingest sockets together, for any pages, *)
(* any finite set of connections, either setting of                        *)
(* stop_monitoring_on_enter, requests ordered or not, and any bounds.      *)
(***************************************************************************)
EXTENDS StudioIngest, FiniteSetTheorems, TLAPS

Requests ==
    [kind : {"enter"}, page : Pages] \union [kind : {"leave"}, page : Pages, token : Nat]

StudioShape ==
    /\ config \in [stop : BOOLEAN, ordered : BOOLEAN]
    /\ page \in [Pages -> {"away", "entering", "open", "left", "gone"}]
    /\ held \in [Pages -> 0 .. sessions]
    /\ requests \in Seq(Requests)
    /\ active \in BOOLEAN /\ pausedByUs \in BOOLEAN /\ paused \in BOOLEAN
    /\ sessions \in Nat
    /\ token = IF active THEN sessions ELSE NoToken

\* A page's leave carries the token the page still holds after it.
LeavesAreTrue ==
    \A i \in DOMAIN requests : requests[i].kind = "leave" =>
        page[requests[i].page] = "left" /\ requests[i].token = held[requests[i].page]

\* The session of a page that was let in runs, or a page has left that could end it.
EndedByLeaver ==
    \A p \in Pages : LetIn(p) =>
        \/ active /\ token = held[p]
        \/ \E q \in Pages : page[q] = "left" /\ held[q] \in {NoToken, held[p]}

\* A page has no token before its enter is answered.
EnteringHasNone == \A p \in Pages : page[p] \in {"away", "entering"} => held[p] = NoToken

OneShown == \A p, q \in Pages : Shown(p) /\ Shown(q) => p = q

\* Where requests keep their order, the enter of the page that waits for it is the
\* last of them, and once it is answered none is left.
IsEnterOf(i, p) == requests[i].kind = "enter" /\ requests[i].page = p
Queued ==
    config.ordered => \A p \in Pages :
        /\ page[p] = "away" => \A i \in DOMAIN requests : ~IsEnterOf(i, p)
        /\ page[p] = "entering" => \A i \in DOMAIN requests : IsEnterOf(i, p) => i = Len(requests)
        /\ LetIn(p) => requests = <<>> /\ active

SInv ==
    /\ StudioShape /\ RestoredExactly /\ LeavesAreTrue /\ EndedByLeaver
    /\ EnteringHasNone /\ OneShown /\ Queued

\* The queue of requests: what a handled request leaves behind.
LEMMA RemoveAtElements ==
    ASSUME NEW S, NEW s \in Seq(S), NEW i \in DOMAIN s
    PROVE  /\ RemoveAt(s, i) \in Seq(S)
           /\ Len(RemoveAt(s, i)) = Len(s) - 1
           /\ DOMAIN RemoveAt(s, i) = 1 .. Len(s) - 1
           /\ \A j \in DOMAIN RemoveAt(s, i) :
                 RemoveAt(s, i)[j] = IF j < i THEN s[j] ELSE s[j + 1]
<1> DEFINE a == SubSeq(s, 1, i - 1)
           b == SubSeq(s, i + 1, Len(s))
<1>1. i \in 1 .. Len(s) /\ Len(s) \in Nat
  OBVIOUS
<1>2. a \in Seq(S) /\ Len(a) = i - 1 /\ \A j \in 1 .. i - 1 : a[j] = s[j]
  BY <1>1
<1>3. b \in Seq(S) /\ Len(b) = Len(s) - i /\ \A j \in 1 .. Len(s) - i : b[j] = s[i + j]
  BY <1>1
<1> HIDE DEF a, b
<1>4. a \o b \in Seq(S) /\ Len(a \o b) = Len(s) - 1
  BY <1>1, <1>2, <1>3
<1>5. \A j \in 1 .. Len(s) - 1 : (a \o b)[j] = IF j < i THEN s[j] ELSE s[j + 1]
  BY <1>1, <1>2, <1>3
<1>6. RemoveAt(s, i) = a \o b
  BY DEF RemoveAt, a, b
<1>7. DOMAIN (a \o b) = 1 .. Len(s) - 1
  BY <1>4
<1> QED BY <1>4, <1>5, <1>6, <1>7

---------------------------------------------------------------------------
(* The Studio. *)

LEMMA StudioStep == SInv /\ [StudioNext]_studioVars => SInv'
<1> SUFFICES ASSUME SInv, [StudioNext]_studioVars PROVE SInv'
  OBVIOUS
<1> USE StudioAssumption DEF SInv, StudioShape, NoToken, serverVars, LetIn
<1>1. ASSUME NEW p \in Pages, NEW r \in Requests,
             requests' = Append(requests, r)
      PROVE  /\ requests' \in Seq(Requests) /\ Len(requests') = Len(requests) + 1
             /\ requests'[Len(requests')] = r
             /\ \A i \in 1 .. Len(requests) : requests'[i] = requests[i]
  BY <1>1
<1>2. ASSUME NEW p \in Pages, LoadPage(p)
      PROVE  SInv'
  <2>1. [kind |-> "enter", page |-> p] \in Requests
    BY DEF Requests
  <2>2. /\ requests' \in Seq(Requests) /\ Len(requests') = Len(requests) + 1
        /\ requests'[Len(requests')] = [kind |-> "enter", page |-> p]
        /\ \A i \in 1 .. Len(requests) : requests'[i] = requests[i]
    BY <1>1, <1>2, <2>1 DEF LoadPage
  <2>3. StudioShape' /\ RestoredExactly' /\ EndedByLeaver' /\ EnteringHasNone' /\ OneShown'
    BY <1>2, <2>2 DEF LoadPage, RestoredExactly, EndedByLeaver, EnteringHasNone, OneShown, Shown
  <2>4. LeavesAreTrue'
    BY <1>2, <2>2 DEF LoadPage, LeavesAreTrue
  <2>5. Queued'
    BY <1>2, <2>2 DEF LoadPage, Queued, IsEnterOf, Shown
  <2> QED BY <2>3, <2>4, <2>5
<1>3. ASSUME NEW p \in Pages, LeavePage(p)
      PROVE  SInv'
  <2> DEFINE r == [kind |-> "leave", page |-> p, token |-> held[p]]
  <2>1. r \in Requests
    BY DEF Requests
  <2>2. /\ requests' \in Seq(Requests) /\ Len(requests') = Len(requests) + 1
        /\ requests'[Len(requests')] = r
        /\ \A i \in 1 .. Len(requests) : requests'[i] = requests[i]
    BY <1>1, <1>3, <2>1 DEF LeavePage
  <2>3. StudioShape' /\ RestoredExactly' /\ EndedByLeaver' /\ EnteringHasNone' /\ OneShown'
    BY <1>3, <2>2 DEF LeavePage, RestoredExactly, EndedByLeaver, EnteringHasNone, OneShown, Shown
  <2>4. LeavesAreTrue'
    BY <1>3, <2>2 DEF LeavePage, LeavesAreTrue
  <2>5. Queued'
    BY <1>3, <2>2 DEF LeavePage, Queued, IsEnterOf, Shown, OneShown
  <2> QED BY <2>3, <2>4, <2>5
<1>4. ASSUME NEW p \in Pages, LeaveEarly(p) \/ LoseLeave(p)
      PROVE  SInv'
  <2>1. /\ page' = [page EXCEPT ![p] = "gone"]
        /\ Shown(p) /\ page[p] # "left"
        /\ UNCHANGED <<config, held, requests, serverVars>>
    BY <1>4 DEF LeaveEarly, LoseLeave, Shown
  <2> QED BY <2>1 DEF RestoredExactly, LeavesAreTrue, EndedByLeaver, EnteringHasNone, OneShown,
                     Queued, IsEnterOf, Shown
<1>7. ASSUME NEW p \in Pages, EnterFails(p)
      PROVE  SInv'
  <2>0. /\ page[p] = "entering" /\ page' = [page EXCEPT ![p] = "open"]
        /\ UNCHANGED <<config, held, active, token, pausedByUs, sessions, paused>>
    BY <1>7 DEF EnterFails
  <2>1. /\ requests' \in Seq(Requests) /\ Len(requests') \in Nat
        /\ \A j \in DOMAIN requests' : \E k \in DOMAIN requests : requests'[j] = requests[k]
        /\ requests' = requests
           \/ \E i \in DOMAIN requests : requests[i].kind = "enter" /\ requests[i].page = p
    <3>1. CASE UNCHANGED requests
      BY <3>1
    <3>2. CASE \E i \in DOMAIN requests : /\ requests[i] = [kind |-> "enter", page |-> p]
                                        /\ requests' = RemoveAt(requests, i)
      <4>1. PICK i \in DOMAIN requests : /\ requests[i] = [kind |-> "enter", page |-> p]
                                        /\ requests' = RemoveAt(requests, i)
        BY <3>2
      <4>2. /\ requests' \in Seq(Requests) /\ Len(requests') = Len(requests) - 1
            /\ DOMAIN requests' = 1 .. Len(requests) - 1
            /\ \A j \in DOMAIN requests' :
                  requests'[j] = IF j < i THEN requests[j] ELSE requests[j + 1]
        BY <4>1, RemoveAtElements
      <4>3. \A j \in DOMAIN requests' : \E k \in DOMAIN requests : requests'[j] = requests[k]
        BY <4>1, <4>2
      <4> QED BY <4>1, <4>2, <4>3
    <3> QED BY <1>7, <3>1, <3>2 DEF EnterFails
  <2>2. StudioShape' /\ RestoredExactly' /\ OneShown'
    BY <2>0, <2>1 DEF RestoredExactly, OneShown, Shown
  <2>3. LeavesAreTrue'
    <3> SUFFICES ASSUME NEW j \in DOMAIN requests', requests'[j].kind = "leave"
                 PROVE  /\ page'[requests'[j].page] = "left"
                        /\ requests'[j].token = held'[requests'[j].page]
      BY DEF LeavesAreTrue
    <3>1. PICK k \in DOMAIN requests : requests'[j] = requests[k]
      BY <2>1
    <3> QED BY <2>0, <3>1 DEF LeavesAreTrue, Requests
  <2>4. held[p] = NoToken
    BY <2>0 DEF EnteringHasNone
  <2>5. EndedByLeaver'
    BY <2>0, <2>4 DEF EndedByLeaver
  <2>6. Queued'
    <3> SUFFICES ASSUME config.ordered, NEW q \in Pages
                 PROVE  /\ page'[q] = "away" => \A j \in DOMAIN requests' : ~IsEnterOf(j, q)'
                        /\ page'[q] = "entering" =>
                              \A j \in DOMAIN requests' : IsEnterOf(j, q)' => j = Len(requests')
                        /\ LetIn(q)' => requests' = <<>> /\ active'
      BY <2>0 DEF Queued
    <3>1. page'[q] # "entering"
      BY <2>0 DEF OneShown, Shown
    <3>2. ASSUME page'[q] = "away" PROVE \A j \in DOMAIN requests' : ~IsEnterOf(j, q)'
      BY <2>0, <2>1, <3>2 DEF Queued, IsEnterOf
    <3>3. ~LetIn(q)'
      BY <2>0, <2>4 DEF OneShown, Shown
    <3> QED BY <3>1, <3>2, <3>3
  <2> QED BY <2>0, <2>2, <2>3, <2>4, <2>5, <2>6 DEF EnteringHasNone
<1>5. ASSUME NEW i \in DOMAIN requests, Handle(i)
      PROVE  SInv'
  <2>0. /\ requests[i] \in Requests /\ i \in 1 .. Len(requests) /\ Len(requests) \in Nat
        /\ DOMAIN requests = 1 .. Len(requests)
    OBVIOUS
  <2>1. /\ requests' \in Seq(Requests) /\ Len(requests') = Len(requests) - 1
        /\ DOMAIN requests' = 1 .. Len(requests) - 1
        /\ \A j \in DOMAIN requests' : requests'[j] = IF j < i THEN requests[j] ELSE requests[j + 1]
    BY <1>5, RemoveAtElements DEF Handle
  <2>2. \A j \in DOMAIN requests' : \E k \in DOMAIN requests : requests'[j] = requests[k]
    BY <2>0, <2>1
  <2>3. ASSUME NEW p \in Pages, requests[i].kind = "enter", requests[i].page = p,
               StudioEnter(p), UNCHANGED config
        PROVE  SInv'
    <3>0. /\ active' /\ sessions' \in Nat /\ token' = sessions' /\ sessions <= sessions'
          /\ paused' = (active' /\ config'.stop) /\ pausedByUs' = paused'
          /\ active => token' = token
      BY <2>3 DEF StudioEnter, StartSession, PausedByUs, LoopPausedOnEnter, RestoredExactly
    <3>00. /\ page' \in [Pages -> {"away", "entering", "open", "left", "gone"}]
           /\ \A q \in Pages : \/ page'[q] = page[q] /\ held'[q] = held[q]
                               \/ q = p /\ page[q] = "entering" /\ page'[q] = "open"
                                  /\ held'[q] = token'
           /\ held' \in [Pages -> 0 .. sessions']
      <4>1. CASE page[p] = "entering"
        <5>1. /\ page' = [page EXCEPT ![p] = "open"] /\ held' = [held EXCEPT ![p] = token']
              /\ token' \in 0 .. sessions' /\ 0 .. sessions \subseteq 0 .. sessions'
          BY <2>3, <3>0, <4>1 DEF StudioEnter
        <5> QED BY <4>1, <5>1
      <4>2. CASE page[p] # "entering"
        BY <2>3, <3>0, <4>2 DEF StudioEnter
      <4> QED BY <4>1, <4>2
    <3>1. StudioShape' /\ RestoredExactly' /\ active'
      BY <2>1, <2>3, <3>0, <3>00 DEF RestoredExactly
    <3>2. LeavesAreTrue'
      <4> SUFFICES ASSUME NEW j \in DOMAIN requests', requests'[j].kind = "leave"
                   PROVE  /\ page'[requests'[j].page] = "left"
                          /\ requests'[j].token = held'[requests'[j].page]
        BY DEF LeavesAreTrue
      <4>1. PICK k \in DOMAIN requests : requests'[j] = requests[k]
        BY <2>2
      <4>2. requests[k].page \in Pages
        BY <4>1 DEF Requests
      <4> QED BY <3>00, <4>1, <4>2 DEF LeavesAreTrue
    <3>3. EndedByLeaver'
      <4> SUFFICES ASSUME NEW q \in Pages, LetIn(q)'
                   PROVE  \/ active' /\ token' = held'[q]
                          \/ \E o \in Pages : page'[o] = "left" /\ held'[o] \in {NoToken, held'[q]}
        BY DEF EndedByLeaver
      <4>1. CASE ~LetIn(q)
        BY <3>0, <3>00, <4>1
      <4>2. CASE LetIn(q) /\ active /\ token = held[q]
        BY <3>0, <3>00, <4>2
      <4>3. CASE LetIn(q) /\ ~(active /\ token = held[q])
        <5>1. PICK o \in Pages : page[o] = "left" /\ held[o] \in {NoToken, held[q]}
          BY <4>3 DEF EndedByLeaver
        <5>2. held'[q] = held[q] /\ page'[o] = "left" /\ held'[o] = held[o]
          BY <3>00, <4>3, <5>1
        <5> QED BY <5>1, <5>2
      <4> QED BY <4>1, <4>2, <4>3
    <3>4. OneShown' /\ EnteringHasNone'
      BY <2>3 DEF OneShown, EnteringHasNone, StudioEnter, Shown
    <3>5. Queued'
      <4> SUFFICES ASSUME config.ordered, NEW q \in Pages
                   PROVE  /\ page'[q] = "away" => \A j \in DOMAIN requests' : ~IsEnterOf(j, q)'
                          /\ page'[q] = "entering" =>
                                \A j \in DOMAIN requests' : IsEnterOf(j, q)' => j = Len(requests')
                          /\ LetIn(q)' => requests' = <<>> /\ active'
        BY <2>3 DEF Queued
      <4>1. CASE page'[q] = "away"
        BY <2>2, <2>3, <4>1 DEF Queued, IsEnterOf, StudioEnter
      <4>2. CASE page'[q] = "entering"
        <5>1. page[q] = "entering"
          BY <2>3, <4>2 DEF StudioEnter
        <5>2. ASSUME NEW j \in DOMAIN requests', IsEnterOf(j, q)' PROVE j = Len(requests')
          <6>1. i = 1
            BY <1>5 DEF Handle
          <6>2. requests'[j] = requests[j + 1] /\ j + 1 \in DOMAIN requests
            BY <2>1, <2>0, <6>1
          <6>3. IsEnterOf(j + 1, q)
            BY <5>2, <6>2 DEF IsEnterOf
          <6>4. j + 1 = Len(requests)
            BY <5>1, <6>2, <6>3 DEF Queued
          <6> QED BY <2>0, <2>1, <6>4
        <5> QED BY <4>2, <5>2
      <4>3. CASE LetIn(q)'
        <5>1. ~LetIn(q)
          BY DEF Queued
        <5>2. q = p /\ page[q] = "entering"
          BY <2>3, <4>3, <5>1 DEF StudioEnter
        <5>3. i = Len(requests) /\ i = 1
          BY <1>5, <2>3, <5>2 DEF Queued, IsEnterOf, Handle
        <5>4. requests' = <<>>
          BY <2>1, <5>3
        <5> QED BY <3>1, <4>3, <5>4
      <4> QED BY <4>1, <4>2, <4>3
    <3> QED BY <3>1, <3>2, <3>3, <3>4, <3>5
  <2>4. ASSUME requests[i].kind = "leave", StudioLeave(requests[i].token), UNCHANGED config
        PROVE  SInv'
    <3>1. StudioShape' /\ RestoredExactly' /\ OneShown' /\ EnteringHasNone'
      <4>1. CASE MayEnd(requests[i].token)
        BY <2>1, <2>4, <4>1 DEF StudioLeave, MayEnd, TokenAfterLeave, RestoredExactly,
           OneShown, Shown, EnteringHasNone
      <4>2. CASE ~MayEnd(requests[i].token)
        BY <2>1, <2>4, <4>2 DEF StudioLeave, RestoredExactly, OneShown, Shown, EnteringHasNone
      <4> QED BY <4>1, <4>2
    <3>2. LeavesAreTrue'
      BY <2>2, <2>4 DEF LeavesAreTrue, StudioLeave
    <3>3. EndedByLeaver'
      <4>1. requests[i].page \in Pages /\ page[requests[i].page] = "left"
            /\ held[requests[i].page] = requests[i].token
        BY <2>0, <2>4 DEF LeavesAreTrue, Requests
      <4> QED BY <2>4, <4>1 DEF EndedByLeaver, StudioLeave, MayEnd
    <3>4. Queued'
      <4>1. config.ordered => i = 1
        BY <1>5 DEF Handle
      <4> SUFFICES ASSUME config.ordered, NEW q \in Pages
                   PROVE  /\ page[q] = "away" => \A j \in DOMAIN requests' : ~IsEnterOf(j, q)'
                          /\ page[q] = "entering" =>
                                \A j \in DOMAIN requests' : IsEnterOf(j, q)' => j = Len(requests')
                          /\ ~LetIn(q)
        BY <2>4 DEF Queued, StudioLeave
      <4>2. ~LetIn(q)
        BY <2>0 DEF Queued
      <4>3. ASSUME page[q] = "away" PROVE \A j \in DOMAIN requests' : ~IsEnterOf(j, q)'
        BY <2>2, <4>3 DEF Queued, IsEnterOf
      <4>4. ASSUME page[q] = "entering", NEW j \in DOMAIN requests', IsEnterOf(j, q)'
            PROVE  j = Len(requests')
        <5>1. requests'[j] = requests[j + 1] /\ j + 1 \in DOMAIN requests
          BY <2>0, <2>1, <4>1
        <5> QED BY <2>0, <2>1, <4>4, <5>1 DEF Queued, IsEnterOf
      <4> QED BY <4>2, <4>3, <4>4
    <3> QED BY <3>1, <3>2, <3>3, <3>4
  <2> QED BY <1>5, <2>0, <2>3, <2>4 DEF Handle, Requests
<1>6. CASE UNCHANGED studioVars
  BY <1>6 DEF studioVars, pageVars, RestoredExactly, LeavesAreTrue, EndedByLeaver, EnteringHasNone,
              OneShown, Queued, IsEnterOf, Shown
<1> QED BY <1>2, <1>3, <1>4, <1>5, <1>6, <1>7 DEF StudioNext, StudioHandler

LEMMA StudioInvariant == Spec => []SInv
<1>1. Init => SInv
  <2> SUFFICES ASSUME StudioInit PROVE SInv
    BY DEF Init
  <2>0. config \in [stop : BOOLEAN, ordered : BOOLEAN]
    BY StudioAssumption DEF StudioInit
  <2>1. /\ page \in [Pages -> {"away", "entering", "open", "left", "gone"}]
        /\ held \in [Pages -> 0 .. sessions]
        /\ requests \in Seq(Requests) /\ sessions \in Nat
    BY DEF StudioInit, NoToken
  <2>3. StudioShape /\ RestoredExactly
    BY <2>0, <2>1 DEF StudioInit, StudioShape, RestoredExactly
  <2>2. LeavesAreTrue /\ EndedByLeaver /\ EnteringHasNone /\ OneShown /\ Queued
    BY DEF StudioInit, LeavesAreTrue, EndedByLeaver, EnteringHasNone, OneShown, LetIn, Queued, Shown
  <2> QED BY <2>2, <2>3 DEF SInv
<1>2. SInv /\ [Next]_vars => SInv'
  BY StudioStep DEF Next, vars
<1> QED BY <1>1, <1>2, PTL DEF Spec

\* The loop is paused exactly while a session holds the pause; with requests in
\* order, it is paused while a page shows the Studio.
THEOREM PauseAndSession == Spec => []PauseFollowsSession
<1>1. SInv => PauseFollowsSession
  BY DEF SInv, StudioShape, Queued, RestoredExactly, OpenMeansPaused, PauseFollowsSession
<1> QED BY <1>1, StudioInvariant, PTL

\* In any order, a page whose token nobody shares keeps its session, as long as
\* every page knew its token when it left.
THEOREM OwnSessionIsSafe == Spec => []OwnSessionSafe
<1>1. SInv => OwnSessionSafe
  BY DEF SInv, StudioShape, EndedByLeaver, RestoredExactly, OwnSessionSafe, LetIn
<1> QED BY <1>1, StudioInvariant, PTL

---------------------------------------------------------------------------
(* The sockets. *)

SocketStates == {"none", "hello", "echo", "receive", "submit", "submitted", "closed"}
Submitted == {c \in Conns : socket[c] = "submitted"}

SocketShape ==
    /\ overlap \in BOOLEAN
    /\ socket \in [Conns -> SocketStates]
    /\ admittedIn \in [Conns -> 0 .. sessions]
    /\ clockOf \in Conns \union {Nobody}
    /\ seq \in Int /\ frameId \in Int /\ -1 <= seq /\ seq <= frameId
    /\ decodeFailures \in Nat /\ statsFrames \in Nat
    /\ sent \in [Conns -> Nat]
    /\ last \in [conn : Conns \union {Nobody}, clock : Conns \union {Nobody}, seq : Int,
                 nth : Int, late : BOOLEAN]

\* No more frames are being stored than the bound leaves room for.
WithinBound == statsFrames + Cardinality(Ingest!InSubmit) <= MaxFrames

\* Who is served while the Studio is open was admitted before its session began.
AdmittedEarlier ==
    /\ \A c \in Conns : active /\ Ingest!Served(c) => admittedIn[c] < sessions
    /\ last.late => last.conn \in Conns /\ socket[last.conn] # "none"
                    /\ admittedIn[last.conn] < sessions

\* Of connections that do not overlap one is served, and the clock and the
\* numbering are its own from the end of its handshake on.
OwnNumbering ==
    /\ \A c \in Conns : socket[c] \in {"none", "hello", "echo"} => sent[c] = 0
    /\ ~overlap =>
         /\ \A c, d \in Conns : Ingest!Served(c) /\ Ingest!Served(d) => c = d
         /\ \A c \in Conns : socket[c] \in {"receive", "submit", "submitted"} =>
               clockOf = c /\ seq = sent[c] - 1

IInv == SocketShape /\ WithinBound /\ CountsAgree /\ AdmittedEarlier /\ OwnNumbering /\ OwnSession

\* The instance brings its own copy of the operator.
LEMMA SameCardinality == \A S : Ingest!Cardinality(S) = Cardinality(S)
  BY DEF Ingest!Cardinality, Cardinality

LEMMA SessionsGrow == SInv /\ [StudioNext]_studioVars => sessions' \in Nat /\ sessions <= sessions'
<1> SUFFICES ASSUME sessions \in Nat, [StudioNext]_studioVars
             PROVE  sessions' \in Nat /\ sessions <= sessions'
  BY DEF SInv, StudioShape
<1>1. ASSUME NEW i \in DOMAIN requests, Handle(i)
      PROVE  sessions' \in Nat /\ sessions <= sessions'
  <2>1. UNCHANGED sessions \/ sessions' = sessions + 1
    BY <1>1 DEF Handle, StudioEnter, StartSession, StudioLeave, serverVars
  <2> QED BY <2>1
<1>2. ASSUME NEW p \in Pages, LoadPage(p) \/ EnterFails(p) \/ LeavePage(p)
                                \/ LeaveEarly(p) \/ LoseLeave(p)
      PROVE  UNCHANGED sessions
  BY <1>2 DEF LoadPage, EnterFails, LeavePage, LeaveEarly, LoseLeave, serverVars
<1>3. CASE UNCHANGED studioVars
  BY <1>3 DEF studioVars, serverVars
<1> QED BY <1>1, <1>2, <1>3 DEF StudioNext, StudioHandler

LEMMA SocketShapeStep == SInv /\ SocketShape /\ [Next]_vars => SocketShape'
<1> SUFFICES ASSUME SInv, SocketShape, [Next]_vars PROVE SocketShape'
  OBVIOUS
<1>0. sessions \in Nat /\ active \in BOOLEAN
  BY DEF SInv, StudioShape
<1> USE <1>0 DEF SocketShape, SocketStates, Ingest!Goto, Ingest!sourceVars
<1>1. CASE StudioNext /\ UNCHANGED ingestVars
  <2>1. sessions' \in Nat /\ sessions <= sessions'
    BY <1>1, SessionsGrow
  <2> QED BY <1>1, <2>1 DEF ingestVars
<1>2. ASSUME NEW c \in Conns, UNCHANGED studioVars,
             Ingest!Connect(c) \/ Ingest!Hello(c) \/ Ingest!HandshakeFails(c) \/ Ingest!Receive(c)
      PROVE  SocketShape'
  <2>1. UNCHANGED sessions
    BY <1>2 DEF studioVars, serverVars
  <2>2. UNCHANGED <<overlap, clockOf, seq, frameId, decodeFailures, statsFrames, sent, last>>
    BY <1>2 DEF Ingest!Connect, Ingest!Hello, Ingest!HandshakeFails, Ingest!Receive
  <2>3. socket' \in [Conns -> SocketStates]
    BY <1>2 DEF Ingest!Connect, Ingest!Hello, Ingest!HandshakeFails, Ingest!Receive
  <2>4. admittedIn' = admittedIn \/ admittedIn' = [admittedIn EXCEPT ![c] = sessions]
    BY <1>2 DEF Ingest!Connect, Ingest!Hello, Ingest!HandshakeFails, Ingest!Receive
  <2>5. admittedIn' \in [Conns -> 0 .. sessions]
    BY <2>4
  <2> QED BY <2>1, <2>2, <2>3, <2>5
<1>3. ASSUME NEW c \in Conns, UNCHANGED studioVars,
             Ingest!Echo(c) \/ Ingest!Count(c) \/ Ingest!Disconnect(c)
      PROVE  SocketShape'
  <2>1. UNCHANGED <<sessions, overlap, admittedIn, frameId, decodeFailures, sent, last>>
    BY <1>3 DEF studioVars, serverVars, Ingest!Echo, Ingest!Count, Ingest!Disconnect
  <2>2. /\ socket' \in [Conns -> SocketStates]
        /\ clockOf' \in {clockOf, c} /\ seq' \in {seq, -1}
        /\ statsFrames' \in {statsFrames, statsFrames + 1}
    BY <1>3 DEF Ingest!Echo, Ingest!ResetSeq, Ingest!Count, Ingest!Disconnect
  <2> QED BY <2>1, <2>2
<1>4. ASSUME NEW c \in Conns, UNCHANGED studioVars, Ingest!Submit(c)
      PROVE  SocketShape'
  <2>1. UNCHANGED sessions
    BY <1>4 DEF studioVars, serverVars
  <2>2. socket' \in [Conns -> SocketStates] /\ UNCHANGED <<overlap, admittedIn, clockOf, statsFrames>>
    BY <1>4 DEF Ingest!Submit
  <2>3. CASE UNCHANGED <<seq, frameId, sent, last>> /\ Ingest!NoteFailure
    BY <2>1, <2>2, <2>3 DEF Ingest!NoteFailure
  <2>4. CASE ~UNCHANGED <<seq, frameId, sent, last>> \/ ~Ingest!NoteFailure
    <3>1. /\ seq' = seq + 1 /\ frameId' = frameId + 1 /\ UNCHANGED decodeFailures
          /\ sent' = [sent EXCEPT ![c] = @ + 1]
          /\ last' = [conn |-> c, clock |-> clockOf, seq |-> seq + 1, nth |-> sent[c],
                      late |-> active]
      BY <1>4, <2>4 DEF Ingest!Submit
    <3> QED BY <2>1, <2>2, <3>1
  <2> QED BY <2>3, <2>4
<1>5. CASE UNCHANGED vars
  BY <1>5 DEF vars, studioVars, serverVars, ingestVars
<1> QED BY <1>1, <1>2, <1>3, <1>4, <1>5 DEF Next, Ingest!IngestNext

\* The counts: what a step of one connection does to the sets they count.
LEMMA CountStep ==
    SInv /\ SocketShape /\ WithinBound /\ CountsAgree /\ [Next]_vars
        => WithinBound' /\ CountsAgree'
<1> SUFFICES ASSUME SInv, SocketShape, WithinBound, CountsAgree, [Next]_vars
             PROVE  WithinBound' /\ CountsAgree'
  OBVIOUS
<1> USE DEF Ingest!Goto, Ingest!sourceVars
<1> DEFINE Busy == Ingest!InSubmit
<1>a. CountsAgree <=> statsFrames + Cardinality(Submitted) = frameId + 1 + decodeFailures
  BY SameCardinality DEF CountsAgree, Ingest!CountsAgree, Submitted
<1>b. CountsAgree' <=> statsFrames' + Cardinality(Submitted') = frameId' + 1 + decodeFailures'
  BY SameCardinality DEF CountsAgree, Ingest!CountsAgree, Submitted
<1>c. /\ IsFiniteSet(Busy) /\ Cardinality(Busy) \in Nat
      /\ IsFiniteSet(Submitted) /\ Cardinality(Submitted) \in Nat
  BY IngestAssumption, FS_Subset, FS_CardinalityType DEF Ingest!InSubmit, Submitted
<1>d. WithinBound' <=> statsFrames' + Cardinality(Busy') <= MaxFrames
  BY DEF WithinBound
<1>1. ASSUME UNCHANGED <<statsFrames, frameId, decodeFailures>>, Busy' = Busy,
             Submitted' = Submitted
      PROVE  WithinBound' /\ CountsAgree'
  BY <1>1, <1>a, <1>b, <1>d DEF WithinBound
<1>2. CASE UNCHANGED ingestVars
  BY <1>1, <1>2 DEF ingestVars, Ingest!InSubmit, Submitted
<1>3. ASSUME NEW c \in Conns,
             Ingest!Connect(c) \/ Ingest!Hello(c) \/ Ingest!HandshakeFails(c)
                \/ Ingest!Echo(c) \/ Ingest!Disconnect(c)
      PROVE  WithinBound' /\ CountsAgree'
  <2>1. UNCHANGED <<statsFrames, frameId, decodeFailures>>
    BY <1>3 DEF Ingest!Connect, Ingest!Hello, Ingest!HandshakeFails, Ingest!Echo, Ingest!Disconnect
  <2>2. /\ socket[c] \notin {"submit", "submitted"} /\ socket'[c] \notin {"submit", "submitted"}
        /\ \A d \in Conns \ {c} : socket'[d] = socket[d]
    BY <1>3 DEF SocketShape, Ingest!Connect, Ingest!Hello, Ingest!HandshakeFails, Ingest!Echo,
                Ingest!Disconnect
  <2>3. Busy' = Busy /\ Submitted' = Submitted
    BY <2>2 DEF Ingest!InSubmit, Submitted
  <2> QED BY <1>1, <2>1, <2>3
<1>4. ASSUME NEW c \in Conns, Ingest!Receive(c)
      PROVE  WithinBound' /\ CountsAgree'
  <2>1. Busy' = Busy \union {c} /\ c \notin Busy /\ Submitted' = Submitted
    BY <1>4 DEF SocketShape, Ingest!Receive, Ingest!InSubmit, Submitted
  <2>2. Cardinality(Busy') = Cardinality(Busy) + 1
    BY <1>c, <2>1, FS_AddElement
  <2>3. /\ UNCHANGED <<statsFrames, frameId, decodeFailures>>
        /\ statsFrames + Cardinality(Busy) < MaxFrames
    BY <1>4, SameCardinality DEF Ingest!Receive
  <2> QED BY <1>a, <1>b, <1>c, <1>d, <2>1, <2>2, <2>3, IngestAssumption DEF SocketShape
<1>5. ASSUME NEW c \in Conns, Ingest!Submit(c)
      PROVE  WithinBound' /\ CountsAgree'
  <2>1. Busy' = Busy /\ Submitted' = Submitted \union {c} /\ c \notin Submitted
    BY <1>5 DEF SocketShape, Ingest!Submit, Ingest!InSubmit, Submitted
  <2>2. Cardinality(Submitted') = Cardinality(Submitted) + 1
    BY <1>c, <2>1, FS_AddElement
  <2>3. /\ statsFrames' = statsFrames
        /\ \/ frameId' = frameId + 1 /\ decodeFailures' = decodeFailures
           \/ frameId' = frameId /\ decodeFailures' = decodeFailures + 1
    BY <1>5 DEF Ingest!Submit, Ingest!NoteFailure
  <2>4. WithinBound'
    BY <1>d, <2>1, <2>3 DEF WithinBound
  <2>5. statsFrames + Cardinality(Submitted) = frameId + 1 + decodeFailures
    BY <1>a
  <2>6. statsFrames' + Cardinality(Submitted') = frameId' + 1 + decodeFailures'
    <3>1. statsFrames \in Int /\ frameId \in Int /\ decodeFailures \in Int
      BY DEF SocketShape
    <3> QED BY <1>c, <2>2, <2>3, <2>5, <3>1
  <2> QED BY <1>b, <2>4, <2>6
<1>6. ASSUME NEW c \in Conns, Ingest!Count(c)
      PROVE  WithinBound' /\ CountsAgree'
  <2>1. /\ Busy' = Busy \ {c} /\ c \in Busy
        /\ Submitted' = Submitted \ {c} /\ c \in Submitted
    BY <1>6 DEF SocketShape, Ingest!Count, Ingest!InSubmit, Submitted
  <2>2. /\ Cardinality(Busy') = Cardinality(Busy) - 1
        /\ Cardinality(Submitted') = Cardinality(Submitted) - 1
    BY <1>c, <2>1, FS_RemoveElement
  <2>3. statsFrames' = statsFrames + 1 /\ UNCHANGED <<frameId, decodeFailures>>
    BY <1>6 DEF Ingest!Count
  <2> QED BY <1>a, <1>b, <1>c, <1>d, <2>2, <2>3 DEF SocketShape, WithinBound
<1> QED BY <1>2, <1>3, <1>4, <1>5, <1>6 DEF Next, Ingest!IngestNext, vars

LEMMA AdmittedStep ==
    SInv /\ SocketShape /\ AdmittedEarlier /\ [Next]_vars => AdmittedEarlier'
<1> SUFFICES ASSUME SInv, SocketShape, AdmittedEarlier, [Next]_vars PROVE AdmittedEarlier'
  OBVIOUS
<1> USE DEF SocketShape, SocketStates, AdmittedEarlier, Ingest!Served, Ingest!Goto, Ingest!sourceVars
<1>0. sessions \in Nat /\ active \in BOOLEAN
  BY DEF SInv, StudioShape
<1>1. CASE StudioNext /\ UNCHANGED ingestVars
  <2>1. \/ UNCHANGED sessions /\ (active' => active)
        \/ sessions' = sessions + 1
    BY <1>1 DEF StudioNext, StudioHandler, Handle, StudioEnter, StartSession, StudioLeave,
                LoadPage, EnterFails, LeavePage, LeaveEarly, LoseLeave, serverVars
  <2> QED BY <1>0, <1>1, <2>1 DEF ingestVars
<1>2. ASSUME NEW c \in Conns, UNCHANGED studioVars, Ingest!Connect(c)
      PROVE  AdmittedEarlier'
  BY <1>0, <1>2 DEF studioVars, serverVars, Ingest!Connect, Ingest!Admitted
<1>3. ASSUME NEW c \in Conns, UNCHANGED studioVars,
             Ingest!Hello(c) \/ Ingest!HandshakeFails(c) \/ Ingest!Receive(c)
                \/ Ingest!Echo(c) \/ Ingest!Count(c) \/ Ingest!Disconnect(c)
      PROVE  AdmittedEarlier'
  <2>1. UNCHANGED <<last, admittedIn, active, sessions>>
    BY <1>3 DEF studioVars, serverVars, Ingest!Hello, Ingest!HandshakeFails, Ingest!Receive,
                Ingest!Echo, Ingest!Count, Ingest!Disconnect
  <2>2. /\ \A d \in Conns : Ingest!Served(d)' => Ingest!Served(d)
        /\ \A d \in Conns : socket[d] # "none" => socket'[d] # "none"
    BY <1>3 DEF Ingest!Hello, Ingest!HandshakeFails, Ingest!Receive, Ingest!Echo, Ingest!Count,
                Ingest!Disconnect
  <2> QED BY <2>1, <2>2
<1>4. ASSUME NEW c \in Conns, UNCHANGED studioVars, Ingest!Submit(c)
      PROVE  AdmittedEarlier'
  <2>1. UNCHANGED <<admittedIn, active, sessions>>
    BY <1>4 DEF studioVars, serverVars, Ingest!Submit
  <2>2. /\ \A d \in Conns : Ingest!Served(d)' => Ingest!Served(d)
        /\ \A d \in Conns : socket[d] # "none" => socket'[d] # "none"
        /\ Ingest!Served(c) /\ socket'[c] # "none"
    BY <1>4 DEF Ingest!Submit
  <2>3. last' = last \/ (last'.conn = c /\ last'.late = active)
    BY <1>4 DEF Ingest!Submit
  <2> QED BY <2>1, <2>2, <2>3
<1>5. CASE UNCHANGED vars
  BY <1>5 DEF vars, studioVars, serverVars, ingestVars
<1> QED BY <1>1, <1>2, <1>3, <1>4, <1>5 DEF Next, Ingest!IngestNext

LEMMA NumberingStep ==
    SocketShape /\ OwnNumbering /\ OwnSession /\ [Next]_vars => OwnNumbering' /\ OwnSession'
<1> SUFFICES ASSUME SocketShape, OwnNumbering, OwnSession, [Next]_vars
             PROVE  OwnNumbering' /\ OwnSession'
  OBVIOUS
<1> USE DEF SocketShape, SocketStates, OwnNumbering, Ingest!Served, Ingest!Goto, Ingest!sourceVars,
            OwnSession, Ingest!OwnSession
<1>1. CASE UNCHANGED ingestVars
  BY <1>1 DEF ingestVars
<1>2. ASSUME NEW c \in Conns, Ingest!Connect(c)
      PROVE  OwnNumbering' /\ OwnSession'
  BY <1>2 DEF Ingest!Connect
<1>3. ASSUME NEW c \in Conns,
             Ingest!Hello(c) \/ Ingest!HandshakeFails(c) \/ Ingest!Receive(c)
                \/ Ingest!Count(c) \/ Ingest!Disconnect(c)
      PROVE  OwnNumbering' /\ OwnSession'
  BY <1>3 DEF Ingest!Hello, Ingest!HandshakeFails, Ingest!Receive, Ingest!Count, Ingest!Disconnect
<1>4. ASSUME NEW c \in Conns, Ingest!Echo(c)
      PROVE  OwnNumbering' /\ OwnSession'
  BY <1>4 DEF Ingest!Echo, Ingest!ResetSeq
<1>5. ASSUME NEW c \in Conns, Ingest!Submit(c)
      PROVE  OwnNumbering' /\ OwnSession'
  BY <1>5 DEF Ingest!Submit
<1> QED BY <1>1, <1>2, <1>3, <1>4, <1>5 DEF Next, Ingest!IngestNext, vars

LEMMA SocketInvariant == Spec => []IInv
<1>1. Init => IInv
  <2> SUFFICES ASSUME Init PROVE IInv
    OBVIOUS
  <2>1. Ingest!InSubmit = {} /\ Submitted = {}
    BY DEF Init, Ingest!IngestInit, Ingest!InSubmit, Submitted
  <2>2. WithinBound /\ CountsAgree
    BY <2>1, FS_EmptySet, IngestAssumption, SameCardinality
    DEF Init, Ingest!IngestInit, WithinBound, CountsAgree, Ingest!CountsAgree, Submitted
  <2>3. SocketShape
    BY IngestAssumption DEF Init, StudioInit, Ingest!IngestInit, Ingest!NoFrame, SocketShape, SocketStates
  <2>4. AdmittedEarlier /\ OwnNumbering /\ OwnSession
    BY DEF Init, Ingest!IngestInit, AdmittedEarlier, OwnNumbering, OwnSession, Ingest!OwnSession,
           Ingest!Served, Ingest!NoFrame
  <2> QED BY <2>2, <2>3, <2>4 DEF IInv
<1>2. SInv /\ IInv /\ [Next]_vars => IInv'
  BY SocketShapeStep, CountStep, AdmittedStep, NumberingStep DEF IInv
<1> QED BY <1>1, <1>2, StudioInvariant, PTL DEF Spec

\* The handlers' count of frames and the source's never differ by more than the
\* frames whose handler has not come back.
THEOREM CountsAlwaysAgree == Spec => []CountsAgree
<1>1. IInv => CountsAgree
  BY DEF IInv
<1> QED BY <1>1, SocketInvariant, PTL

\* What comes in during a Studio session comes over an older connection.
THEOREM OldSocketsOnly == Spec => []OnlyOldSockets
<1>1. IInv => OnlyOldSockets
  BY DEF IInv, AdmittedEarlier, OnlyOldSockets, Ingest!OnlyOldSockets
<1> QED BY <1>1, SocketInvariant, PTL

\* Clients that do not overlap keep their own clock and numbering.
THEOREM SessionsAreOwn == Spec => []OwnSession
<1>1. IInv => OwnSession
  BY DEF IInv
<1> QED BY <1>1, SocketInvariant, PTL

\* The three together, which the runs check.
THEOREM SocketsStaySound == Spec => []SocketsAreSound
<1>1. CountsAgree /\ OnlyOldSockets /\ OwnSession => SocketsAreSound
  BY DEF SocketsAreSound
<1> QED BY <1>1, CountsAlwaysAgree, OldSocketsOnly, SessionsAreOwn, PTL

\* Every variable of the Studio and of the sockets has its type.
THEOREM StudioIngestTypes == Spec => []TypeOK
<1>1. SInv /\ IInv => TypeOK
  <2> SUFFICES ASSUME SInv, IInv PROVE TypeOK
    OBVIOUS
  <2>1. StudioTypeOK
    BY DEF SInv, StudioShape, StudioTypeOK
  <2>2. Submitted \in SUBSET Ingest!InSubmit /\ IsFiniteSet(Ingest!InSubmit)
    BY IngestAssumption, FS_Subset DEF Submitted, Ingest!InSubmit
  <2>3. /\ Cardinality(Submitted) \in Nat /\ Cardinality(Ingest!InSubmit) \in Nat
        /\ Cardinality(Submitted) <= Cardinality(Ingest!InSubmit)
    BY <2>2, FS_Subset, FS_CardinalityType
  <2>4. statsFrames + Cardinality(Submitted) = frameId + 1 + decodeFailures
    BY SameCardinality DEF IInv, CountsAgree, Ingest!CountsAgree, Submitted
  <2>5. frameId <= MaxFrames - 1 /\ statsFrames <= MaxFrames
    BY <2>3, <2>4, IngestAssumption DEF IInv, SocketShape, WithinBound
  <2>6. Ingest!IngestTypeOK
    BY <2>5, IngestAssumption DEF IInv, SocketShape, SocketStates, Ingest!IngestTypeOK
  <2> QED BY <2>1, <2>6 DEF TypeOK
<1> QED BY <1>1, StudioInvariant, SocketInvariant, PTL
=============================================================================
