-------------------------- MODULE BroadcastProofs --------------------------
(***************************************************************************)
(* Proofs about Broadcast, for any finite set of clients, any number of    *)
(* snapshots and with or without the period timeout.                       *)
(***************************************************************************)
EXTENDS Broadcast, FiniteSetTheorems, TLAPS

\* TypeOK but for the bounds of the two counts, which follow from the balance.
Shape ==
    /\ fallback \in BOOLEAN
    /\ latest \in Ids
    /\ waiters \subseteq Clients /\ waking \subseteq Clients /\ callbacks \subseteq Clients
    /\ place \in [Clients -> Places]
    /\ wake \in [Clients -> BOOLEAN]
    /\ lastId \in [Clients -> Ids]
    /\ received \in [Clients -> Ids]
    /\ sending \in [Clients -> Ids]
    /\ slow \in [Clients -> BOOLEAN]
    /\ joinedAt \in [Clients -> Ids]

\* What a task noted as sent is what its client received; nothing is ahead of
\* the newest snapshot.
Noted ==
    \A c \in Clients :
        /\ lastId[c] = received[c]
        /\ received[c] <= latest /\ sending[c] <= latest /\ joinedAt[c] <= latest

\* A wake-up is owed while a client waits, sleeps or sends something older.
Owed(c) ==
    \/ place[c] \in {"wait", "sleep"} /\ latest \notin {received[c], joinedAt[c]}
    \/ place[c] = "send" /\ latest \notin {sending[c], joinedAt[c]}

WakeOwed == \A c \in Clients : Owed(c) => wake[c] \/ c \in callbacks \/ c \in waking

Registered == waiters = {c \in Clients : place[c] \in AtAwait \union {"woken"}}

Live == {c \in Clients : place[c] \notin {"new", "gone"}}
Dropped == {c \in Clients : place[c] = "gone" /\ slow[c]}
Counted == clients = Cardinality(Live) /\ dropped = Cardinality(Dropped)

BInv == Shape /\ Noted /\ OnlyNews /\ Registered /\ WakeOwed /\ Counted

---------------------------------------------------------------------------
(* Types, and what clients have been sent. *)

LEMMA ShapeStep == Shape /\ [Next]_vars => Shape'
<1> SUFFICES ASSUME Shape, [Next]_vars PROVE Shape'
  OBVIOUS
<1> USE BroadcastAssumption
    DEF Shape, Ids, Places, AtAwait, None, Goto, publisherVars, registryVars, clientVars
<1>1. CASE Publish
  BY <1>1 DEF Publish, WakeTargets
<1>2. ASSUME NEW c \in Clients,
             WakeClient(c) \/ RunCallback(c) \/ Open(c) \/ AddWaiter(c) \/ WaitReturns(c)
      PROVE  Shape'
  <2>1. CASE WakeClient(c) \/ RunCallback(c)
    BY <2>1 DEF WakeClient, RunCallback
  <2>2. CASE Open(c)
    BY <2>2 DEF Open
  <2>3. CASE AddWaiter(c)
    BY <2>3 DEF AddWaiter
  <2>4. CASE WaitReturns(c)
    BY <2>4 DEF WaitReturns, ClearWake
  <2> QED BY <1>2, <2>1, <2>2, <2>3, <2>4
<1>3. ASSUME NEW c \in Clients, ReadLatest(c) \/ SendCompletes(c) \/ SleepEnds(c)
      PROVE  Shape'
  BY <1>3 DEF ReadLatest, SendCompletes, SleepEnds, NoteSent
<1>4. ASSUME NEW c \in Clients, NEW s \in BOOLEAN, Leave(c, s)
      PROVE  Shape'
  BY <1>4 DEF Leave
<1>5. ASSUME NEW c \in Clients, Close(c)
      PROVE  Shape'
  BY <1>5 DEF Close
<1>6. CASE UNCHANGED vars
  BY <1>6 DEF vars
<1> QED
  BY <1>1, <1>2, <1>3, <1>4, <1>5, <1>6 DEF Next, Task, SendTimesOut, SendFails, Cancelled

LEMMA NewsStep == Shape /\ Noted /\ OnlyNews /\ [Next]_vars => Noted' /\ OnlyNews'
<1> SUFFICES ASSUME Shape, Noted, OnlyNews, [Next]_vars PROVE Noted' /\ OnlyNews'
  OBVIOUS
<1> USE BroadcastAssumption
    DEF Shape, Ids, None, Noted, OnlyNews, Goto, publisherVars, registryVars, clientVars
<1>1. CASE Publish
  BY <1>1 DEF Publish
<1>2. ASSUME NEW c \in Clients,
             WakeClient(c) \/ RunCallback(c) \/ Open(c) \/ AddWaiter(c) \/ WaitReturns(c)
      PROVE  Noted' /\ OnlyNews'
  BY <1>2 DEF WakeClient, RunCallback, Open, AddWaiter, WaitReturns
<1>3. ASSUME NEW c \in Clients, ReadLatest(c)
      PROVE  Noted' /\ OnlyNews'
  BY <1>3 DEF ReadLatest, HasNews
<1>4. ASSUME NEW c \in Clients, SendCompletes(c) \/ SleepEnds(c)
      PROVE  Noted' /\ OnlyNews'
  BY <1>4 DEF SendCompletes, SleepEnds, NoteSent
<1>5. ASSUME NEW c \in Clients, NEW s \in BOOLEAN, Leave(c, s)
      PROVE  Noted' /\ OnlyNews'
  BY <1>5 DEF Leave
<1>6. ASSUME NEW c \in Clients, Close(c)
      PROVE  Noted' /\ OnlyNews'
  BY <1>6 DEF Close
<1>7. CASE UNCHANGED vars
  BY <1>7 DEF vars
<1> QED
  BY <1>1, <1>2, <1>3, <1>4, <1>5, <1>6, <1>7 DEF Next, Task, SendTimesOut, SendFails, Cancelled

---------------------------------------------------------------------------
(* Wake-ups. *)

LEMMA RegisteredStep == Shape /\ Registered /\ [Next]_vars => Registered'
<1> SUFFICES ASSUME Shape, Registered, [Next]_vars PROVE Registered'
  OBVIOUS
<1> USE DEF Shape, Places, Registered, AtAwait, Goto, publisherVars, registryVars, clientVars
<1>1. CASE Publish
  BY <1>1 DEF Publish
<1>2. ASSUME NEW c \in Clients,
             WakeClient(c) \/ RunCallback(c) \/ Open(c) \/ AddWaiter(c) \/ WaitReturns(c)
      PROVE  Registered'
  BY <1>2 DEF WakeClient, RunCallback, Open, AddWaiter, WaitReturns
<1>3. ASSUME NEW c \in Clients, ReadLatest(c) \/ SendCompletes(c) \/ SleepEnds(c)
      PROVE  Registered'
  BY <1>3 DEF ReadLatest, SendCompletes, SleepEnds
<1>4. ASSUME NEW c \in Clients, NEW s \in BOOLEAN, Leave(c, s)
      PROVE  Registered'
  BY <1>4 DEF Leave
<1>5. ASSUME NEW c \in Clients, Close(c)
      PROVE  Registered'
  BY <1>5 DEF Close
<1>6. CASE UNCHANGED vars
  BY <1>6 DEF vars
<1> QED
  BY <1>1, <1>2, <1>3, <1>4, <1>5, <1>6 DEF Next, Task, SendTimesOut, SendFails, Cancelled

LEMMA WakeStep ==
    Shape /\ Noted /\ Registered /\ WakeOwed /\ [Next]_vars => WakeOwed'
<1> SUFFICES ASSUME Shape, Noted, Registered, WakeOwed, [Next]_vars,
                    NEW d \in Clients, Owed(d)'
             PROVE  (wake[d] \/ d \in callbacks \/ d \in waking)'
  BY DEF WakeOwed
<1> USE DEF Shape, Noted, WakeOwed, Owed, Ids, Places, None, Goto,
            publisherVars, registryVars, clientVars
<1>1. CASE Publish
  BY <1>1 DEF Publish, WakeTargets, Registered, AtAwait
<1>2. ASSUME NEW c \in Clients, WakeClient(c) \/ RunCallback(c) \/ Open(c)
      PROVE  (wake[d] \/ d \in callbacks \/ d \in waking)'
  BY <1>2 DEF WakeClient, RunCallback, Open
<1>3. ASSUME NEW c \in Clients, AddWaiter(c)
      PROVE  (wake[d] \/ d \in callbacks \/ d \in waking)'
  BY <1>3 DEF AddWaiter
<1>4. ASSUME NEW c \in Clients, WaitReturns(c)
      PROVE  (wake[d] \/ d \in callbacks \/ d \in waking)'
  BY <1>4 DEF WaitReturns, ClearWake
<1>5. ASSUME NEW c \in Clients, ReadLatest(c)
      PROVE  (wake[d] \/ d \in callbacks \/ d \in waking)'
  BY <1>5, BroadcastAssumption DEF ReadLatest, HasNews
<1>6. ASSUME NEW c \in Clients, SendCompletes(c) \/ SleepEnds(c)
      PROVE  (wake[d] \/ d \in callbacks \/ d \in waking)'
  BY <1>6 DEF SendCompletes, SleepEnds, NoteSent
<1>7. ASSUME NEW c \in Clients, NEW s \in BOOLEAN, Leave(c, s)
      PROVE  (wake[d] \/ d \in callbacks \/ d \in waking)'
  BY <1>7 DEF Leave
<1>8. ASSUME NEW c \in Clients, Close(c)
      PROVE  (wake[d] \/ d \in callbacks \/ d \in waking)'
  BY <1>8 DEF Close
<1>9. CASE UNCHANGED vars
  BY <1>9 DEF vars
<1> QED
  BY <1>1, <1>2, <1>3, <1>4, <1>5, <1>6, <1>7, <1>8, <1>9
  DEF Next, Task, SendTimesOut, SendFails, Cancelled

---------------------------------------------------------------------------
(* The counts. *)

LEMMA CountedStep == Shape /\ Counted /\ [Next]_vars => Counted'
<1> SUFFICES ASSUME Shape, Counted, [Next]_vars PROVE Counted'
  OBVIOUS
<1>0. IsFiniteSet(Live) /\ IsFiniteSet(Dropped)
  BY BroadcastAssumption, FS_Subset DEF Live, Dropped
<1> USE DEF Shape, Places, AtAwait, Goto, publisherVars, registryVars, clientVars
<1>1. ASSUME UNCHANGED <<clients, dropped>>, Live' = Live, Dropped' = Dropped
      PROVE  Counted'
  BY <1>1 DEF Counted
<1>2. CASE Publish
  BY <1>1, <1>2 DEF Publish, Live, Dropped
<1>3. ASSUME NEW c \in Clients, Open(c)
      PROVE  Counted'
  <2>1. Live' = Live \union {c} /\ c \notin Live /\ Dropped' = Dropped
    BY <1>3 DEF Open, Live, Dropped
  <2> QED BY <1>0, <1>3, <2>1, FS_AddElement DEF Open, Counted
<1>4. ASSUME NEW c \in Clients, Close(c)
      PROVE  Counted'
  <2>1. Live' = Live \ {c} /\ c \in Live /\ c \notin Dropped
    BY <1>4 DEF Close, Live, Dropped
  <2>2. Cardinality(Live') = Cardinality(Live) - 1
    BY <1>0, <2>1, FS_RemoveElement
  <2>3. Dropped' = IF slow[c] THEN Dropped \union {c} ELSE Dropped
    BY <1>4 DEF Close, Dropped
  <2>4. Cardinality(Dropped') = IF slow[c] THEN Cardinality(Dropped) + 1 ELSE Cardinality(Dropped)
    BY <1>0, <2>1, <2>3, FS_AddElement
  <2> QED BY <1>4, <2>2, <2>4 DEF Close, CloseClient, Counted
<1>5. ASSUME NEW c \in Clients,
             WakeClient(c) \/ RunCallback(c) \/ AddWaiter(c) \/ WaitReturns(c)
      PROVE  Counted'
  BY <1>1, <1>5 DEF WakeClient, RunCallback, AddWaiter, WaitReturns, Live, Dropped
<1>6. ASSUME NEW c \in Clients, ReadLatest(c) \/ SendCompletes(c) \/ SleepEnds(c)
      PROVE  Counted'
  BY <1>1, <1>6 DEF ReadLatest, SendCompletes, SleepEnds, Live, Dropped
<1>7. ASSUME NEW c \in Clients, NEW s \in BOOLEAN, Leave(c, s), place[c] \in AtAwait
      PROVE  Counted'
  BY <1>1, <1>7 DEF Leave, Live, Dropped
<1>8. CASE UNCHANGED vars
  BY <1>1, <1>8 DEF vars, Live, Dropped
<1> QED
  BY <1>2, <1>3, <1>4, <1>5, <1>6, <1>7, <1>8
  DEF Next, Task, SendTimesOut, SendFails, Cancelled

---------------------------------------------------------------------------
(* The theorems. *)

LEMMA BroadcastInvariant == Spec => []BInv
<1>1. Init => BInv
  <2> SUFFICES ASSUME Init PROVE BInv
    OBVIOUS
  <2>1. Shape /\ Noted /\ OnlyNews /\ WakeOwed
    BY BroadcastAssumption DEF Init, Shape, Ids, Places, None, Noted, OnlyNews, WakeOwed, Owed
  <2>2. Registered
    BY DEF Init, Registered, AtAwait
  <2>3. Live = {} /\ Dropped = {}
    BY DEF Init, Live, Dropped
  <2>4. Counted
    BY <2>3, FS_EmptySet DEF Init, Counted
  <2> QED BY <2>1, <2>2, <2>4 DEF BInv
<1>2. BInv /\ [Next]_vars => BInv'
  BY ShapeStep, NewsStep, RegisteredStep, WakeStep, CountedStep DEF BInv
<1> QED BY <1>1, <1>2, PTL DEF Spec

\* No client waits over a snapshot published since it came without a wake-up on
\* its way, even where the wait has no timeout.
THEOREM NoWakeIsMissed == Spec => []NoMissedWake
<1>1. BInv => NoMissedWake
  BY DEF BInv, WakeOwed, Owed, NoMissedWake
<1> QED BY <1>1, BroadcastInvariant, PTL

\* A client is sent newer and newer snapshots only.
THEOREM NewsOnly == Spec => []OnlyNews
<1>1. BInv => OnlyNews
  BY DEF BInv
<1> QED BY <1>1, BroadcastInvariant, PTL

\* Clients, drops and waiters balance however each task ended.
THEOREM BookkeepingBalances == Spec => []Balanced
<1>1. BInv => Balanced
  <2> SUFFICES ASSUME BInv PROVE Balanced
    OBVIOUS
  <2>1. Live = {c \in Clients : place[c] # "new"} \ Ended
    BY DEF Live, Ended
  <2>2. Dropped = {c \in Ended : slow[c]}
    BY DEF Dropped, Ended
  <2> QED BY <2>1, <2>2 DEF BInv, Counted, Registered, Balanced
<1> QED BY <1>1, BroadcastInvariant, PTL

\* Every variable has its type; neither count exceeds the number of clients.
THEOREM BroadcastTypes == Spec => []TypeOK
<1>1. BInv => TypeOK
  <2> SUFFICES ASSUME BInv PROVE TypeOK
    OBVIOUS
  <2>1. Live \in SUBSET Clients /\ Dropped \in SUBSET Clients
    BY DEF Live, Dropped
  <2>2. clients \in 0 .. Cardinality(Clients) /\ dropped \in 0 .. Cardinality(Clients)
    BY <2>1, BroadcastAssumption, FS_Subset, FS_CardinalityType DEF BInv, Counted
  <2> QED BY <2>2 DEF BInv, Shape, TypeOK
<1> QED BY <1>1, BroadcastInvariant, PTL
=============================================================================
