--------------------------- MODULE BatchReviewer ---------------------------
(***************************************************************************)
(* The panel of a bulk upload in the Studio (studio/batch.js): uploading,  *)
(* polling for proposals, going through the images in the reviewer, saving *)
(* or discarding. The server's side is BatchStaging's; here it only        *)
(* answers. Every handler saves the open image first and awaits the        *)
(* answer, and the poll replaces the items under the reviewer.             *)
(*                                                                         *)
(* A box is known by the image it was drawn over, or proposed for.         *)
(***************************************************************************)
EXTENDS Naturals, Sequences, FiniteSets

CONSTANTS
    BatchSize,      \* images of a batch
    MaxBatches,     \* bound: batches uploaded
    MaxAsks,        \* bound: handlers the user starts
    MaxRefusals     \* bound: requests that fail

ASSUME ReviewerAssumption ==
    BatchSize \in Nat \ {0} /\ MaxBatches \in Nat /\ MaxAsks \in Nat /\ MaxRefusals \in Nat

Ids == (1 .. MaxBatches) \X (1 .. BatchSize)
NoBox == <<0, 0>>
NoItem == [id |-> NoBox, box |-> NoBox, confirmed |-> FALSE]
NoImage == [item |-> NoItem, batch |-> 0]

VARIABLES
    rushed,      \* does this user act while requests or images are under way, or on an
                 \* image that is not on the screen: fixed
    tidy,        \* does this user close the panel before uploading again, and save or upload
                 \* only when no poll is under way: fixed
    batchId,     \* b.batchId, 0 for null
    items,       \* b.items
    position,    \* b.reviewIndex, from 1; 0 for -1
    reviewing,   \* is the reviewer visible
    dirty,       \* b.dirty
    imageOf,     \* what img.onload is waiting for: [item, batch], or NoImage
    onScreen,    \* id of the image shown
    box,         \* the editor's box
    asked,       \* handlers started
    calls,       \* requests under way
    refused,     \* requests that failed
    stagedItems, \* the server: staged item -> [box, confirmed]
    uploaded,    \* batches uploaded
    reviewed,    \* history: ids of images that were shown in the reviewer
    confirmed    \* history: <<id, box>> the server stored as confirmed

serverVars == <<stagedItems, uploaded>>
reviewerVars == <<rushed, tidy, batchId, items, position, reviewing, dirty, imageOf, onScreen, box,
                  asked, calls, refused, stagedItems, uploaded, reviewed, confirmed>>

ReviewerInit ==
    /\ rushed \in BOOLEAN /\ tidy \in BOOLEAN
    /\ batchId = 0 /\ items = << >> /\ position = 0 /\ reviewing = FALSE /\ dirty = FALSE
    /\ imageOf = NoImage /\ onScreen = NoBox /\ box = NoBox
    /\ asked = 0 /\ calls = {} /\ refused = 0
    /\ stagedItems = << >> /\ uploaded = 0
    /\ reviewed = {} /\ confirmed = {}

Staged == DOMAIN stagedItems
InBatch(b) == {i \in Staged : i[1] = b}
\* The items in the order of their images.
Nth(S, k) == CHOOSE i \in S : Cardinality({j \in S : j[2] < i[2]}) = k - 1
ItemsOf(b) ==
    LET nth(k) == Nth(InBatch(b), k)
    IN [k \in 1 .. Cardinality(InBatch(b)) |->
          [id |-> nth(k), box |-> stagedItems[nth(k)].box, confirmed |-> stagedItems[nth(k)].confirmed]]

CurrentItem == IF position \in 1 .. Len(items) THEN items[position] ELSE NoItem
Quiet == imageOf = NoImage /\ \A c \in calls : c.kind = "poll"
MayAct == asked < MaxAsks /\ (rushed \/ Quiet)
SeesIt == reviewing /\ CurrentItem /= NoItem /\ (rushed \/ onScreen = CurrentItem.id)
Starts == MayAct /\ asked' = asked + 1
Call(k) == [kind |-> k, batch |-> batchId, item |-> NoItem, box |-> NoBox, then |-> "nothing", to |-> 0,
            current |-> TRUE, answer |-> << >>]
ClampTo(n, k) == IF n < 1 \/ k = 0 THEN 1 ELSE IF n > k THEN k ELSE n

\* Mutant: the reviewer keeps its place.
PlaceKept == batchId' = 0 /\ items' = << >> /\ UNCHANGED position /\ reviewing' = FALSE

\* hidePanel: the editor and b.dirty are left as they are.
HidePanel == batchId' = 0 /\ items' = << >> /\ position' = 0 /\ reviewing' = FALSE

\* loadReviewItem.
LoadItem(p) ==
    IF p \in 1 .. Len(items) THEN dirty' = FALSE /\ imageOf' = [item |-> items[p], batch |-> batchId] ELSE UNCHANGED <<dirty, imageOf>>

\* What is done once the open image is saved, or needed no saving.
Continue(then, to, rest) ==
    CASE then \in {"open", "step"} ->
           LET p == ClampTo(IF then = "open" THEN to ELSE position + to - 1, Len(items)) IN
           /\ position' = p /\ LoadItem(p)
           /\ reviewing' = (reviewing \/ then = "open")
           /\ calls' = rest
      [] then = "save" ->
           calls' = rest \cup {Call("save")} /\ UNCHANGED <<position, reviewing, dirty, imageOf>>
      [] OTHER -> calls' = rest /\ UNCHANGED <<position, reviewing, dirty, imageOf>>

NeedsSaving(confirm) == dirty \/ confirm

\* persistCurrent, and what follows. A step is written +1 as 2, -1 as 0.
Persist(confirm, then, to) ==
    IF CurrentItem /= NoItem /\ NeedsSaving(confirm)
      THEN /\ calls' = calls \cup {[Call("patch") EXCEPT !.item = CurrentItem, !.box = box, !.then = then, !.to = to]}
           /\ dirty' = (dirty \/ confirm)
           /\ UNCHANGED <<position, reviewing, imageOf>>
      ELSE Continue(then, to, calls)

-----------------------------------------------------------------------------
\* The user.
Upload ==
    /\ Starts /\ uploaded < MaxBatches /\ (tidy => batchId = 0 /\ calls = {})
    /\ calls' = calls \cup {Call("upload")}
    /\ UNCHANGED <<rushed, tidy, batchId, items, position, reviewing, dirty, imageOf, onScreen, box, refused,
                   serverVars, reviewed, confirmed>>

\* Review all, a click into the grid, Jump to items needing a box.
OpenReviewer(n) ==
    /\ Starts /\ batchId /= 0 /\ items /= << >>
    /\ Persist(FALSE, "open", n)
    /\ UNCHANGED <<rushed, tidy, batchId, items, onScreen, box, refused, serverVars, reviewed, confirmed>>

\* Previous and next.
Step(delta) ==
    /\ Starts /\ reviewing
    /\ Persist(FALSE, "step", delta)
    /\ UNCHANGED <<rushed, tidy, batchId, items, onScreen, box, refused, serverVars, reviewed, confirmed>>

Accept ==
    /\ Starts /\ SeesIt
    /\ Persist(TRUE, "accept", 2)
    /\ UNCHANGED <<rushed, tidy, batchId, items, onScreen, box, refused, serverVars, reviewed, confirmed>>

\* The box is moved, resized or drawn anew, over the image that is on the screen.
DrawBox ==
    /\ MayAct /\ SeesIt /\ UNCHANGED asked
    /\ box' = onScreen /\ dirty' = TRUE
    /\ UNCHANGED <<rushed, tidy, batchId, items, position, reviewing, imageOf, onScreen, calls, refused,
                   serverVars, reviewed, confirmed>>

DeleteBox ==
    /\ Starts /\ SeesIt
    /\ calls' = calls \cup {[Call("unbox") EXCEPT !.item = CurrentItem]}
    /\ UNCHANGED <<rushed, tidy, batchId, items, position, reviewing, dirty, imageOf, onScreen, box, refused,
                   serverVars, reviewed, confirmed>>

SaveAll ==
    /\ Starts /\ batchId /= 0 /\ (tidy => calls = {})
    /\ Persist(FALSE, "save", 0)
    /\ UNCHANGED <<rushed, tidy, batchId, items, onScreen, box, refused, serverVars, reviewed, confirmed>>

DiscardBatch ==
    /\ Starts /\ batchId /= 0
    /\ calls' = calls \cup {Call("discard")}
    /\ UNCHANGED <<rushed, tidy, batchId, items, position, reviewing, dirty, imageOf, onScreen, box, refused,
                   serverVars, reviewed, confirmed>>

\* Close, and selecting another object.
ClosePanel ==
    /\ Starts /\ HidePanel
    /\ UNCHANGED <<rushed, tidy, dirty, imageOf, onScreen, box, calls, refused, serverVars, reviewed, confirmed>>

\* img.onload; an image that is gone never loads.
ImageShown ==
    /\ imageOf /= NoImage
    /\ imageOf' = NoImage
    /\ IF imageOf.item.id \in InBatch(imageOf.batch)
         THEN /\ onScreen' = imageOf.item.id
              /\ box' = IF imageOf.item.box = NoBox THEN imageOf.item.id ELSE imageOf.item.box
              /\ reviewed' = IF reviewing THEN reviewed \cup {imageOf.item.id} ELSE reviewed
         ELSE UNCHANGED <<onScreen, box, reviewed>>
    /\ UNCHANGED <<rushed, tidy, batchId, items, position, reviewing, dirty, asked, calls, refused, serverVars, confirmed>>

-----------------------------------------------------------------------------
\* The server's answers.
Proposes(i) ==
    /\ i \in Staged /\ stagedItems[i].box = NoBox
    /\ stagedItems' = [stagedItems EXCEPT ![i].box = i]
    /\ UNCHANGED <<rushed, tidy, batchId, items, position, reviewing, dirty, imageOf, onScreen, box, asked, calls,
                   refused, uploaded, reviewed, confirmed>>

Uploaded(c) ==
    /\ c.kind = "upload" /\ uploaded < MaxBatches
    /\ uploaded' = uploaded + 1
    /\ stagedItems' = [i \in Staged \cup {<<uploaded', k>> : k \in 1 .. BatchSize} |->
                         IF i \in Staged THEN stagedItems[i] ELSE [box |-> NoBox, confirmed |-> FALSE]]
    /\ batchId' = uploaded' /\ items' = << >>
    /\ calls' = (calls \ {c}) \cup {[Call("poll") EXCEPT !.batch = uploaded']}
    /\ UNCHANGED <<rushed, tidy, position, reviewing, dirty, imageOf, onScreen, box, asked, refused, reviewed, confirmed>>

\* The answer is made now and arrives later.
PollRead(c) ==
    /\ c.kind \in {"poll", "refresh"}
    /\ calls' = (calls \ {c}) \cup {[c EXCEPT !.kind = IF @ = "poll" THEN "polled" ELSE "refreshed",
                                              !.answer = ItemsOf(c.batch)]}
    /\ UNCHANGED <<rushed, tidy, batchId, items, position, reviewing, dirty, imageOf, onScreen, box, asked, refused,
                   serverVars, reviewed, confirmed>>

\* The poll replaces the items; an unready batch is asked for again (the timer).
Polled(c) ==
    /\ c.kind \in {"polled", "refreshed"}
    /\ IF c.answer = << >> THEN HidePanel
       ELSE /\ items' = c.answer
            /\ IF c.kind = "polled" THEN UNCHANGED <<position, reviewing>>
               ELSE position' = (IF position > Len(c.answer) THEN Len(c.answer) ELSE position) /\ reviewing' = FALSE
            /\ UNCHANGED batchId
    /\ calls' = {[d EXCEPT !.current = @ /\ d.kind \notin {"patch", "unbox"}] : d \in calls \ {c}}
                \cup (IF c.kind = "polled" /\ c.answer /= << >> /\ batchId /= 0
                         /\ \E k \in DOMAIN c.answer : c.answer[k].box = NoBox
                      THEN {Call("poll")} ELSE {})
    /\ UNCHANGED <<rushed, tidy, dirty, imageOf, onScreen, box, asked, refused, serverVars, reviewed, confirmed>>

There(c) == c.item.id \in InBatch(c.batch)

\* The answer to a PATCH of the open image. A refused acceptance moves on to the next
\* image, which saves again.
Patched(c, ok) ==
    /\ c.kind = "patch"
    /\ ok => There(c)
    /\ ok \/ ~There(c) \/ refused < MaxRefusals
    /\ refused' = IF ~ok /\ There(c) THEN refused + 1 ELSE refused
    /\ IF ok
         THEN LET saved == [id |-> c.item.id, box |-> c.box, confirmed |-> TRUE] IN
              /\ stagedItems' = [stagedItems EXCEPT ![c.item.id] = [box |-> c.box, confirmed |-> TRUE]]
              /\ confirmed' = confirmed \cup {<<c.item.id, c.box>>}
              /\ items' = [k \in DOMAIN items |->
                             IF c.current /\ items[k].id = c.item.id THEN saved ELSE items[k]]
              /\ IF c.then \in {"open", "step"} \/ (c.then = "accept" /\ position < Len(items))
                   THEN LET p == ClampTo(IF c.then = "open" THEN c.to ELSE position + c.to - 1, Len(items)) IN
                        /\ position' = p /\ dirty' = FALSE
                        /\ imageOf' = IF p \in DOMAIN items THEN [item |-> items'[p], batch |-> batchId] ELSE imageOf
                        /\ reviewing' = (reviewing \/ c.then = "open")
                        /\ calls' = calls \ {c}
                   ELSE /\ dirty' = FALSE
                        /\ calls' = (calls \ {c}) \cup (IF c.then = "save" THEN {Call("save")} ELSE {})
                        /\ UNCHANGED <<position, reviewing, imageOf>>
         ELSE /\ IF c.then = "accept" /\ position < Len(items)
                   THEN calls' = (calls \ {c}) \cup {[c EXCEPT !.then = "step"]}
                        /\ UNCHANGED <<position, reviewing, dirty, imageOf>>
                   ELSE Continue(c.then, c.to, calls \ {c})
              /\ UNCHANGED <<stagedItems, confirmed, items>>
    /\ UNCHANGED <<rushed, tidy, batchId, onScreen, box, asked, uploaded, reviewed>>

\* The answer to the deletion of a box: the editor is centred, whatever it shows by now.
Unboxed(c) ==
    /\ c.kind = "unbox"
    /\ calls' = calls \ {c}
    /\ IF There(c)
         THEN /\ stagedItems' = [stagedItems EXCEPT ![c.item.id] = [box |-> NoBox, confirmed |-> FALSE]]
              /\ items' = [k \in DOMAIN items |->
                             IF c.current /\ items[k].id = c.item.id
                             THEN [items[k] EXCEPT !.box = NoBox, !.confirmed = FALSE] ELSE items[k]]
              /\ dirty' = FALSE /\ box' = onScreen
         ELSE UNCHANGED <<stagedItems, items, dirty, box>>
    /\ UNCHANGED <<rushed, tidy, batchId, position, reviewing, imageOf, onScreen, asked, refused, uploaded, reviewed, confirmed>>

\* Save all: the items with a box are committed, the others stay.
Saved(c) ==
    /\ c.kind = "save"
    /\ LET stay == {i \in Staged : i[1] = c.batch => stagedItems[i].box = NoBox}
           cleared == ~\E i \in stay : i[1] = c.batch
       IN /\ stagedItems' = [i \in stay |-> stagedItems[i]]
          /\ IF cleared THEN HidePanel /\ calls' = calls \ {c}
             ELSE /\ calls' = (calls \ {c}) \cup (IF batchId = 0 THEN {} ELSE {Call("refresh")})
                  /\ UNCHANGED <<batchId, items, position, reviewing>>
    /\ UNCHANGED <<rushed, tidy, dirty, imageOf, onScreen, box, asked, refused, uploaded, reviewed, confirmed>>

Discarded(c) ==
    /\ c.kind = "discard"
    /\ calls' = calls \ {c}
    /\ stagedItems' = [i \in Staged \ InBatch(c.batch) |-> stagedItems[i]]
    /\ HidePanel
    /\ UNCHANGED <<rushed, tidy, dirty, imageOf, onScreen, box, asked, refused, uploaded, reviewed, confirmed>>

ReviewerNext ==
    \/ Upload \/ Accept \/ DrawBox \/ DeleteBox \/ SaveAll \/ DiscardBatch \/ ClosePanel \/ ImageShown
    \/ \E n \in 1 .. BatchSize : OpenReviewer(n)
    \/ \E delta \in {0, 2} : Step(delta)
    \/ \E i \in Ids : Proposes(i)
    \/ \E c \in calls :
         \/ Uploaded(c) \/ PollRead(c) \/ Polled(c) \/ Unboxed(c) \/ Saved(c) \/ Discarded(c)
         \/ \E ok \in BOOLEAN : Patched(c, ok)

ReviewerSpec == ReviewerInit /\ [][ReviewerNext]_reviewerVars

-----------------------------------------------------------------------------
\* Properties.

\* For a user who waits for the page and its polls, and closes the panel before the next
\* upload, a box the server holds as confirmed was on the screen over its own image.
ConfirmedOnItsImage ==
    ~rushed /\ tidy /\ refused = 0 => \A c \in confirmed : c[1] = c[2] /\ c[1] \in reviewed

\* "`box_confirmed_by_human` records whether a human moved, resized, drew or explicitly
\* accepted the box" (batch.js:11-13): so its image was in the reviewer.
ConfirmedWasSeen == ~rushed /\ refused = 0 => \A c \in confirmed : c[1] \in reviewed
=============================================================================
