--------------------------- MODULE LabelPageProofs ---------------------------
(***************************************************************************)
(* Proofs about LabelPage and the CocoStore it works on, for any number of *)
(* frames, of async functions under way, and of crashes.                   *)
(***************************************************************************)
EXTENDS LabelPage, FiniteSetTheorems, WellFoundedInduction, TLAPS

PageBox == [on : Nat, seed : BOOLEAN, width : {"some", "thin", "zero"}]
Store == [images : SUBSET Frames, boxes : [Frames -> SUBSET PageBox], labelled : SUBSET Frames,
          seeded : SUBSET Frames]
StoreFile == [state : {"missing", "torn", "whole"}, doc : Store]
WriterState == [step : {"rest", "sample", "copy", "truncate", "write"}, doc : Store]
TaskState == [step : {"free", "post", "saving", "saved", "get", "got", "error"}, image : Nat, dir : {-1, 0, 1},
              withSeed : BOOLEAN, boxes : SUBSET PageBox, seeded : BOOLEAN]

CocoShape ==
    /\ file \in StoreFile /\ bak \in StoreFile
    /\ writer \in [Writers -> WriterState]
    /\ crashes \in Nat /\ overlap \in BOOLEAN

PageShape ==
    /\ open \in BOOLEAN /\ hurried \in BOOLEAN /\ failed \in BOOLEAN
    /\ frames \in [DOMAIN frames -> Nat] /\ DOMAIN frames \subseteq Nat
    /\ pos \in Int /\ (open => pos \in DOMAIN frames)
    /\ shown \in Nat /\ boxes \subseteq PageBox /\ seeded \in BOOLEAN
    /\ task \in [Tasks -> TaskState]
    /\ DOMAIN acked \subseteq Frames

\* The save that the server works on is of one task, which waits for it.
SaveIsOfTask ==
    Saving("server") =>
        /\ writer["server"].step # "sample" /\ request.image \in Frames
        /\ request.task \in Tasks /\ task[request.task].step = "saving"

ClosedPageRests == ~open => Quiet /\ shown = 0

LabelShape == CocoShape /\ PageShape /\ SaveIsOfTask /\ ClosedPageRests

---------------------------------------------------------------------------
(* The store. *)

LEMMA NoStoreIsStore ==
    /\ NoStore \in Store /\ Missing \in StoreFile /\ Torn \in StoreFile /\ Resting \in WriterState
    /\ \A d \in Store : Holding(d) \in StoreFile
<1>1. [i \in Frames |-> {}] \in [Frames -> SUBSET PageBox]
  OBVIOUS
<1>2. NoStore \in Store
  BY <1>1 DEF NoStore, Store
<1> QED BY <1>2 DEF Missing, Torn, Resting, Holding, StoreFile, WriterState

LEMMA WithBoxesIsStore ==
    ASSUME NEW d \in Store, NEW i \in Frames, NEW bs \in SUBSET PageBox, NEW sd \in BOOLEAN
    PROVE  WithBoxes(d, i, bs, sd) \in Store
<1> DEFINE rounded == {Rounded(b) : b \in bs}
           bx == [d.boxes EXCEPT ![i] = rounded]
           lab == d.labelled \cup {i}
           sdd == IF sd THEN d.seeded \cup {i} ELSE d.seeded \ {i}
<1>1. \A b \in bs : Rounded(b) \in PageBox
  BY DEF Rounded, PageBox
<1>2. rounded \in SUBSET PageBox
  BY <1>1
<1>3. d.boxes \in [Frames -> SUBSET PageBox] /\ d.seeded \in SUBSET Frames /\ d.labelled \in SUBSET Frames
  BY DEF Store
<1>4. WithBoxes(d, i, bs, sd) = [d EXCEPT !.boxes = bx, !.labelled = lab, !.seeded = sdd]
  BY DEF WithBoxes, Store
<1> HIDE DEF rounded
<1>5. bx \in [Frames -> SUBSET PageBox]
  BY <1>2, <1>3
<1>6. lab \in SUBSET Frames /\ sdd \in SUBSET Frames
  BY <1>3
<1> HIDE DEF bx, lab, sdd
<1> QED BY <1>4, <1>5, <1>6 DEF Store

\* A document with the boxes and the marks of another.
SameBoxes(d, e) == d \in Store /\ d.boxes = e.boxes /\ d.seeded = e.seeded

\* Where the documents of a step come from: a save of a task that posts, or what was there.
FromTask(d) ==
    \E t \in Tasks : /\ task[t].step = "post" /\ task[t].image \in file.doc.images
                     /\ d = WithBoxes(file.doc, task[t].image, task[t].boxes, task[t].seeded)

DocsMove ==
    /\ file' \in {file, bak, Torn} \cup {Holding(writer[w].doc) : w \in {v \in Writers : Saving(v)}}
    /\ bak' \in {bak, file, Torn}
    /\ \A w \in Writers : \/ writer'[w].doc \in {writer[w].doc, NoStore, file.doc}
                          \/ SameBoxes(writer'[w].doc, writer[w].doc)
                          \/ FromTask(writer'[w].doc)

LEMMA NextFrameExists ==
    ASSUME NEW S \in SUBSET Nat, S # {}
    PROVE  \E i \in S : \A j \in S : i <= j
<1> DEFINE R == OpToRel(<, Nat)
<1>1. PICK m \in S : \A y \in S : ~ (<<y, m>> \in R)
  BY WFMin, NatLessThanWellFounded
<1>2. \A x, y \in Nat : x < y => <<x, y>> \in R
  BY DEF OpToRel
<1> HIDE DEF R
<1>3. ASSUME NEW y \in S
      PROVE  m <= y
  <2>1. y \in Nat /\ m \in Nat /\ <<y, m>> \notin R
    BY <1>1
  <2>2. ~(y < m)
    BY <1>2, <2>1
  <2> QED BY <2>1, <2>2
<1> QED BY <1>3

---------------------------------------------------------------------------
(* The shape of what is on disk. *)

LEMMA ScriptStepShape ==
    ASSUME CocoShape, ScriptStep
    PROVE  CocoShape' /\ DocsMove /\ UNCHANGED <<request, writer["server"]>>
<1>0. "script" \in Writers /\ "server" \in Writers /\ "server" # "script"
      /\ \A w \in Writers : writer[w] \in WriterState /\ writer[w].doc \in Store
  BY DEF Writers, CocoShape, WriterState
<1>1. CASE ScriptLoads
  <2>1. file.doc \in Store /\ [step |-> "sample", doc |-> file.doc] \in WriterState
    BY DEF CocoShape, StoreFile, WriterState
  <2>2. writer' = [writer EXCEPT !["script"] = [step |-> "sample", doc |-> file.doc]]
        /\ UNCHANGED <<file, bak, request, crashes>> /\ overlap' \in BOOLEAN
    BY <1>1 DEF ScriptLoads, Holds, CocoShape
  <2> QED BY <1>0, <2>1, <2>2 DEF CocoShape, DocsMove
<1>2. CASE ScriptSamples
  <2> DEFINE d == writer["script"].doc
             next == CHOOSE i \in Frames \ d.images : \A j \in Frames \ d.images : i <= j
             e == [d EXCEPT !.images = @ \cup {next}]
  <2>1. writer' = [writer EXCEPT !["script"] = [@ EXCEPT !.doc = e]]
        /\ UNCHANGED <<file, bak, request, crashes, overlap>>
    BY <1>2 DEF ScriptSamples
  <2>2. d \in Store /\ Frames \ d.images # {} /\ Frames \ d.images \subseteq Nat
    <3>1. d \in Store /\ d.images # Frames
      BY <1>0, <1>2 DEF ScriptSamples
    <3>2. d.images \subseteq Frames
      BY <3>1 DEF Store
    <3>3. Frames \subseteq Nat
      BY CocoAssumption DEF Frames
    <3> HIDE DEF d
    <3> QED BY <3>1, <3>2, <3>3
  <2>3. next \in Frames
    BY <2>2, NextFrameExists
  <2> HIDE DEF d, next
  <2>4. e \in Store /\ e.boxes = d.boxes /\ e.seeded = d.seeded
    BY <2>2, <2>3 DEF Store
  <2> HIDE DEF e
  <2>5. [writer["script"] EXCEPT !.doc = e] \in WriterState
        /\ [writer["script"] EXCEPT !.doc = e].doc = e
    BY <1>0, <2>4 DEF WriterState
  <2> QED BY <1>0, <2>1, <2>4, <2>5 DEF CocoShape, DocsMove, SameBoxes, d
<1>3. CASE ScriptSaves \/ CopyToBackup("script") \/ Truncate("script")
  <2>1. PICK st \in {"copy", "truncate", "write"} : writer' = [writer EXCEPT !["script"].step = st]
    BY <1>3 DEF ScriptSaves, CopyToBackup, Truncate
  <2>2. file' \in {file, Torn} /\ bak' \in {bak, file} /\ UNCHANGED <<request, crashes, overlap>>
    BY <1>3 DEF ScriptSaves, CopyToBackup, Truncate, BackupOfFile
  <2>3. [writer["script"] EXCEPT !.step = st] \in WriterState
        /\ [writer["script"] EXCEPT !.step = st].doc = writer["script"].doc
    BY <1>0 DEF WriterState
  <2> QED BY <1>0, <2>1, <2>2, <2>3, NoStoreIsStore DEF CocoShape, DocsMove
<1>4. CASE WriteOut("script") /\ UNCHANGED request
  <2>1. writer' = [writer EXCEPT !["script"] = Resting] /\ file' = Holding(writer["script"].doc)
        /\ UNCHANGED <<bak, request, crashes, overlap>> /\ Saving("script")
    BY <1>4 DEF WriteOut, Saving
  <2> QED BY <1>0, <2>1, NoStoreIsStore DEF CocoShape, DocsMove, Resting
<1>5. CASE WriterDies("script") /\ UNCHANGED request
  <2>1. writer' = [writer EXCEPT !["script"] = Resting] /\ bak' \in {bak, Torn} /\ crashes' = crashes + 1
        /\ UNCHANGED <<file, request, overlap>>
    BY <1>5 DEF WriterDies
  <2> QED BY <1>0, <2>1, NoStoreIsStore DEF CocoShape, DocsMove, Resting
<1> QED BY <1>1, <1>2, <1>3, <1>4, <1>5 DEF ScriptStep

LEMMA ServerStepShape ==
    ASSUME CocoShape, CopyToBackup("server") \/ Truncate("server") \/ RestoreBackup
    PROVE  /\ CocoShape' /\ DocsMove /\ request' = request
           /\ Saving("server")' <=> Saving("server")
           /\ Saving("server")' => writer'["server"].step # "sample"
<1>0. "script" \in Writers /\ "server" \in Writers /\ "server" # "script"
      /\ \A w \in Writers : writer[w] \in WriterState /\ writer[w].doc \in Store
  BY DEF Writers, CocoShape, WriterState
<1>1. CASE CopyToBackup("server") \/ Truncate("server")
  <2>1. PICK st \in {"truncate", "write"} : writer' = [writer EXCEPT !["server"].step = st]
    BY <1>1 DEF CopyToBackup, Truncate
  <2>2. file' \in {file, Torn} /\ bak' \in {bak, file} /\ UNCHANGED <<request, crashes, overlap>> /\ Saving("server")
    BY <1>1 DEF CopyToBackup, Truncate, BackupOfFile, Saving
  <2>3. [writer["server"] EXCEPT !.step = st] \in WriterState
        /\ [writer["server"] EXCEPT !.step = st].doc = writer["server"].doc
        /\ [writer["server"] EXCEPT !.step = st].step = st
    BY <1>0 DEF WriterState
  <2>4. writer'["server"].step = st
    BY <1>0, <2>1, <2>3 DEF CocoShape
  <2> QED BY <1>0, <2>1, <2>2, <2>3, <2>4, NoStoreIsStore DEF CocoShape, DocsMove, Saving
<1>2. CASE RestoreBackup
  <2>1. file' = bak /\ UNCHANGED <<bak, writer, request, crashes, overlap>> /\ ~Saving("server")
    BY <1>0, <1>2 DEF RestoreBackup
  <2> QED BY <1>0, <2>1 DEF CocoShape, DocsMove, Saving
<1> QED BY <1>1, <1>2

LEMMA FinishSaveShape ==
    ASSUME CocoShape, FinishSave \/ ServerDies
    PROVE  CocoShape' /\ DocsMove /\ ~Saving("server")' /\ Saving("server")
<1>0. "script" \in Writers /\ "server" \in Writers /\ "server" # "script"
      /\ \A w \in Writers : writer[w] \in WriterState /\ writer[w].doc \in Store
  BY DEF Writers, CocoShape, WriterState
<1>1. CASE FinishSave
  <2>1. writer' = [writer EXCEPT !["server"] = Resting] /\ file' = Holding(writer["server"].doc)
        /\ UNCHANGED <<bak, crashes, overlap>> /\ Saving("server")
    BY <1>1 DEF FinishSave, WriteOut, Saving
  <2> QED BY <1>0, <2>1, NoStoreIsStore DEF CocoShape, DocsMove, Resting, Saving
<1>2. CASE ServerDies
  <2>1. writer' = [writer EXCEPT !["server"] = Resting] /\ bak' \in {bak, Torn} /\ crashes' = crashes + 1
        /\ UNCHANGED <<file, overlap>> /\ Saving("server")
    BY <1>2 DEF ServerDies, WriterDies
  <2> QED BY <1>0, <2>1, NoStoreIsStore DEF CocoShape, DocsMove, Resting, Saving
<1> QED BY <1>1, <1>2

LEMMA StartSaveShape ==
    ASSUME LabelShape, NEW t \in Tasks, StartSave(t)
    PROVE  /\ CocoShape' /\ DocsMove
           /\ request'.task = t /\ request'.image \in Frames /\ writer'["server"].step = "copy"
<1>0. "script" \in Writers /\ "server" \in Writers /\ "server" # "script"
      /\ \A w \in Writers : writer[w] \in WriterState /\ writer[w].doc \in Store
      /\ task[t] \in TaskState /\ file.doc \in Store /\ CocoShape
  BY DEF Writers, LabelShape, CocoShape, PageShape, WriterState, StoreFile
<1> DEFINE d == WithBoxes(file.doc, task[t].image, task[t].boxes, task[t].seeded)
<1>1. /\ writer' = [writer EXCEPT !["server"] = [step |-> "copy", doc |-> d]]
      /\ UNCHANGED <<file, bak, crashes>> /\ overlap' \in BOOLEAN /\ task[t].step = "post"
      /\ request' = [task |-> t, image |-> task[t].image, boxes |-> task[t].boxes, seeded |-> task[t].seeded]
      /\ task[t].image \in file.doc.images
  BY DEF StartSave, BeginSave, Holds, SaveRefused
<1>2. task[t].image \in Frames
  BY <1>0, <1>1 DEF Store
<1>3. d \in Store
  <2>1. task[t].boxes \in SUBSET PageBox /\ task[t].seeded \in BOOLEAN
    BY <1>0 DEF TaskState
  <2> QED BY <1>0, <1>2, <2>1, WithBoxesIsStore
<1>4. FromTask(d)
  BY <1>1 DEF FromTask
<1> HIDE DEF d
<1>5. [step |-> "copy", doc |-> d] \in WriterState
  BY <1>3 DEF WriterState
<1>6. writer' \in [Writers -> WriterState] /\ writer'["server"] = [step |-> "copy", doc |-> d]
      /\ \A w \in Writers : w # "server" => writer'[w] = writer[w]
  BY <1>0, <1>1, <1>5 DEF CocoShape
<1>7. DocsMove
  BY <1>1, <1>4, <1>6 DEF DocsMove
<1> QED BY <1>0, <1>1, <1>2, <1>6, <1>7 DEF CocoShape

---------------------------------------------------------------------------
(* The shape of the page. *)

LEMMA NoTaskIsTask == NoTask \in TaskState /\ NoTask.step = "free"
  BY DEF NoTask, TaskState

LEMMA TaskAnswered ==
    ASSUME NEW x \in TaskState, NEW st \in {"free", "post", "saving", "saved", "get", "got", "error"}
    PROVE  [x EXCEPT !.step = st] \in TaskState /\ [x EXCEPT !.step = st].step = st
  BY DEF TaskState

LEMMA LoadTaskIsTask ==
    ASSUME NEW fs, NEW p, fs[p] \in Nat, NEW ws \in BOOLEAN
    PROVE  /\ LoadTask(fs, p, ws) \in TaskState
           /\ LoadTask(fs, p, ws).step = "get" /\ LoadTask(fs, p, ws).image = fs[p]
  BY DEF LoadTask, NoTask, TaskState

\* One task takes another state; it was not the one the server works for.
OneTaskMoves(t, x) ==
    /\ x \in TaskState /\ task' = [task EXCEPT ![t] = x]
    /\ task[t].step # "saving"

LEMMA OneTaskShape ==
    ASSUME LabelShape, NEW t \in Tasks, NEW x, OneTaskMoves(t, x), UNCHANGED cocoVars, open' = TRUE
    PROVE  /\ task' \in [Tasks -> TaskState] /\ CocoShape' /\ SaveIsOfTask' /\ ClosedPageRests'
           /\ task'[t] = x /\ \A u \in Tasks \ {t} : task'[u] = task[u]
<1>1. task \in [Tasks -> TaskState]
  BY DEF LabelShape, PageShape
<1>2. task' \in [Tasks -> TaskState] /\ task'[t] = x /\ \A u \in Tasks \ {t} : task'[u] = task[u]
  BY <1>1 DEF OneTaskMoves
<1>3. SaveIsOfTask'
  <2>1. Saving("server")' <=> Saving("server")
    BY DEF Saving, cocoVars
  <2> QED BY <1>2, <2>1 DEF LabelShape, SaveIsOfTask, cocoVars, OneTaskMoves
<1> QED BY <1>2, <1>3 DEF LabelShape, CocoShape, ClosedPageRests, cocoVars

LEMMA DeveloperShape ==
    ASSUME LabelShape, Draw \/ Narrow \/ DeleteAll
    PROVE  /\ LabelShape' /\ UNCHANGED <<cocoVars, task, frames, pos, shown, seeded, acked, failed, open, disowned>>
           /\ hurried' = (hurried \/ ~Quiet)
<1>1. /\ UNCHANGED <<cocoVars, task, frames, pos, shown, seeded, acked, failed, open, disowned>>
      /\ hurried' = (hurried \/ ~Quiet)
  BY DEF Draw, Narrow, DeleteAll, Uses
<1>2. boxes' \subseteq PageBox
  <2>1. shown \in Nat /\ boxes \subseteq PageBox
    BY DEF LabelShape, PageShape
  <2>2. CASE Draw
    <3>1. [on |-> shown, seed |-> FALSE, width |-> "some"] \in PageBox
      BY <2>1 DEF PageBox
    <3> QED BY <2>1, <2>2, <3>1 DEF Draw
  <2>3. CASE Narrow
    BY <2>1, <2>3 DEF Narrow, PageBox
  <2>4. CASE DeleteAll
    BY <2>4 DEF DeleteAll
  <2> QED BY <2>2, <2>3, <2>4
<1>3. CocoShape' /\ SaveIsOfTask' /\ ClosedPageRests'
  BY <1>1 DEF LabelShape, CocoShape, SaveIsOfTask, ClosedPageRests, cocoVars, Saving, Quiet
<1>4. PageShape'
  BY <1>1, <1>2 DEF LabelShape, PageShape
<1> QED BY <1>1, <1>3, <1>4 DEF LabelShape

LEMMA MarkShape ==
    ASSUME LabelShape, MarkSeeded
    PROVE  /\ LabelShape' /\ UNCHANGED <<cocoVars, task, frames, pos, shown, boxes, acked, failed, open>>
           /\ hurried' = (hurried \/ ~Quiet)
<1>1. /\ UNCHANGED <<cocoVars, task, frames, pos, shown, boxes, acked, failed, open>>
      /\ hurried' = (hurried \/ ~Quiet) /\ seeded' = ~seeded
  BY DEF MarkSeeded, Uses
<1>2. CocoShape' /\ SaveIsOfTask' /\ ClosedPageRests'
  BY <1>1 DEF LabelShape, CocoShape, SaveIsOfTask, ClosedPageRests, cocoVars, Saving, Quiet
<1>3. PageShape'
  BY <1>1 DEF LabelShape, PageShape
<1> QED BY <1>1, <1>2, <1>3 DEF LabelShape

LEMMA PressShape ==
    ASSUME LabelShape, NEW t \in Tasks, NEW x, OneTaskMoves(t, x), Uses(TRUE),
           UNCHANGED <<cocoVars, open, frames, shown, boxes, seeded, acked, failed, disowned>>,
           pos' = pos \/ pos' \in DOMAIN frames
    PROVE  LabelShape' /\ task'[t] = x /\ \A u \in Tasks \ {t} : task'[u] = task[u]
<1>1. open' = TRUE /\ hurried' = (hurried \/ ~Quiet)
  BY DEF Uses, LabelShape, PageShape
<1>2. /\ task' \in [Tasks -> TaskState] /\ CocoShape' /\ SaveIsOfTask' /\ ClosedPageRests'
      /\ task'[t] = x /\ \A u \in Tasks \ {t} : task'[u] = task[u]
  BY <1>1, OneTaskShape
<1>3. PageShape'
  BY <1>1, <1>2 DEF LabelShape, PageShape
<1> QED BY <1>2, <1>3 DEF LabelShape

\* What moving on, or staying at the end, makes of the task.
LEMMA MovesTask ==
    ASSUME NEW t \in Tasks, NEW fs \in [DOMAIN frames -> Nat], NEW dir \in {-1, 0, 1}, Moves(t, fs, dir),
           task[t].step # "saving"
    PROVE  \E x : /\ OneTaskMoves(t, x)
                  /\ \/ pos' = pos + dir /\ pos' \in DOMAIN frames /\ x = LoadTask(fs, pos', FALSE)
                     \/ pos' = pos /\ x = NoTask
<1>1. CASE pos + dir \in DOMAIN fs
  <2>1. fs[pos + dir] \in Nat /\ DOMAIN fs = DOMAIN frames
    BY <1>1
  <2> QED BY <1>1, <2>1, LoadTaskIsTask DEF Moves, OneTaskMoves
<1>2. CASE pos + dir \notin DOMAIN fs
  BY <1>2, NoTaskIsTask DEF Moves, OneTaskMoves
<1> QED BY <1>1, <1>2

LEMMA PressSaveTask ==
    ASSUME LabelShape, PressSave
    PROVE  \E t \in Tasks : \E x :
              /\ OneTaskMoves(t, x) /\ Uses(TRUE) /\ task[t].step = "free"
              /\ x.step = "post" /\ x.image = frames[pos] /\ x.boxes = Sent(boxes) /\ x.seeded = seeded
              /\ UNCHANGED <<cocoVars, open, frames, pos, shown, boxes, seeded, acked, failed, disowned>>
<1>1. PICK t \in Tasks :
        /\ task[t].step = "free"
        /\ task' = [task EXCEPT ![t] = [NoTask EXCEPT !.step = "post", !.image = frames[pos],
                        !.dir = 1, !.boxes = Sent(boxes), !.seeded = seeded]]
  BY DEF PressSave
<1> DEFINE x == [NoTask EXCEPT !.step = "post", !.image = frames[pos],
                        !.dir = 1, !.boxes = Sent(boxes), !.seeded = seeded]
<1>2. frames[pos] \in Nat /\ Sent(boxes) \in SUBSET PageBox /\ seeded \in BOOLEAN
  BY DEF LabelShape, PageShape, PressSave, Uses, Sent
<1>3. /\ x.step = "post" /\ x.image = frames[pos] /\ x.boxes = Sent(boxes) /\ x.seeded = seeded
      /\ x \in TaskState
  BY <1>2 DEF NoTask, TaskState
<1>4. OneTaskMoves(t, x)
  BY <1>1, <1>3 DEF OneTaskMoves
<1> HIDE DEF x
<1>5. Uses(TRUE) /\ UNCHANGED <<cocoVars, open, frames, pos, shown, boxes, seeded, acked, failed, disowned>>
  BY DEF PressSave
<1> QED BY <1>1, <1>3, <1>4, <1>5

LEMMA PressLoadTask ==
    ASSUME LabelShape, PressMove \/ PressSeed
    PROVE  \E t \in Tasks : \E x :
              /\ OneTaskMoves(t, x) /\ Uses(TRUE) /\ task[t].step = "free"
              /\ UNCHANGED <<cocoVars, open, frames, shown, boxes, seeded, acked, failed, disowned>>
              /\ \/ pos' \in DOMAIN frames /\ x.step = "get" /\ x.image = frames[pos']
                 \/ pos' = pos /\ x = NoTask
<1>0. Uses(TRUE) /\ UNCHANGED <<cocoVars, open, frames, shown, boxes, seeded, acked, failed, disowned>>
      /\ frames \in [DOMAIN frames -> Nat] /\ pos \in DOMAIN frames
  BY DEF PressMove, PressSeed, LabelShape, PageShape, Uses
<1>1. CASE PressMove
  <2>1. PICK t \in Tasks, dir \in {-1, 1} : task[t].step = "free" /\ Moves(t, frames, dir)
    BY <1>1 DEF PressMove
  <2>2. PICK x : /\ OneTaskMoves(t, x)
                 /\ \/ pos' = pos + dir /\ pos' \in DOMAIN frames /\ x = LoadTask(frames, pos', FALSE)
                    \/ pos' = pos /\ x = NoTask
    BY <1>0, <2>1, MovesTask
  <2>3. pos' \in DOMAIN frames =>
          LoadTask(frames, pos', FALSE).step = "get" /\ LoadTask(frames, pos', FALSE).image = frames[pos']
    BY <1>0, LoadTaskIsTask
  <2>4. \/ pos' \in DOMAIN frames /\ x.step = "get" /\ x.image = frames[pos']
        \/ pos' = pos /\ x = NoTask
    BY <2>2, <2>3
  <2> QED BY <1>0, <2>1, <2>2, <2>4
<1>2. CASE PressSeed
  <2>1. PICK t \in Tasks : task[t].step = "free" /\ task' = [task EXCEPT ![t] = LoadTask(frames, pos, TRUE)]
    BY <1>2 DEF PressSeed
  <2>2. LoadTask(frames, pos, TRUE) \in TaskState /\ LoadTask(frames, pos, TRUE).step = "get"
        /\ LoadTask(frames, pos, TRUE).image = frames[pos] /\ pos' = pos
    BY <1>0, <1>2, LoadTaskIsTask DEF PressSeed
  <2>3. OneTaskMoves(t, LoadTask(frames, pos, TRUE))
    BY <2>1, <2>2 DEF OneTaskMoves
  <2> QED BY <1>0, <2>1, <2>2, <2>3
<1> QED BY <1>1, <1>2

\* Only the server's own step takes a task out of "saving".
LEMMA AnswerTask ==
    ASSUME LabelShape, NEW t \in Tasks, NEW st \in {"free", "post", "saving", "saved", "get", "got", "error"},
           Answer(t, st)
    PROVE  /\ task' \in [Tasks -> TaskState] /\ task'[t].step = st /\ \A u \in Tasks \ {t} : task'[u] = task[u]
           /\ task'[t].image = task[t].image /\ task'[t].boxes = task[t].boxes
           /\ task'[t].seeded = task[t].seeded /\ task'[t].withSeed = task[t].withSeed
<1>1. task \in [Tasks -> TaskState] /\ task[t] \in TaskState
  BY DEF LabelShape, PageShape
<1>2. [task[t] EXCEPT !.step = st] \in TaskState
  BY <1>1, TaskAnswered
<1>3. task' = [task EXCEPT ![t] = [task[t] EXCEPT !.step = st]]
  BY <1>1 DEF Answer
<1> QED BY <1>1, <1>2, <1>3 DEF TaskState

LEMMA AnswerLoadTask ==
    ASSUME LabelShape, NEW t \in Tasks, AnswerLoad(t)
    PROVE  /\ task[t].step = "get"
           /\ UNCHANGED <<cocoVars, open, frames, pos, shown, boxes, seeded, acked, hurried, failed, disowned>>
           /\ \E x : /\ OneTaskMoves(t, x) /\ x.image = task[t].image
                     /\ \/ x.step = "error"
                        \/ /\ x.step = "got" /\ x.image \in file.doc.images /\ x.withSeed = task[t].withSeed
                           /\ x.seeded = (x.image \in file.doc.seeded)
                           /\ IF x.withSeed THEN x.boxes \in Proposals(x.image) ELSE x.boxes = file.doc.boxes[x.image]
<1>1. /\ task[t].step = "get"
      /\ UNCHANGED <<cocoVars, open, frames, pos, shown, boxes, seeded, acked, hurried, failed, disowned>>
  BY DEF AnswerLoad
<1>2. task[t] \in TaskState /\ file.doc \in Store
  BY DEF LabelShape, PageShape, CocoShape, StoreFile
<1>3. CASE Loads(file) /\ task[t].image \in file.doc.images
  <2> DEFINE i == task[t].image
  <2>1. PICK found \in IF task[t].withSeed THEN Proposals(i) ELSE {file.doc.boxes[i]} :
          task' = [task EXCEPT ![t].step = "got", ![t].boxes = found, ![t].seeded = i \in file.doc.seeded]
    BY <1>3 DEF AnswerLoad
  <2> DEFINE x == [task[t] EXCEPT !.step = "got", !.boxes = found, !.seeded = (i \in file.doc.seeded)]
  <2>2. task' = [task EXCEPT ![t] = x]
    BY <2>1 DEF LabelShape, PageShape
  <2>3. found \in SUBSET PageBox
    <3>1. CASE task[t].withSeed
      <4>1. i \in Nat
        BY <1>2 DEF TaskState
      <4>2. found \in Proposals(i)
        BY <2>1, <3>1
      <4>3. [on |-> i, seed |-> TRUE, width |-> "some"] \in PageBox
        BY <4>1 DEF PageBox
      <4> QED BY <4>2, <4>3 DEF Proposals
    <3>2. CASE ~task[t].withSeed
      BY <1>2, <1>3, <2>1, <3>2 DEF Store
    <3> QED BY <3>1, <3>2
  <2>4. /\ x.step = "got" /\ x.image = i /\ x.withSeed = task[t].withSeed
        /\ x.seeded = (i \in file.doc.seeded) /\ x.boxes = found /\ x \in TaskState
    <3>1. (i \in file.doc.seeded) \in BOOLEAN
      OBVIOUS
    <3> QED BY <1>2, <2>3, <3>1 DEF TaskState
  <2>5. OneTaskMoves(t, x)
    BY <1>1, <2>2, <2>4 DEF OneTaskMoves
  <2> HIDE DEF x
  <2> QED BY <1>1, <1>3, <2>1, <2>4, <2>5
<1>4. CASE ~(Loads(file) /\ task[t].image \in file.doc.images)
  <2> DEFINE x == [task[t] EXCEPT !.step = "error"]
  <2>1. task' = [task EXCEPT ![t] = x]
    BY <1>4 DEF AnswerLoad, Answer, LabelShape, PageShape
  <2>2. x \in TaskState /\ x.step = "error" /\ x.image = task[t].image
    BY <1>2 DEF TaskState
  <2>3. OneTaskMoves(t, x)
    BY <1>1, <2>1, <2>2 DEF OneTaskMoves
  <2> HIDE DEF x
  <2> QED BY <1>1, <2>2, <2>3
<1> QED BY <1>3, <1>4

LEMMA BootTask ==
    ASSUME LabelShape, Boot
    PROVE  /\ ~open /\ open' = TRUE /\ UNCHANGED <<cocoVars, shown, boxes, seeded, acked, hurried, failed, disowned>>
           /\ frames' \in [DOMAIN frames' -> Nat] /\ DOMAIN frames' \subseteq Nat /\ pos' \in DOMAIN frames'
           /\ \E t \in Tasks : \E x : OneTaskMoves(t, x) /\ x.step = "get" /\ x.image = frames'[pos']
<1> DEFINE n == Cardinality(file.doc.images)
           todo == {p \in 1 .. n : p \notin file.doc.labelled}
<1>1. /\ ~open /\ open' = TRUE /\ UNCHANGED <<cocoVars, shown, boxes, seeded, acked, hurried, failed, disowned>>
      /\ frames' = [p \in 1 .. n |-> p] /\ file.doc.images # {}
      /\ pos' = IF todo = {} THEN 1 ELSE CHOOSE p \in todo : \A q \in todo : p <= q
  BY DEF Boot
<1>2. n \in Nat /\ n # 0
  <2>1. file.doc.images \subseteq Frames
    BY DEF LabelShape, CocoShape, StoreFile, Store
  <2>2. IsFiniteSet(Frames)
    BY CocoAssumption, FS_Interval DEF Frames
  <2>3. IsFiniteSet(file.doc.images)
    BY <2>1, <2>2, FS_Subset
  <2> QED BY <1>1, <2>3, FS_CardinalityType, FS_EmptySet
<1> HIDE DEF n
<1>3. pos' \in 1 .. n
  <2>1. todo # {} => pos' \in todo
    <3>1. todo \in SUBSET Nat
      BY <1>2
    <3> QED BY <1>1, <3>1, NextFrameExists
  <2>2. todo \subseteq 1 .. n /\ 1 \in 1 .. n
    BY <1>2
  <2> HIDE DEF todo
  <2> QED BY <1>1, <2>1, <2>2
<1>4. frames' \in [DOMAIN frames' -> Nat] /\ DOMAIN frames' = 1 .. n /\ frames'[pos'] \in Nat
  BY <1>1, <1>2, <1>3
<1>5. PICK t \in Tasks : task' = [task EXCEPT ![t] = LoadTask(frames', pos', FALSE)]
  BY DEF Boot
<1>6. LoadTask(frames', pos', FALSE) \in TaskState /\ LoadTask(frames', pos', FALSE).step = "get"
      /\ LoadTask(frames', pos', FALSE).image = frames'[pos']
  BY <1>4, LoadTaskIsTask
<1>7. task[t].step # "saving"
  BY <1>1 DEF LabelShape, ClosedPageRests, Quiet
<1> QED BY <1>1, <1>2, <1>3, <1>4, <1>5, <1>6, <1>7 DEF OneTaskMoves

LEMMA LoadedTask ==
    ASSUME LabelShape, NEW t \in Tasks, Loaded(t)
    PROVE  /\ OneTaskMoves(t, NoTask) /\ task[t].step = "got" /\ shown' = task[t].image
           /\ boxes' = task[t].boxes /\ seeded' = (task[t].seeded \/ task[t].withSeed)
           /\ UNCHANGED <<cocoVars, open, frames, pos, acked, hurried, failed, disowned>>
  BY NoTaskIsTask DEF Loaded, BoxesOnLoad, SeededOnLoad, OneTaskMoves

LEMMA SavedTask ==
    ASSUME LabelShape, NEW t \in Tasks, Saved(t)
    PROVE  /\ task[t].step = "saved" /\ frames' = [frames EXCEPT ![pos] = task[t].image]
           /\ UNCHANGED <<cocoVars, open, shown, boxes, seeded, acked, hurried, failed, disowned>>
           /\ \E x : /\ OneTaskMoves(t, x)
                     /\ \/ pos' \in DOMAIN frames /\ x.step = "get" /\ x.image = frames'[pos']
                        \/ pos' = pos /\ x = NoTask
<1>1. /\ task[t].step = "saved" /\ frames' = [frames EXCEPT ![pos] = task[t].image]
      /\ UNCHANGED <<cocoVars, open, shown, boxes, seeded, acked, hurried, failed, disowned>>
      /\ Moves(t, frames', task[t].dir)
  BY DEF Saved
<1>2. task[t].dir \in {-1, 0, 1} /\ task[t].image \in Nat
  BY DEF LabelShape, PageShape, TaskState
<1>3. frames' \in [DOMAIN frames -> Nat]
  BY <1>1, <1>2 DEF LabelShape, PageShape
<1>4. PICK x : /\ OneTaskMoves(t, x)
               /\ \/ pos' = pos + task[t].dir /\ pos' \in DOMAIN frames /\ x = LoadTask(frames', pos', FALSE)
                  \/ pos' = pos /\ x = NoTask
  BY <1>1, <1>2, <1>3, MovesTask
<1>5. pos' \in DOMAIN frames =>
        LoadTask(frames', pos', FALSE).step = "get" /\ LoadTask(frames', pos', FALSE).image = frames'[pos']
  BY <1>3, LoadTaskIsTask
<1>6. \/ pos' \in DOMAIN frames /\ x.step = "get" /\ x.image = frames'[pos']
      \/ pos' = pos /\ x = NoTask
  BY <1>4, <1>5
<1> QED BY <1>1, <1>4, <1>6

LEMMA RefusedTask ==
    ASSUME LabelShape, NEW t \in Tasks, RefuseSave(t)
    PROVE  /\ UNCHANGED <<cocoVars, open, frames, pos, shown, boxes, seeded, acked, hurried, failed, disowned>>
           /\ task[t].step = "post" /\ \E x : OneTaskMoves(t, x) /\ x.step = "error"
<1>1. /\ UNCHANGED <<cocoVars, open, frames, pos, shown, boxes, seeded, acked, hurried, failed, disowned>>
      /\ task[t].step = "post" /\ task' = [task EXCEPT ![t].step = "error"]
  BY DEF RefuseSave, Answer
<1>2. task[t] \in TaskState /\ task' = [task EXCEPT ![t] = [task[t] EXCEPT !.step = "error"]]
  BY <1>1 DEF LabelShape, PageShape
<1>3. [task[t] EXCEPT !.step = "error"] \in TaskState /\ [task[t] EXCEPT !.step = "error"].step = "error"
  BY <1>2, TaskAnswered
<1> QED BY <1>1, <1>2, <1>3 DEF OneTaskMoves

LEMMA FailedTask ==
    ASSUME LabelShape, NEW t \in Tasks, TaskFails(t)
    PROVE  /\ OneTaskMoves(t, NoTask) /\ task[t].step = "error" /\ failed'
           /\ UNCHANGED <<cocoVars, open, frames, pos, shown, boxes, seeded, acked, hurried, disowned>>
  BY NoTaskIsTask DEF TaskFails, OneTaskMoves

LEMMA BusyIsOpen ==
    ASSUME LabelShape, NEW t \in Tasks, task[t].step # "free"
    PROVE  open = TRUE
  BY DEF LabelShape, PageShape, ClosedPageRests, Quiet

LEMMA LabelShapeStep ==
    ASSUME LabelShape, [LabelNext]_labelVars
    PROVE  LabelShape'
<1>0. CocoShape /\ PageShape /\ SaveIsOfTask /\ ClosedPageRests
  BY DEF LabelShape
<1>1. CASE ScriptStep /\ PageUnchanged
  <2>1. CocoShape' /\ UNCHANGED <<request, writer["server"]>>
    BY <1>0, <1>1, ScriptStepShape
  <2>2. PageShape' /\ ClosedPageRests'
    BY <1>0, <1>1 DEF PageUnchanged, pageVars, PageShape, ClosedPageRests, Quiet
  <2>3. SaveIsOfTask'
    BY <1>0, <1>1, <2>1 DEF PageUnchanged, pageVars, SaveIsOfTask, Saving
  <2> QED BY <2>1, <2>2, <2>3 DEF LabelShape
<1>2. CASE (CopyToBackup("server") \/ Truncate("server") \/ RestoreBackup) /\ PageUnchanged
  <2>1. /\ CocoShape' /\ request' = request /\ (Saving("server")' <=> Saving("server"))
        /\ (Saving("server")' => writer'["server"].step # "sample")
    BY <1>0, <1>2, ServerStepShape
  <2>2. PageShape' /\ ClosedPageRests'
    BY <1>0, <1>2 DEF PageUnchanged, pageVars, PageShape, ClosedPageRests, Quiet
  <2>3. SaveIsOfTask'
    BY <1>0, <1>2, <2>1 DEF PageUnchanged, pageVars, SaveIsOfTask
  <2> QED BY <2>1, <2>2, <2>3 DEF LabelShape
<1>3. CASE Boot
  <2>1. PICK t \in Tasks : \E x : OneTaskMoves(t, x)
    BY <1>3, BootTask
  <2>2. PICK x : OneTaskMoves(t, x)
    BY <2>1
  <2>3. UNCHANGED cocoVars /\ open' = TRUE
    BY <1>3, BootTask
  <2>4. task' \in [Tasks -> TaskState] /\ CocoShape' /\ SaveIsOfTask' /\ ClosedPageRests'
    BY <2>2, <2>3, OneTaskShape
  <2>5. PageShape'
    BY <1>0, <1>3, <2>4, BootTask DEF PageShape
  <2> QED BY <2>4, <2>5 DEF LabelShape
<1>4. CASE Draw \/ Narrow \/ DeleteAll
  BY <1>4, DeveloperShape
<1>16. CASE MarkSeeded
  BY <1>16, MarkShape
<1>5. CASE PressSave
  BY <1>5, PressSaveTask, PressShape
<1>6. CASE PressMove \/ PressSeed
  BY <1>6, PressLoadTask, PressShape
<1>7. CASE FinishSave \/ ServerDies
  <2>1. CocoShape' /\ ~Saving("server")' /\ Saving("server")
    BY <1>0, <1>7, FinishSaveShape
  <2>2. request.task \in Tasks /\ request.image \in Frames /\ open = TRUE
    BY <1>0, <2>1, BusyIsOpen DEF SaveIsOfTask
  <2>3. task' \in [Tasks -> TaskState]
    <3>1. CASE Answer(request.task, "saved")
      BY <2>2, <3>1, AnswerTask
    <3>2. CASE Answer(request.task, "error")
      BY <2>2, <3>2, AnswerTask
    <3> QED BY <1>7, <3>1, <3>2 DEF FinishSave, ServerDies
  <2>4. UNCHANGED <<open, frames, pos, shown, boxes, seeded, hurried, failed>> /\ DOMAIN acked' \subseteq Frames
    <3>1. UNCHANGED <<open, frames, pos, shown, boxes, seeded, hurried, failed>>
      BY <1>7 DEF FinishSave, ServerDies
    <3>2. \A bs : DOMAIN Acknowledged(request.image, bs) = DOMAIN acked \cup {request.image}
      BY DEF Acknowledged
    <3>3. acked' = acked \/ \E bs : acked' = Acknowledged(request.image, bs)
      BY <1>7 DEF FinishSave, ServerDies
    <3> QED BY <1>0, <2>2, <3>1, <3>2, <3>3 DEF PageShape
  <2>5. PageShape' /\ ClosedPageRests'
    BY <1>0, <2>2, <2>3, <2>4 DEF PageShape, ClosedPageRests
  <2>6. SaveIsOfTask'
    BY <2>1 DEF SaveIsOfTask
  <2> QED BY <2>1, <2>5, <2>6 DEF LabelShape
<1>8. ASSUME NEW t \in Tasks, StartSave(t)
      PROVE  LabelShape'
  <2>1. CocoShape' /\ request'.task = t /\ request'.image \in Frames /\ writer'["server"].step = "copy"
    BY <1>8, StartSaveShape
  <2>2. UNCHANGED <<open, frames, pos, shown, boxes, seeded, acked, hurried, failed>>
        /\ task[t].step = "post" /\ Answer(t, "saving")
    BY <1>8 DEF StartSave
  <2>3. task' \in [Tasks -> TaskState] /\ task'[t].step = "saving" /\ open = TRUE
    BY <2>2, AnswerTask, BusyIsOpen
  <2>4. PageShape' /\ ClosedPageRests'
    BY <1>0, <2>2, <2>3 DEF PageShape, ClosedPageRests
  <2>5. SaveIsOfTask'
    BY <2>1, <2>3 DEF SaveIsOfTask
  <2> QED BY <2>1, <2>4, <2>5 DEF LabelShape
<1>9. ASSUME NEW t \in Tasks, NEW x, OneTaskMoves(t, x), task[t].step # "free",
             UNCHANGED <<cocoVars, open, acked, hurried>>, failed' \in BOOLEAN,
             frames' \in [DOMAIN frames -> Nat], pos' = pos \/ pos' \in DOMAIN frames,
             shown' \in Nat, boxes' \subseteq PageBox, seeded' \in BOOLEAN
      PROVE  LabelShape'
  <2>1. open = TRUE
    BY <1>9, BusyIsOpen
  <2>2. task' \in [Tasks -> TaskState] /\ CocoShape' /\ SaveIsOfTask' /\ ClosedPageRests'
    BY <1>9, <2>1, OneTaskShape
  <2>3. PageShape'
    BY <1>0, <1>9, <2>1, <2>2 DEF PageShape
  <2> QED BY <2>2, <2>3 DEF LabelShape
<1>10. ASSUME NEW t \in Tasks, RefuseSave(t)
       PROVE  LabelShape'
  BY <1>0, <1>9, <1>10, RefusedTask DEF PageShape
<1>11. ASSUME NEW t \in Tasks, AnswerLoad(t)
       PROVE  LabelShape'
  BY <1>0, <1>9, <1>11, AnswerLoadTask DEF PageShape
<1>12. ASSUME NEW t \in Tasks, Loaded(t)
       PROVE  LabelShape'
  <2>1. task[t].image \in Nat /\ task[t].boxes \subseteq PageBox
        /\ (task[t].seeded \/ task[t].withSeed) \in BOOLEAN
    BY <1>0 DEF PageShape, TaskState
  <2> QED BY <1>0, <1>9, <1>12, <2>1, LoadedTask DEF PageShape
<1>13. ASSUME NEW t \in Tasks, Saved(t)
       PROVE  LabelShape'
  <2>1. task[t].image \in Nat
    BY <1>0 DEF PageShape, TaskState
  <2>2. frames' \in [DOMAIN frames -> Nat]
    BY <1>0, <1>13, <2>1, SavedTask DEF PageShape
  <2> QED BY <1>0, <1>9, <1>13, <2>2, SavedTask DEF PageShape
<1>14. ASSUME NEW t \in Tasks, TaskFails(t)
       PROVE  LabelShape'
  BY <1>0, <1>9, <1>14, FailedTask DEF PageShape
<1>15. CASE UNCHANGED labelVars
  BY <1>0, <1>15 DEF labelVars, cocoVars, pageVars, LabelShape, CocoShape, PageShape, SaveIsOfTask, ClosedPageRests,
                     Saving, Quiet
<1> QED
  BY <1>1, <1>2, <1>3, <1>4, <1>5, <1>6, <1>7, <1>8, <1>10, <1>11, <1>12, <1>13, <1>14, <1>15, <1>16 DEF LabelNext

---------------------------------------------------------------------------
(* What a box is: of some size, and a person's or the detector's. *)

SoundDoc(d) == \A i \in Frames : \A b \in d.boxes[i] : b.width # "zero" /\ (Unclaimed(b) => i \in d.seeded)

DocsSound == SoundDoc(file.doc) /\ SoundDoc(bak.doc) /\ \A w \in Writers : SoundDoc(writer[w].doc)

PageSound ==
    /\ \A b \in boxes : Unclaimed(b) => seeded
    /\ \A t \in Tasks : task[t].step = "post" =>
          \A b \in task[t].boxes : b.width = "some" /\ (Unclaimed(b) => task[t].seeded)
    /\ \A t \in Tasks : task[t].step = "got" =>
          \A b \in task[t].boxes : Unclaimed(b) => task[t].seeded \/ task[t].withSeed

LEMMA DocsSoundStep ==
    ASSUME LabelShape, DocsSound, PageSound, DocsMove, UNCHANGED disowned
    PROVE  DocsSound'
<1>1. SoundDoc(NoStore)
  BY DEF SoundDoc, NoStore
<1>2. ASSUME NEW d, FromTask(d)
      PROVE  SoundDoc(d)
  <2>1. PICK t \in Tasks : /\ task[t].step = "post" /\ task[t].image \in file.doc.images
                           /\ d = WithBoxes(file.doc, task[t].image, task[t].boxes, task[t].seeded)
    BY <1>2 DEF FromTask
  <2>2. /\ file.doc \in Store /\ task[t].image \in Frames /\ task[t].boxes \in SUBSET PageBox
        /\ task[t].seeded \in BOOLEAN
    BY <2>1 DEF LabelShape, CocoShape, PageShape, StoreFile, Store, TaskState
  <2> DEFINE i == task[t].image
  <2>3. /\ d.boxes[i] = {Rounded(b) : b \in task[t].boxes}
        /\ \A j \in Frames : j # i => d.boxes[j] = file.doc.boxes[j]
        /\ \A j \in Frames : j # i => (j \in d.seeded <=> j \in file.doc.seeded)
        /\ d.seeded = IF task[t].seeded THEN file.doc.seeded \cup {i} ELSE file.doc.seeded \ {i}
    BY <2>1, <2>2 DEF WithBoxes, Store
  <2>4. \A b \in task[t].boxes : Rounded(b) = b /\ b.width = "some" /\ (Unclaimed(b) => task[t].seeded)
    BY <2>1 DEF PageSound, Rounded
  <2> QED BY <2>3, <2>4 DEF DocsSound, SoundDoc
<1>3. \A d, e : SameBoxes(d, e) /\ SoundDoc(e) => SoundDoc(d)
  BY DEF SameBoxes, SoundDoc
<1>4. ASSUME NEW w \in Writers
      PROVE  SoundDoc(writer'[w].doc)
  BY <1>1, <1>2, <1>3 DEF DocsMove, DocsSound
<1>5. SoundDoc(file'.doc)
  BY <1>1 DEF DocsMove, DocsSound, Torn, Holding
<1>6. SoundDoc(bak'.doc)
  BY <1>1 DEF DocsMove, DocsSound, Torn
<1> QED BY <1>4, <1>5, <1>6 DEF DocsSound, SoundDoc, Unclaimed

\* One task moves on the page's side of things.
LEMMA PageSoundTask ==
    ASSUME LabelShape, PageSound, NEW t \in Tasks, NEW x, OneTaskMoves(t, x), UNCHANGED disowned,
           \A b \in boxes' : Unclaimed(b)' => seeded',
           x.step = "post" => \A b \in x.boxes : b.width = "some" /\ (Unclaimed(b) => x.seeded),
           x.step = "got" => \A b \in x.boxes : Unclaimed(b) => x.seeded \/ x.withSeed
    PROVE  PageSound'
<1>1. task' = [task EXCEPT ![t] = x] /\ task \in [Tasks -> TaskState]
  BY DEF OneTaskMoves, LabelShape, PageShape
<1>2. task'[t] = x /\ \A u \in Tasks \ {t} : task'[u] = task[u]
  BY <1>1
<1> QED BY <1>2 DEF PageSound, Unclaimed

LEMMA PageSoundAnswered ==
    ASSUME LabelShape, PageSound, NEW t \in Tasks, NEW st \in {"saving", "saved", "error"}, Answer(t, st),
           UNCHANGED <<boxes, seeded, disowned>>
    PROVE  PageSound'
<1>1. task'[t].step = st /\ \A u \in Tasks \ {t} : task'[u] = task[u]
  BY AnswerTask
<1> QED BY <1>1 DEF PageSound, Unclaimed

LEMMA SoundStep ==
    ASSUME LabelShape, DocsSound, PageSound, [LabelNext]_labelVars
    PROVE  DocsSound' /\ PageSound'
<1>0. CocoShape
  BY DEF LabelShape
<1>a. ASSUME UNCHANGED cocoVars, disowned \subseteq disowned'
      PROVE  DocsSound'
  BY <1>a DEF cocoVars, DocsSound, SoundDoc, Unclaimed
<1>b. ASSUME UNCHANGED <<boxes, seeded, task, disowned>>
      PROVE  PageSound'
  BY <1>b DEF PageSound, Unclaimed
<1>c. NoTask.step = "free"
  BY NoTaskIsTask
<1>1. CASE ScriptStep /\ PageUnchanged
  BY <1>0, <1>1, <1>b, ScriptStepShape, DocsSoundStep DEF PageUnchanged, pageVars
<1>2. CASE (CopyToBackup("server") \/ Truncate("server") \/ RestoreBackup) /\ PageUnchanged
  BY <1>0, <1>2, <1>b, ServerStepShape, DocsSoundStep DEF PageUnchanged, pageVars
<1>3. CASE Boot
  <2>1. PICK t \in Tasks : \E x : OneTaskMoves(t, x) /\ x.step = "get"
    BY <1>3, BootTask
  <2>2. PICK x : OneTaskMoves(t, x) /\ x.step = "get"
    BY <2>1
  <2>3. UNCHANGED <<cocoVars, boxes, seeded, disowned>>
    BY <1>3, BootTask
  <2>4. \A b \in boxes' : Unclaimed(b)' => seeded'
    BY <2>3 DEF PageSound, Unclaimed
  <2> QED BY <1>a, <2>2, <2>3, <2>4, PageSoundTask
<1>4. CASE Draw \/ Narrow \/ DeleteAll
  <2>1. UNCHANGED <<cocoVars, task, seeded, disowned>>
    BY <1>4, DeveloperShape
  <2>2. \A b \in boxes' : Unclaimed(b) => seeded
    <3>1. CASE Draw
      BY <3>1 DEF Draw, PageSound, Unclaimed
    <3>2. CASE Narrow
      <4>1. PICK b \in boxes, w \in {"thin", "zero"} : boxes' = (boxes \ {b}) \cup {[b EXCEPT !.width = w]}
        BY <3>2 DEF Narrow
      <4>2. b \in PageBox
        BY DEF LabelShape, PageShape
      <4>3. [b EXCEPT !.width = w].seed = b.seed /\ [b EXCEPT !.width = w].on = b.on
        BY <4>2 DEF PageBox
      <4> QED BY <4>1, <4>3 DEF PageSound, Unclaimed
    <3>3. CASE DeleteAll
      BY <3>3 DEF DeleteAll
    <3> QED BY <1>4, <3>1, <3>2, <3>3
  <2> QED BY <1>a, <2>1, <2>2 DEF PageSound, Unclaimed
<1>16. CASE MarkSeeded
  <2>1. /\ UNCHANGED <<cocoVars, task, boxes>> /\ seeded' = ~seeded
        /\ disowned' = IF seeded THEN disowned \cup {b.on : b \in {c \in boxes : c.seed}} ELSE disowned
    BY <1>16, MarkShape DEF MarkSeeded
  <2>2. disowned \subseteq disowned'
    BY <2>1
  <2>3. \A b : Unclaimed(b)' => Unclaimed(b)
    BY <2>2 DEF Unclaimed
  <2>4. \A b \in boxes' : Unclaimed(b)' => seeded'
    <3>1. CASE seeded
      BY <2>1, <3>1 DEF Unclaimed
    <3>2. CASE ~seeded
      BY <2>1, <3>2 DEF LabelShape, PageShape
    <3> QED BY <3>1, <3>2
  <2>5. PageSound'
    BY <2>1, <2>3, <2>4 DEF PageSound
  <2> QED BY <1>a, <2>1, <2>2, <2>5
<1>5. CASE PressSave
  <2>1. PICK t \in Tasks : \E x :
              /\ OneTaskMoves(t, x) /\ x.step = "post" /\ x.boxes = Sent(boxes) /\ x.seeded = seeded
              /\ UNCHANGED <<cocoVars, boxes, seeded, disowned>>
    BY <1>5, PressSaveTask
  <2>2. PICK x : /\ OneTaskMoves(t, x) /\ x.step = "post" /\ x.boxes = Sent(boxes) /\ x.seeded = seeded
                 /\ UNCHANGED <<cocoVars, boxes, seeded, disowned>>
    BY <2>1
  <2>3. \A b \in x.boxes : b.width = "some" /\ (Unclaimed(b) => x.seeded)
    BY <2>2 DEF Sent, PageSound
  <2>4. \A b \in boxes' : Unclaimed(b)' => seeded'
    BY <2>2 DEF PageSound, Unclaimed
  <2>5. PageSound'
    BY <2>2, <2>3, <2>4, PageSoundTask
  <2> QED BY <1>a, <2>2, <2>5
<1>6. CASE PressMove \/ PressSeed
  <2>1. PICK t \in Tasks : \E x : OneTaskMoves(t, x) /\ (x.step = "get" \/ x = NoTask)
                                  /\ UNCHANGED <<cocoVars, boxes, seeded, disowned>>
    BY <1>6, PressLoadTask
  <2>2. PICK x : OneTaskMoves(t, x) /\ (x.step = "get" \/ x = NoTask) /\ UNCHANGED <<cocoVars, boxes, seeded, disowned>>
    BY <2>1
  <2>3. x.step \notin {"post", "got"}
    BY <1>c, <2>2
  <2>4. \A b \in boxes' : Unclaimed(b)' => seeded'
    BY <2>2 DEF PageSound, Unclaimed
  <2>5. PageSound'
    BY <2>2, <2>3, <2>4, PageSoundTask
  <2> QED BY <1>a, <2>2, <2>5
<1>7. CASE FinishSave \/ ServerDies
  <2>1. DocsMove /\ Saving("server")
    BY <1>0, <1>7, FinishSaveShape
  <2>2. request.task \in Tasks
    BY <2>1 DEF LabelShape, SaveIsOfTask
  <2>3. UNCHANGED <<boxes, seeded, disowned>> /\ (Answer(request.task, "saved") \/ Answer(request.task, "error"))
    BY <1>7 DEF FinishSave, ServerDies
  <2>4. PageSound'
    BY <2>2, <2>3, PageSoundAnswered
  <2> QED BY <2>1, <2>3, <2>4, DocsSoundStep
<1>8. ASSUME NEW t \in Tasks, StartSave(t)
      PROVE  DocsSound' /\ PageSound'
  <2>1. UNCHANGED <<boxes, seeded, disowned>> /\ Answer(t, "saving")
    BY <1>8 DEF StartSave
  <2> QED BY <1>8, <2>1, PageSoundAnswered, StartSaveShape, DocsSoundStep
<1>9. ASSUME NEW t \in Tasks, NEW x, OneTaskMoves(t, x), x.step \notin {"post", "got"},
             UNCHANGED <<cocoVars, boxes, seeded, disowned>>
      PROVE  DocsSound' /\ PageSound'
  <2>1. \A b \in boxes' : Unclaimed(b)' => seeded'
    BY <1>9 DEF PageSound, Unclaimed
  <2> QED BY <1>9, <1>a, <2>1, PageSoundTask
<1>10. ASSUME NEW t \in Tasks, RefuseSave(t)
       PROVE  DocsSound' /\ PageSound'
  BY <1>9, <1>10, RefusedTask
<1>11. ASSUME NEW t \in Tasks, AnswerLoad(t)
       PROVE  DocsSound' /\ PageSound'
  <2>1. PICK x : /\ OneTaskMoves(t, x)
                 /\ \/ x.step = "error"
                    \/ /\ x.step = "got" /\ x.image \in file.doc.images
                       /\ x.seeded = (x.image \in file.doc.seeded)
                       /\ IF x.withSeed THEN x.boxes \in Proposals(x.image) ELSE x.boxes = file.doc.boxes[x.image]
    BY <1>11, AnswerLoadTask
  <2>2. UNCHANGED <<cocoVars, boxes, seeded, disowned>>
    BY <1>11, AnswerLoadTask
  <2>3. \A b \in boxes' : Unclaimed(b)' => seeded'
    BY <2>2 DEF PageSound, Unclaimed
  <2>4. x.step = "got" => \A b \in x.boxes : Unclaimed(b) => x.seeded \/ x.withSeed
    <3>1. file.doc.images \subseteq Frames
      BY <1>0 DEF CocoShape, StoreFile, Store
    <3> QED BY <2>1, <3>1 DEF DocsSound, SoundDoc
  <2>5. x.step # "post"
    BY <2>1
  <2> QED BY <1>a, <2>1, <2>2, <2>3, <2>4, <2>5, PageSoundTask
<1>12. ASSUME NEW t \in Tasks, Loaded(t)
       PROVE  DocsSound' /\ PageSound'
  <2>1. /\ OneTaskMoves(t, NoTask) /\ task[t].step = "got"
        /\ boxes' = task[t].boxes /\ seeded' = (task[t].seeded \/ task[t].withSeed)
        /\ UNCHANGED <<cocoVars, disowned>>
    BY <1>12, LoadedTask
  <2>2. \A b \in boxes' : Unclaimed(b)' => seeded'
    BY <2>1 DEF PageSound, Unclaimed
  <2> QED BY <1>a, <1>c, <2>1, <2>2, PageSoundTask
<1>13. ASSUME NEW t \in Tasks, Saved(t)
       PROVE  DocsSound' /\ PageSound'
  <2>1. UNCHANGED <<cocoVars, boxes, seeded, disowned>>
    BY <1>13, SavedTask
  <2>2. PICK x : OneTaskMoves(t, x) /\ (x.step = "get" \/ x = NoTask)
    BY <1>13, SavedTask
  <2>3. x.step \notin {"post", "got"}
    BY <1>c, <2>2
  <2> QED BY <1>9, <2>1, <2>2, <2>3
<1>14. ASSUME NEW t \in Tasks, TaskFails(t)
       PROVE  DocsSound' /\ PageSound'
  BY <1>9, <1>14, <1>c, FailedTask
<1>15. CASE UNCHANGED labelVars
  BY <1>a, <1>b, <1>15 DEF labelVars, pageVars
<1> QED
  BY <1>1, <1>2, <1>3, <1>4, <1>5, <1>6, <1>7, <1>8, <1>10, <1>11, <1>12, <1>13, <1>14, <1>15, <1>16 DEF LabelNext

---------------------------------------------------------------------------
(* Where a box was drawn, while the developer waits and no request fails. *)

Patient == ~hurried /\ ~failed

DocOnFrames(d) == \A i \in Frames : \A b \in d.boxes[i] : b.on = i

DocsOnFrames == DocOnFrames(file.doc) /\ DocOnFrames(bak.doc) /\ \A w \in Writers : DocOnFrames(writer[w].doc)

\* What a task is about: the frame sh that is shown, or the one at the position, fr.
TaskOfPage(x, sh, fr) ==
    /\ x.step \in {"post", "saving", "saved"} => x.image = sh
    /\ x.step \in {"post", "got"} => \A b \in x.boxes : b.on = x.image
    /\ x.step \in {"get", "got"} => x.image = fr

OneAtATime ==
    /\ \A t, u \in Tasks : task[t].step # "free" /\ task[u].step # "free" => t = u
    /\ \A b \in boxes : b.on = shown
    /\ Quiet /\ shown # 0 => frames[pos] = shown
    /\ \A t \in Tasks : TaskOfPage(task[t], shown, frames[pos])

PatientInv == Patient => DocsOnFrames /\ OneAtATime

LEMMA OnFramesStep ==
    ASSUME LabelShape, DocsOnFrames, \A t \in Tasks : TaskOfPage(task[t], shown, frames[pos]), DocsMove
    PROVE  DocsOnFrames'
<1>1. DocOnFrames(NoStore)
  BY DEF DocOnFrames, NoStore
<1>2. ASSUME NEW d, FromTask(d)
      PROVE  DocOnFrames(d)
  <2>1. PICK t \in Tasks : /\ task[t].step = "post" /\ task[t].image \in file.doc.images
                           /\ d = WithBoxes(file.doc, task[t].image, task[t].boxes, task[t].seeded)
    BY <1>2 DEF FromTask
  <2>2. file.doc \in Store /\ task[t].image \in Frames /\ task[t].boxes \in SUBSET PageBox
    BY <2>1 DEF LabelShape, CocoShape, PageShape, StoreFile, Store, TaskState
  <2>3. /\ d.boxes[task[t].image] = {Rounded(b) : b \in task[t].boxes}
        /\ \A j \in Frames : j # task[t].image => d.boxes[j] = file.doc.boxes[j]
    BY <2>1, <2>2 DEF WithBoxes, Store
  <2>4. \A b \in task[t].boxes : Rounded(b).on = b.on /\ b.on = task[t].image
    BY <2>1, <2>2 DEF TaskOfPage, Rounded, PageBox
  <2> QED BY <2>3, <2>4 DEF DocsOnFrames, DocOnFrames
<1>3. \A d, e : SameBoxes(d, e) /\ DocOnFrames(e) => DocOnFrames(d)
  BY DEF SameBoxes, DocOnFrames
<1>4. ASSUME NEW w \in Writers
      PROVE  DocOnFrames(writer'[w].doc)
  BY <1>1, <1>2, <1>3 DEF DocsMove, DocsOnFrames
<1>5. DocOnFrames(file'.doc)
  BY <1>1 DEF DocsMove, DocsOnFrames, Torn, Holding
<1>6. DocOnFrames(bak'.doc)
  BY <1>1 DEF DocsMove, DocsOnFrames, Torn
<1> QED BY <1>4, <1>5, <1>6 DEF DocsOnFrames, DocOnFrames

\* The one task that is under way, or that a quiet page starts, moves.
LEMMA OneTaskAtATime ==
    ASSUME LabelShape, OneAtATime, NEW t \in Tasks, Quiet \/ task[t].step # "free",
           task' \in [Tasks -> TaskState], \A u \in Tasks \ {t} : task'[u] = task[u],
           \A b \in boxes' : b.on = shown',
           task'[t].step = "free" /\ shown' # 0 => frames'[pos'] = shown',
           TaskOfPage(task'[t], shown', frames'[pos'])
    PROVE  OneAtATime'
<1>1. \A u \in Tasks \ {t} : task'[u] = task[u] /\ task[u].step = "free"
  BY DEF OneAtATime, Quiet
<1>2. \A u \in Tasks : TaskOfPage(task'[u], shown', frames'[pos'])
  BY <1>1 DEF TaskOfPage
<1>3. \A u, v \in Tasks : task'[u].step # "free" /\ task'[v].step # "free" => u = v
  BY <1>1
<1>4. Quiet' => task'[t].step = "free"
  BY DEF Quiet
<1> QED BY <1>2, <1>3, <1>4 DEF OneAtATime

LEMMA PatientStep ==
    ASSUME LabelShape, LabelShape', PatientInv, [LabelNext]_labelVars
    PROVE  PatientInv'
<1> SUFFICES ASSUME Patient'
             PROVE  DocsOnFrames' /\ OneAtATime'
  BY DEF PatientInv
<1>0. CocoShape /\ PageShape /\ task \in [Tasks -> TaskState] /\ task' \in [Tasks -> TaskState]
  BY DEF LabelShape, PageShape
<1>a. ASSUME UNCHANGED <<hurried, failed>>
      PROVE  DocsOnFrames /\ OneAtATime
  BY <1>a DEF PatientInv, Patient
<1>b. ASSUME Uses(TRUE) \/ hurried' = (hurried \/ ~Quiet), failed' = failed
      PROVE  DocsOnFrames /\ OneAtATime /\ Quiet
  <2>1. hurried' = (hurried \/ ~Quiet)
    BY <1>b DEF Uses
  <2> QED BY <1>b, <2>1 DEF PatientInv, Patient
<1>c. ASSUME DocsOnFrames, UNCHANGED cocoVars
      PROVE  DocsOnFrames'
  BY <1>c DEF cocoVars, DocsOnFrames
<1>d. ASSUME OneAtATime, UNCHANGED pageVars
      PROVE  OneAtATime'
  BY <1>d DEF OneAtATime, pageVars, Quiet
<1>e. ASSUME NEW t \in Tasks, NEW x, OneTaskMoves(t, x)
      PROVE  task'[t] = x /\ \A u \in Tasks \ {t} : task'[u] = task[u]
  BY <1>0, <1>e DEF OneTaskMoves
<1>f. ASSUME DocsOnFrames, OneAtATime, DocsMove
      PROVE  DocsOnFrames'
  BY <1>f, OnFramesStep DEF OneAtATime
<1>1. CASE (ScriptStep \/ CopyToBackup("server") \/ Truncate("server") \/ RestoreBackup) /\ PageUnchanged
  <2>1. DocsMove /\ UNCHANGED pageVars /\ UNCHANGED <<hurried, failed>>
    BY <1>0, <1>1, ScriptStepShape, ServerStepShape DEF PageUnchanged
  <2> QED BY <1>a, <1>d, <1>f, <2>1
<1>2. CASE Boot
  <2>1. PICK t \in Tasks : \E x : OneTaskMoves(t, x) /\ x.step = "get" /\ x.image = frames'[pos']
    BY <1>2, BootTask
  <2>2. PICK x : OneTaskMoves(t, x) /\ x.step = "get" /\ x.image = frames'[pos']
    BY <2>1
  <2>3. ~open /\ UNCHANGED <<cocoVars, shown, boxes, hurried, failed>>
    BY <1>2, BootTask
  <2>4. Quiet /\ DocsOnFrames /\ OneAtATime
    BY <1>a, <2>3 DEF LabelShape, ClosedPageRests
  <2>5. task'[t] = x /\ \A u \in Tasks \ {t} : task'[u] = task[u]
    BY <1>e, <2>2
  <2>6. TaskOfPage(x, shown', frames'[pos'])
    BY <2>2 DEF TaskOfPage
  <2>7. \A b \in boxes' : b.on = shown'
    BY <2>3, <2>4 DEF OneAtATime
  <2>8. OneAtATime'
    BY <1>0, <2>2, <2>4, <2>5, <2>6, <2>7, OneTaskAtATime
  <2> QED BY <1>c, <2>3, <2>4, <2>8
<1>3. CASE Draw \/ Narrow \/ DeleteAll
  <2>1. UNCHANGED <<cocoVars, task, frames, pos, shown, failed>> /\ hurried' = (hurried \/ ~Quiet)
    BY <1>3, DeveloperShape
  <2>2. DocsOnFrames /\ OneAtATime
    BY <1>b, <2>1
  <2>3. \A b \in boxes' : b.on = shown
    <3>1. CASE Draw
      BY <2>2, <3>1 DEF Draw, OneAtATime
    <3>2. CASE Narrow
      <4>1. PICK b \in boxes, w \in {"thin", "zero"} : boxes' = (boxes \ {b}) \cup {[b EXCEPT !.width = w]}
        BY <3>2 DEF Narrow
      <4>2. b \in PageBox
        BY <1>0 DEF PageShape
      <4>3. [b EXCEPT !.width = w].on = b.on
        BY <4>2 DEF PageBox
      <4> QED BY <2>2, <4>1, <4>3 DEF OneAtATime
    <3>3. CASE DeleteAll
      BY <3>3 DEF DeleteAll
    <3> QED BY <1>3, <3>1, <3>2, <3>3
  <2>4. OneAtATime'
    BY <2>1, <2>2, <2>3 DEF OneAtATime, Quiet
  <2> QED BY <1>c, <2>1, <2>2, <2>4
<1>16. CASE MarkSeeded
  <2>1. UNCHANGED <<cocoVars, task, frames, pos, shown, boxes, failed>> /\ hurried' = (hurried \/ ~Quiet)
    BY <1>16, MarkShape
  <2>2. DocsOnFrames /\ OneAtATime
    BY <1>b, <2>1
  <2>3. OneAtATime'
    BY <2>1, <2>2 DEF OneAtATime, Quiet
  <2> QED BY <1>c, <2>1, <2>2, <2>3
<1>4. CASE PressSave
  <2>1. PICK t \in Tasks : \E x :
              /\ OneTaskMoves(t, x) /\ Uses(TRUE) /\ task[t].step = "free"
              /\ x.step = "post" /\ x.image = frames[pos] /\ x.boxes = Sent(boxes) /\ x.seeded = seeded
              /\ UNCHANGED <<cocoVars, open, frames, pos, shown, boxes, seeded, acked, failed>>
    BY <1>4, PressSaveTask
  <2>2. PICK x :
              /\ OneTaskMoves(t, x) /\ Uses(TRUE) /\ task[t].step = "free"
              /\ x.step = "post" /\ x.image = frames[pos] /\ x.boxes = Sent(boxes) /\ x.seeded = seeded
              /\ UNCHANGED <<cocoVars, open, frames, pos, shown, boxes, seeded, acked, failed>>
    BY <2>1
  <2>3. DocsOnFrames /\ OneAtATime /\ Quiet /\ shown # 0
    BY <1>b, <2>2 DEF Uses
  <2>4. task'[t] = x /\ \A u \in Tasks \ {t} : task'[u] = task[u]
    BY <1>e, <2>2
  <2>5. x.image = shown /\ \A b \in x.boxes : b.on = shown
    BY <2>2, <2>3 DEF OneAtATime, Sent
  <2>6. TaskOfPage(x, shown', frames'[pos'])
    BY <2>2, <2>5 DEF TaskOfPage
  <2>7. \A b \in boxes' : b.on = shown'
    BY <2>2, <2>3 DEF OneAtATime
  <2>8. OneAtATime'
    BY <1>0, <2>2, <2>3, <2>4, <2>6, <2>7, OneTaskAtATime
  <2> QED BY <1>c, <2>2, <2>3, <2>8
<1>5. CASE PressMove \/ PressSeed
  <2>1. PICK t \in Tasks : \E x :
              /\ OneTaskMoves(t, x) /\ Uses(TRUE) /\ task[t].step = "free"
              /\ UNCHANGED <<cocoVars, open, frames, shown, boxes, seeded, acked, failed>>
              /\ \/ pos' \in DOMAIN frames /\ x.step = "get" /\ x.image = frames[pos']
                 \/ pos' = pos /\ x = NoTask
    BY <1>5, PressLoadTask
  <2>2. PICK x :
              /\ OneTaskMoves(t, x) /\ Uses(TRUE) /\ task[t].step = "free"
              /\ UNCHANGED <<cocoVars, open, frames, shown, boxes, seeded, acked, failed>>
              /\ \/ pos' \in DOMAIN frames /\ x.step = "get" /\ x.image = frames[pos']
                 \/ pos' = pos /\ x = NoTask
    BY <2>1
  <2>3. DocsOnFrames /\ OneAtATime /\ Quiet /\ shown # 0
    BY <1>b, <2>2 DEF Uses
  <2>4. task'[t] = x /\ \A u \in Tasks \ {t} : task'[u] = task[u]
    BY <1>e, <2>2
  <2>5. TaskOfPage(x, shown', frames'[pos'])
    BY <2>2, NoTaskIsTask DEF TaskOfPage
  <2>6. x.step = "free" => frames'[pos'] = shown'
    BY <2>2, <2>3 DEF OneAtATime
  <2>7. \A b \in boxes' : b.on = shown'
    BY <2>2, <2>3 DEF OneAtATime
  <2>8. OneAtATime'
    BY <1>0, <2>3, <2>4, <2>5, <2>6, <2>7, OneTaskAtATime
  <2> QED BY <1>c, <2>2, <2>3, <2>8
<1>6. ASSUME NEW t \in Tasks, NEW st \in {"saving", "saved", "error"}, Answer(t, st), DocsMove,
             task[t].step \in {"post", "saving"}, UNCHANGED <<frames, pos, shown, boxes, hurried, failed>>
      PROVE  DocsOnFrames' /\ OneAtATime'
  <2>1. DocsOnFrames /\ OneAtATime
    BY <1>a, <1>6
  <2>2. /\ task'[t].step = st /\ task'[t].image = task[t].image
        /\ \A u \in Tasks \ {t} : task'[u] = task[u]
    BY <1>6, AnswerTask
  <2>3. TaskOfPage(task'[t], shown', frames'[pos']) /\ \A b \in boxes' : b.on = shown'
    BY <1>6, <2>1, <2>2 DEF TaskOfPage, OneAtATime
  <2>4. OneAtATime'
    BY <1>0, <1>6, <2>1, <2>2, <2>3, OneTaskAtATime
  <2> QED BY <1>6, <1>f, <2>1, <2>4
<1>7. CASE FinishSave \/ ServerDies
  <2>1. DocsMove /\ Saving("server")
    BY <1>0, <1>7, FinishSaveShape
  <2>2. request.task \in Tasks /\ task[request.task].step = "saving"
    BY <2>1 DEF LabelShape, SaveIsOfTask
  <2>3. /\ UNCHANGED <<frames, pos, shown, boxes, hurried, failed>>
        /\ (Answer(request.task, "saved") \/ Answer(request.task, "error"))
    BY <1>7 DEF FinishSave, ServerDies
  <2> QED BY <1>6, <2>1, <2>2, <2>3
<1>8. ASSUME NEW t \in Tasks, StartSave(t)
      PROVE  DocsOnFrames' /\ OneAtATime'
  BY <1>6, <1>8, StartSaveShape DEF StartSave
<1>9. ASSUME NEW t \in Tasks, RefuseSave(t)
      PROVE  DocsOnFrames' /\ OneAtATime'
  <2>1. UNCHANGED cocoVars
    BY <1>9 DEF RefuseSave
  <2>2. DocsMove
    BY <2>1 DEF DocsMove, cocoVars
  <2> QED BY <1>6, <1>9, <2>2 DEF RefuseSave
<1>10. ASSUME NEW t \in Tasks, NEW x, OneTaskMoves(t, x), task[t].step # "free", UNCHANGED <<cocoVars, hurried, failed>>,
              DocsOnFrames /\ OneAtATime =>
                 /\ TaskOfPage(x, shown', frames'[pos']) /\ \A b \in boxes' : b.on = shown'
                 /\ x.step = "free" => frames'[pos'] = shown'
       PROVE  DocsOnFrames' /\ OneAtATime'
  <2>1. DocsOnFrames /\ OneAtATime
    BY <1>a, <1>10
  <2>2. task'[t] = x /\ \A u \in Tasks \ {t} : task'[u] = task[u]
    BY <1>e, <1>10
  <2>3. OneAtATime'
    BY <1>0, <1>10, <2>1, <2>2, OneTaskAtATime
  <2> QED BY <1>10, <1>c, <2>1, <2>3
<1>11. ASSUME NEW t \in Tasks, AnswerLoad(t)
       PROVE  DocsOnFrames' /\ OneAtATime'
  <2>1. PICK x : /\ OneTaskMoves(t, x) /\ x.image = task[t].image
                 /\ \/ x.step = "error"
                    \/ /\ x.step = "got" /\ x.image \in file.doc.images
                       /\ IF x.withSeed THEN x.boxes \in Proposals(x.image) ELSE x.boxes = file.doc.boxes[x.image]
    BY <1>11, AnswerLoadTask
  <2>2. UNCHANGED <<cocoVars, frames, pos, shown, boxes, hurried, failed>> /\ task[t].step = "get"
    BY <1>11, AnswerLoadTask
  <2>3. file.doc.images \subseteq Frames
    BY <1>0 DEF CocoShape, StoreFile, Store
  <2>4. DocsOnFrames /\ x.step = "got" => \A b \in x.boxes : b.on = x.image
    BY <2>1, <2>3 DEF DocsOnFrames, DocOnFrames, Proposals
  <2>5. DocsOnFrames /\ OneAtATime => TaskOfPage(x, shown', frames'[pos']) /\ \A b \in boxes' : b.on = shown'
    BY <2>1, <2>2, <2>4 DEF TaskOfPage, OneAtATime
  <2> QED BY <1>10, <2>1, <2>2, <2>5
<1>12. ASSUME NEW t \in Tasks, Loaded(t)
       PROVE  DocsOnFrames' /\ OneAtATime'
  <2>1. /\ OneTaskMoves(t, NoTask) /\ task[t].step = "got" /\ shown' = task[t].image
        /\ boxes' = task[t].boxes /\ UNCHANGED <<cocoVars, frames, pos, hurried, failed>>
    BY <1>12, LoadedTask
  <2>2. OneAtATime => /\ TaskOfPage(NoTask, shown', frames'[pos']) /\ \A b \in boxes' : b.on = shown'
                      /\ frames'[pos'] = shown'
    BY <2>1, NoTaskIsTask DEF TaskOfPage, OneAtATime
  <2> QED BY <1>10, <2>1, <2>2
<1>13. ASSUME NEW t \in Tasks, Saved(t)
       PROVE  DocsOnFrames' /\ OneAtATime'
  <2>1. /\ task[t].step = "saved" /\ frames' = [frames EXCEPT ![pos] = task[t].image]
        /\ UNCHANGED <<cocoVars, shown, boxes, hurried, failed>>
    BY <1>13, SavedTask
  <2>2. PICK x : /\ OneTaskMoves(t, x)
                 /\ \/ pos' \in DOMAIN frames /\ x.step = "get" /\ x.image = frames'[pos']
                    \/ pos' = pos /\ x = NoTask
    BY <1>13, SavedTask
  <2>3. pos \in DOMAIN frames /\ frames'[pos] = task[t].image
    BY <1>0, <2>1, BusyIsOpen DEF PageShape
  <2>4. OneAtATime => /\ TaskOfPage(x, shown', frames'[pos']) /\ \A b \in boxes' : b.on = shown'
                      /\ x.step = "free" => frames'[pos'] = shown'
    BY <2>1, <2>2, <2>3, NoTaskIsTask DEF TaskOfPage, OneAtATime
  <2> QED BY <1>10, <2>1, <2>2, <2>4
<1>14. ASSUME NEW t \in Tasks, TaskFails(t)
       PROVE  FALSE
  BY <1>14 DEF TaskFails, Patient
<1>15. CASE UNCHANGED labelVars
  <2>1. UNCHANGED <<cocoVars, pageVars, hurried, failed>>
    BY <1>15 DEF labelVars
  <2> QED BY <1>a, <1>c, <1>d, <2>1
<1> QED
  BY <1>1, <1>2, <1>3, <1>4, <1>5, <1>7, <1>8, <1>9, <1>11, <1>12, <1>13, <1>14, <1>15, <1>16 DEF LabelNext

---------------------------------------------------------------------------
(* What was acknowledged can be read again, while the programs do not      *)
(* overlap: at each step of a save one of the two files has it.            *)

Keeps(f, ak) == \A i \in DOMAIN ak : Loads(f) /\ f.doc.boxes[i] = ak[i]

Readable(f, b) == IF Loads(f) THEN f ELSE b

SaveIsSafe(w) ==
    /\ writer[w].step \in {"sample", "copy", "truncate"} => file.state = "missing" \/ Loads(file)
    /\ writer[w].step = "truncate" => Keeps(bak, acked)
    /\ Saving(w) => \A i \in DOMAIN acked :
          (w = "server" /\ i = request.image) \/ writer[w].doc.boxes[i] = acked[i]

KeptInv ==
    /\ file.state = "missing" => DOMAIN acked = {}
    /\ ~overlap =>
          /\ ~(Saving("server") /\ Saving("script"))
          /\ Keeps(Readable(file, bak), acked)
          /\ \A w \in Writers : SaveIsSafe(w)

LEMMA SoundLoads ==
    ASSUME CocoShape, DocsSound
    PROVE  /\ file.state = "whole" => Loads(file)
           /\ \A w \in Writers : Loads(Holding(writer[w].doc))
<1>1. \A d \in Store : SoundDoc(d) => Loads(Holding(d))
  BY DEF Loads, SoundDoc, Holding, Store
<1>2. file.state = "whole" => Loads(file)
  <2>1. file.doc.images \subseteq Frames
    BY DEF CocoShape, StoreFile, Store
  <2> QED BY <2>1 DEF Loads, DocsSound, SoundDoc
<1>3. \A w \in Writers : writer[w].doc \in Store
  BY DEF CocoShape, WriterState
<1> QED BY <1>1, <1>2, <1>3 DEF DocsSound

\* The file is torn, and neither reads nor is missing.
LEMMA TornDoesNotLoad == ~Loads(Torn) /\ Torn.state # "missing" /\ \A d : Holding(d).state # "missing"
  BY DEF Loads, Torn, Holding

\* A writer's step within its save.
WriterMoves(w) ==
    \/ CopyToBackup(w) \/ Truncate(w) \/ WriterDies(w)
    \/ w = "script" /\ (ScriptSamples \/ ScriptSaves \/ WriteOut(w))

LEMMA KeptWrite ==
    ASSUME LabelShape, DocsSound, KeptInv, NEW w \in Writers, WriterMoves(w), UNCHANGED <<acked, request, overlap>>
    PROVE  KeptInv'
<1>0. /\ "script" \in Writers /\ "server" \in Writers /\ "server" # "script" /\ Writers = {"server", "script"}
      /\ writer \in [Writers -> WriterState] /\ \A v \in Writers : writer[v] \in WriterState
      /\ CocoShape /\ Saving(w)
  BY DEF WriterMoves, Writers, LabelShape, CocoShape, CopyToBackup, Truncate, WriterDies, ScriptSamples, ScriptSaves, WriteOut, Saving
<1>1. PICK x : writer' = [writer EXCEPT ![w] = x] /\ (x.step # "rest" => x.doc.boxes = writer[w].doc.boxes)
  <2>1. ASSUME NEW st, writer' = [writer EXCEPT ![w].step = st]
        PROVE  \E x : writer' = [writer EXCEPT ![w] = x] /\ (x.step # "rest" => x.doc.boxes = writer[w].doc.boxes)
    <3>1. writer' = [writer EXCEPT ![w] = [writer[w] EXCEPT !.step = st]]
          /\ [writer[w] EXCEPT !.step = st].doc.boxes = writer[w].doc.boxes
      BY <1>0, <2>1 DEF WriterState
    <3> QED BY <3>1
  <2>2. CASE w = "script" /\ ScriptSamples
    <3> DEFINE d == writer["script"].doc
               next == CHOOSE i \in Frames \ d.images : \A j \in Frames \ d.images : i <= j
               e == [d EXCEPT !.images = @ \cup {next}]
    <3>1. writer' = [writer EXCEPT !["script"] = [@ EXCEPT !.doc = e]]
      BY <2>2 DEF ScriptSamples
    <3>2. d \in Store
      BY <1>0 DEF WriterState
    <3> HIDE DEF d, next
    <3>3. e.boxes = d.boxes
      BY <3>2 DEF Store
    <3> HIDE DEF e
    <3>4. writer' = [writer EXCEPT ![w] = [writer["script"] EXCEPT !.doc = e]]
          /\ [writer["script"] EXCEPT !.doc = e].doc = e
      BY <1>0, <2>2, <3>1 DEF WriterState
    <3> QED BY <2>2, <3>3, <3>4 DEF d
  <2>3. CASE WriteOut(w) \/ WriterDies(w)
    BY <2>3 DEF WriteOut, WriterDies, Resting
  <2> QED BY <2>1, <2>2, <2>3 DEF WriterMoves, CopyToBackup, Truncate, ScriptSaves
<1>2. writer'[w] = x /\ \A v \in Writers \ {w} : writer'[v] = writer[v]
  BY <1>0, <1>1
<1>3. file' = file \/ file' = Torn \/ file' = Holding(writer[w].doc)
  BY DEF WriterMoves, CopyToBackup, Truncate, WriterDies, ScriptSamples, ScriptSaves, WriteOut
<1>4. file'.state = "missing" => DOMAIN acked' = {}
  BY <1>3, TornDoesNotLoad DEF KeptInv
<1> SUFFICES ASSUME ~overlap'
             PROVE  /\ ~(Saving("server") /\ Saving("script"))'
                    /\ Keeps(Readable(file', bak'), acked')
                    /\ \A v \in Writers : SaveIsSafe(v)'
  BY <1>4 DEF KeptInv
<1>5. /\ ~overlap /\ ~(Saving("server") /\ Saving("script"))
      /\ Keeps(Readable(file, bak), acked) /\ SaveIsSafe(w)
  BY DEF KeptInv
<1>6. \A v \in Writers \ {w} : writer'[v].step = "rest"
  BY <1>0, <1>2, <1>5 DEF Saving
<1>7. ~(Saving("server") /\ Saving("script"))'
  BY <1>0, <1>6 DEF Saving
<1>8. \A v \in Writers \ {w} : SaveIsSafe(v)'
  BY <1>6 DEF SaveIsSafe, Saving
<1>9. Saving(w)' => \A i \in DOMAIN acked' : (w = "server" /\ i = request'.image) \/ writer'[w].doc.boxes[i] = acked'[i]
  BY <1>0, <1>1, <1>2, <1>5 DEF SaveIsSafe, Saving
<1>10. Keeps(Readable(file', bak'), acked')
       /\ (writer'[w].step \in {"sample", "copy", "truncate"} => file'.state = "missing" \/ Loads(file'))
       /\ (writer'[w].step = "truncate" => Keeps(bak', acked'))
  <2>a. \A st : writer' = [writer EXCEPT ![w].step = st] => writer'[w].step = st
    BY <1>0 DEF WriterState
  <2>1. CASE CopyToBackup(w)
    <3>1. /\ writer[w].step = "copy" /\ writer'[w].step = "truncate" /\ file' = file
          /\ bak' = IF file.state = "missing" THEN bak ELSE file
      BY <2>1, <2>a DEF CopyToBackup, BackupOfFile
    <3>2. file.state = "missing" \/ Loads(file)
      BY <1>5, <3>1 DEF SaveIsSafe
    <3>3. CASE file.state = "missing"
      BY <3>1, <3>3 DEF KeptInv, Keeps
    <3>4. CASE Loads(file) /\ file.state # "missing"
      BY <1>5, <3>1, <3>4 DEF Keeps, Readable
    <3> QED BY <3>2, <3>3, <3>4
  <2>2. CASE Truncate(w)
    <3>1. writer[w].step = "truncate" /\ writer'[w].step = "write" /\ file' = Torn /\ bak' = bak
      BY <2>2, <2>a DEF Truncate
    <3>2. Keeps(bak, acked)
      BY <1>5, <3>1 DEF SaveIsSafe
    <3> QED BY <3>1, <3>2, TornDoesNotLoad DEF Readable
  <2>3. CASE WriterDies(w)
    <3>1. writer'[w].step = "rest" /\ file' = file
          /\ (bak' = bak \/ writer[w].step = "copy")
      BY <1>0, <2>3 DEF WriterDies, Resting
    <3>2. CASE bak' = bak
      BY <1>5, <3>1, <3>2
    <3>3. CASE writer[w].step = "copy"
      <4>1. file.state = "missing" \/ Loads(file)
        BY <1>5, <3>3 DEF SaveIsSafe
      <4> QED BY <1>5, <3>1, <4>1 DEF KeptInv, Keeps, Readable
    <3> QED BY <3>1, <3>2, <3>3
  <2>4. CASE w = "script" /\ (ScriptSamples \/ ScriptSaves)
    <3>1. writer'[w].step \in {"sample", "copy"} /\ writer[w].step = "sample" /\ file' = file /\ bak' = bak
      <4>1. CASE ScriptSaves
        BY <2>4, <4>1, <2>a DEF ScriptSaves
      <4>2. CASE ScriptSamples
        <5> DEFINE e == [writer["script"].doc EXCEPT !.images = @ \cup {CHOOSE i \in Frames \ writer["script"].doc.images :
                            \A j \in Frames \ writer["script"].doc.images : i <= j}]
        <5>1. writer' = [writer EXCEPT !["script"] = [@ EXCEPT !.doc = e]] /\ writer["script"].step = "sample"
              /\ file' = file /\ bak' = bak
          BY <4>2 DEF ScriptSamples
        <5> HIDE DEF e
        <5> QED BY <1>0, <2>4, <5>1 DEF WriterState
      <4> QED BY <2>4, <4>1, <4>2
    <3> QED BY <1>5, <3>1 DEF SaveIsSafe
  <2>5. CASE w = "script" /\ WriteOut(w)
    <3>1. writer'[w].step = "rest" /\ file' = Holding(writer[w].doc)
      BY <1>0, <2>5 DEF WriteOut, Resting
    <3>2. Loads(file')
      BY <1>0, <3>1, SoundLoads
    <3>3. \A i \in DOMAIN acked : writer[w].doc.boxes[i] = acked[i]
      BY <1>0, <1>5, <2>5 DEF SaveIsSafe
    <3> QED BY <3>1, <3>2, <3>3 DEF Keeps, Readable, Holding
  <2> QED BY <2>1, <2>2, <2>3, <2>4, <2>5 DEF WriterMoves
<1> QED BY <1>7, <1>8, <1>9, <1>10 DEF SaveIsSafe

\* A program starts with what the file says, and changes at most the frame it saves.
LEMMA KeptLoad ==
    ASSUME LabelShape, KeptInv, NEW w \in Writers, NEW step \in {"sample", "copy"}, NEW d, Holds(w, step, d),
           ~Saving(w), UNCHANGED <<file, bak, acked>>, file.state = "missing" \/ Loads(file),
           \A i \in DOMAIN acked : (w = "server" /\ i = request'.image) \/ d.boxes[i] = file.doc.boxes[i]
    PROVE  KeptInv'
<1>0. /\ "script" \in Writers /\ "server" \in Writers /\ "server" # "script" /\ Writers = {"server", "script"}
      /\ writer \in [Writers -> WriterState]
  BY DEF Writers, LabelShape, CocoShape
<1>1. /\ writer' = [writer EXCEPT ![w] = [step |-> step, doc |-> d]]
      /\ overlap' = (overlap \/ \E v \in Writers \ {w} : Saving(v))
  BY DEF Holds
<1>2. /\ writer'[w].step = step /\ writer'[w].doc = d
      /\ \A v \in Writers \ {w} : writer'[v] = writer[v]
  BY <1>0, <1>1
<1> SUFFICES ASSUME ~overlap'
             PROVE  /\ ~(Saving("server") /\ Saving("script"))'
                    /\ Keeps(Readable(file', bak'), acked')
                    /\ \A v \in Writers : SaveIsSafe(v)'
  BY DEF KeptInv
<1>3. \A v \in Writers \ {w} : writer'[v].step = "rest"
  BY <1>1, <1>2 DEF Saving
<1>4. ~overlap /\ Keeps(Readable(file, bak), acked)
  BY <1>1 DEF KeptInv
<1>5. \A v \in Writers \ {w} : SaveIsSafe(v)'
  BY <1>3 DEF SaveIsSafe, Saving
<1>6. \A i \in DOMAIN acked : (w = "server" /\ i = request'.image) \/ d.boxes[i] = acked[i]
  BY <1>4 DEF Keeps, Readable, KeptInv
<1>7. SaveIsSafe(w)'
  BY <1>2, <1>6 DEF SaveIsSafe
<1>8. ~(Saving("server") /\ Saving("script"))'
  BY <1>0, <1>3 DEF Saving
<1> QED BY <1>4, <1>5, <1>7, <1>8

LEMMA KeptStart ==
    ASSUME LabelShape, KeptInv, NEW t \in Tasks, StartSave(t)
    PROVE  KeptInv'
<1> DEFINE d == WithBoxes(file.doc, task[t].image, task[t].boxes, task[t].seeded)
<1>1. /\ Holds("server", "copy", d) /\ ~Saving("server") /\ UNCHANGED <<file, bak, acked>> /\ Loads(file)
      /\ request'.image = task[t].image
  BY DEF StartSave, BeginSave, SaveRefused
<1>2. \A i \in DOMAIN acked : i = task[t].image \/ d.boxes[i] = file.doc.boxes[i]
  <2>1. file.doc \in Store /\ DOMAIN acked \subseteq Frames
    BY DEF LabelShape, CocoShape, PageShape, StoreFile
  <2>2. task[t].image \in Frames /\ task[t].boxes \in SUBSET PageBox /\ task[t].seeded \in BOOLEAN
    BY <2>1 DEF LabelShape, PageShape, TaskState, StartSave, BeginSave, SaveRefused, Store
  <2> QED BY <2>1, <2>2 DEF WithBoxes, Store
<1> HIDE DEF d
<1> QED BY <1>1, <1>2, KeptLoad DEF Writers

LEMMA KeptScriptLoad ==
    ASSUME LabelShape, KeptInv, ScriptLoads, UNCHANGED acked
    PROVE  KeptInv'
<1>1. /\ Holds("script", "sample", file.doc) /\ ~Saving("script") /\ UNCHANGED <<file, bak, acked>>
      /\ file.state = "missing" \/ Loads(file)
  BY DEF ScriptLoads
<1> QED BY <1>1, KeptLoad DEF Writers

LEMMA KeptFinish ==
    ASSUME LabelShape, DocsSound, KeptInv, FinishSave
    PROVE  KeptInv'
<1> DEFINE d == writer["server"].doc
<1>0. /\ "script" \in Writers /\ "server" \in Writers /\ "server" # "script" /\ Writers = {"server", "script"}
      /\ writer \in [Writers -> WriterState] /\ CocoShape
  BY DEF Writers, LabelShape, CocoShape
<1>1. /\ Saving("server") /\ file' = Holding(d) /\ writer' = [writer EXCEPT !["server"] = Resting]
      /\ UNCHANGED <<bak, overlap>>
  BY DEF FinishSave, WriteOut, Saving
<1>2. Loads(file') /\ file'.state # "missing" /\ file'.doc = d
  BY <1>0, <1>1, SoundLoads, TornDoesNotLoad DEF Holding
<1>3. acked' = Acknowledged(request.image, d.boxes[request.image])
  BY <1>2 DEF FinishSave
<1>4. writer'["server"].step = "rest" /\ writer'["script"] = writer["script"]
  BY <1>0, <1>1 DEF Resting
<1> SUFFICES ASSUME ~overlap'
             PROVE  /\ ~(Saving("server") /\ Saving("script"))'
                    /\ Keeps(Readable(file', bak'), acked')
                    /\ \A v \in Writers : SaveIsSafe(v)'
  BY <1>2 DEF KeptInv
<1>5. ~Saving("script") /\ \A i \in DOMAIN acked : i = request.image \/ d.boxes[i] = acked[i]
  BY <1>0, <1>1 DEF KeptInv, SaveIsSafe
<1>6. \A i \in DOMAIN acked' : d.boxes[i] = acked'[i]
  BY <1>3, <1>5 DEF Acknowledged
<1>7. \A v \in Writers : writer'[v].step = "rest"
  BY <1>0, <1>4, <1>5 DEF Saving
<1> HIDE DEF d
<1> QED BY <1>0, <1>2, <1>6, <1>7 DEF Keeps, Readable, SaveIsSafe, Saving

LEMMA KeptStep ==
    ASSUME LabelShape, DocsSound, KeptInv, [LabelNext]_labelVars
    PROVE  KeptInv'
<1>a. ASSUME UNCHANGED <<cocoVars, acked>>
      PROVE  KeptInv'
  BY <1>a DEF cocoVars, KeptInv, Saving, SaveIsSafe
<1>b. "script" \in Writers /\ "server" \in Writers
  BY DEF Writers
<1>1. CASE ScriptStep /\ PageUnchanged
  <2>1. UNCHANGED acked
    BY <1>1 DEF PageUnchanged
  <2>2. CASE ScriptLoads
    BY <2>1, <2>2, KeptScriptLoad
  <2>3. CASE ~ScriptLoads
    <3>1. UNCHANGED <<request, overlap>>
      BY <1>1, <2>3 DEF ScriptStep, ScriptSamples, ScriptSaves, CopyToBackup, Truncate, WriteOut, WriterDies
    <3>2. WriterMoves("script")
      BY <1>1, <2>3 DEF ScriptStep, WriterMoves
    <3> QED BY <1>b, <2>1, <3>1, <3>2, KeptWrite
  <2> QED BY <2>2, <2>3
<1>2. CASE (CopyToBackup("server") \/ Truncate("server")) /\ PageUnchanged
  <2>1. UNCHANGED <<acked, request, overlap>>
    BY <1>2 DEF PageUnchanged, CopyToBackup, Truncate
  <2>2. WriterMoves("server")
    BY <1>2 DEF WriterMoves
  <2> QED BY <1>b, <2>1, <2>2, KeptWrite
<1>3. CASE RestoreBackup /\ PageUnchanged
  <2>1. /\ UNCHANGED <<acked, bak, writer, request, overlap>> /\ file' = bak /\ Loads(bak) /\ ~Loads(file)
        /\ \A w \in Writers : ~Saving(w)
    BY <1>3 DEF PageUnchanged, RestoreBackup
  <2>2. bak.state # "missing"
    BY <2>1 DEF Loads
  <2> QED BY <1>b, <2>1, <2>2 DEF KeptInv, Keeps, Readable, SaveIsSafe, Saving
<1>4. CASE FinishSave
  BY <1>4, KeptFinish
<1>5. CASE ServerDies
  <2> DEFINE t == request.task
  <2>1. WriterDies("server") /\ UNCHANGED <<acked, overlap>> /\ request' = NoRequest
    BY <1>5 DEF ServerDies, WriterDies
  <2>2. file' = file /\ (bak' = bak \/ writer["server"].step = "copy") /\ Saving("server")
        /\ writer' = [writer EXCEPT !["server"] = Resting]
    BY <2>1 DEF WriterDies
  <2>3. writer'["server"].step = "rest" /\ writer'["script"] = writer["script"] /\ Writers = {"server", "script"}
    BY <2>2 DEF LabelShape, CocoShape, Resting, Writers
  <2>4. file'.state = "missing" => DOMAIN acked' = {}
    BY <2>1, <2>2 DEF KeptInv
  <2>5. ASSUME ~overlap'
        PROVE  /\ ~(Saving("server") /\ Saving("script"))'
               /\ Keeps(Readable(file', bak'), acked')
               /\ \A v \in Writers : SaveIsSafe(v)'
    <3>1. /\ ~Saving("script") /\ Keeps(Readable(file, bak), acked)
          /\ writer["server"].step = "copy" => file.state = "missing" \/ Loads(file)
      BY <1>b, <2>1, <2>2, <2>5 DEF KeptInv, SaveIsSafe
    <3>2. \A v \in Writers : writer'[v].step = "rest"
      BY <2>3, <3>1 DEF Saving
    <3>3. Keeps(Readable(file', bak'), acked')
      BY <2>1, <2>2, <3>1 DEF KeptInv, Keeps, Readable
    <3> QED BY <1>b, <3>2, <3>3 DEF SaveIsSafe, Saving
  <2> QED BY <2>4, <2>5 DEF KeptInv
<1>6. ASSUME NEW t \in Tasks, StartSave(t)
      PROVE  KeptInv'
  BY <1>6, KeptStart
<1>7. ASSUME NEW t \in Tasks, RefuseSave(t) \/ AnswerLoad(t) \/ Loaded(t) \/ Saved(t) \/ TaskFails(t)
      PROVE  KeptInv'
  BY <1>7, <1>a DEF RefuseSave, AnswerLoad, Loaded, Saved, TaskFails
<1>8. CASE Boot \/ Draw \/ Narrow \/ DeleteAll \/ MarkSeeded \/ PressSave \/ PressMove \/ PressSeed
  BY <1>8, <1>a DEF Boot, Draw, Narrow, DeleteAll, MarkSeeded, PressSave, PressMove, PressSeed
<1>9. CASE UNCHANGED labelVars
  BY <1>9, <1>a DEF labelVars
<1> QED BY <1>1, <1>2, <1>3, <1>4, <1>5, <1>6, <1>7, <1>8, <1>9 DEF LabelNext

---------------------------------------------------------------------------
(* The specification. *)

LabelPageInv == LabelShape /\ DocsSound /\ PageSound /\ PatientInv /\ KeptInv

LEMMA LabelPageInvInit == LabelInit => LabelPageInv
<1> SUFFICES ASSUME LabelInit
             PROVE  LabelPageInv
  OBVIOUS
<1>1. /\ file = Missing /\ bak = Missing /\ writer = [w \in Writers |-> Resting]
      /\ crashes = 0 /\ overlap = FALSE /\ open = FALSE /\ frames = << >> /\ pos = 1
      /\ shown = 0 /\ boxes = {} /\ seeded = FALSE /\ task = [t \in Tasks |-> NoTask]
      /\ acked = << >> /\ hurried = FALSE /\ failed = FALSE /\ disowned = {}
  BY DEF LabelInit, CocoInit
<1>2. \A w \in Writers : ~Saving(w)
  BY <1>1 DEF Saving, Resting
<1>3. Quiet /\ \A t \in Tasks : task[t] = NoTask /\ task[t].step = "free"
  BY <1>1, NoTaskIsTask DEF Quiet
<1>4. DOMAIN acked = {} /\ DOMAIN frames = {}
  BY <1>1
<1>5. LabelShape
  <2>1. CocoShape
    BY <1>1, NoStoreIsStore DEF CocoShape
  <2>2. frames \in [DOMAIN frames -> Nat]
    BY <1>1, <1>4
  <2>3. PageShape
    <3>1. task \in [Tasks -> TaskState] /\ DOMAIN acked \subseteq Frames /\ DOMAIN frames \subseteq Nat
      BY <1>1, <1>4, NoTaskIsTask
    <3>2. pos \in Int /\ shown \in Nat /\ boxes \subseteq PageBox
      BY <1>1
    <3>3. open = FALSE /\ seeded \in BOOLEAN /\ hurried \in BOOLEAN /\ failed \in BOOLEAN
      BY <1>1
    <3> QED BY <2>2, <3>1, <3>2, <3>3 DEF PageShape
  <2> QED BY <1>1, <1>2, <1>3, <2>1, <2>3 DEF LabelShape, SaveIsOfTask, ClosedPageRests, Writers
<1>6. SoundDoc(NoStore) /\ DocOnFrames(NoStore)
  BY DEF SoundDoc, DocOnFrames, NoStore
<1>7. DocsSound /\ DocsOnFrames
  BY <1>1, <1>6 DEF DocsSound, DocsOnFrames, Missing, Resting
<1>8. PageSound /\ OneAtATime
  BY <1>1, <1>3 DEF PageSound, OneAtATime, TaskOfPage
<1>9. KeptInv
  <2>1. \A w \in Writers : SaveIsSafe(w)
    BY <1>1, <1>2, <1>4 DEF SaveIsSafe, Resting, Missing, Keeps
  <2> QED BY <1>2, <1>4, <2>1 DEF KeptInv, Keeps, Writers
<1> QED BY <1>5, <1>7, <1>8, <1>9 DEF LabelPageInv, PatientInv

LEMMA LabelPageInvStep == LabelPageInv /\ [LabelNext]_labelVars => LabelPageInv'
  BY LabelShapeStep, SoundStep, PatientStep, KeptStep DEF LabelPageInv

LEMMA LabelPageInvHolds == LabelSpec => []LabelPageInv
<1> QED BY LabelPageInvInit, LabelPageInvStep, PTL DEF LabelSpec

\* What a save was answered with 200 for can be read again, from the file or
\* from its backup, at every step of every save and after every crash, as long
\* as one program does not load the store while the other saves it; and a file
\* that is whole always loads (CocoStore.save, POST /api/labels/frame, label.js).
THEOREM SavesAreKept == LabelSpec => []SavedIsKept
<1>1. LabelPageInv => SavedIsKept
  <2> SUFFICES ASSUME LabelPageInv
               PROVE  SavedIsKept
    OBVIOUS
  <2>1. LabelsKept
    BY DEF LabelPageInv, KeptInv, LabelsKept, Keeps, Readable
  <2>2. WholeFileLoads
    BY SoundLoads DEF LabelPageInv, LabelShape, WholeFileLoads
  <2> QED BY <2>1, <2>2 DEF SavedIsKept
<1> QED BY <1>1, LabelPageInvHolds, PTL

\* A box the detector proposed is stored only on a frame that says so, unless the
\* developer himself took that mark off the box's frame (seededchk); and one who waits for each answer stores no box on a frame it was not
\* drawn on, whichever frames are saved, passed over or loaded again
\* (label.js nav, saveCurrent and loadCurrent; api/labels.py).
THEOREM BoxesAreTrue == LabelSpec => []StoredAsDrawn
<1>1. LabelPageInv => StoredAsDrawn
  <2> SUFFICES ASSUME LabelPageInv
               PROVE  StoredAsDrawn
    OBVIOUS
  <2>1. file.doc.images \subseteq Frames
    BY DEF LabelPageInv, LabelShape, CocoShape, StoreFile, Store
  <2>2. SeedingIsRecorded
    BY <2>1 DEF LabelPageInv, DocsSound, SoundDoc, SeedingIsRecorded
  <2>3. PatientBoxesOnTheirFrame
    BY <2>1 DEF LabelPageInv, PatientInv, Patient, DocsOnFrames, DocOnFrames, PatientBoxesOnTheirFrame, BoxesOnTheirFrame
  <2> QED BY <2>2, <2>3 DEF StoredAsDrawn
<1> QED BY <1>1, LabelPageInvHolds, PTL

\* Both: what is labelled is neither lost nor stored as anything else.
THEOREM LabelsStayTrue == LabelSpec => []LabelsAreTrue
<1> QED BY SavesAreKept, BoxesAreTrue, PTL DEF LabelsAreTrue

---------------------------------------------------------------------------
(* The file with its backup implements AnnotationStore. *)

\* Between them the file and its backup always give the store: the backup once it
\* has been copied, and what the script holds while it samples is the store and
\* more frames.
AtomicInv ==
    /\ file.state = "missing" => file = Missing /\ bak = Missing
    /\ ~overlap =>
        /\ writer["script"].step = "sample" => Annotations!Adds(writer["script"].doc)
        /\ \A w \in Writers : writer[w].step = "truncate" => InBackup = StoredNow

InSave(w) == writer[w].step \in {"copy", "truncate", "write"}

LEMMA WhatIsStored ==
    ASSUME LabelPageInv, AtomicInv
    PROVE  /\ Loads(file) => StoredNow = file.doc
           /\ ~Loads(file) => StoredNow = InBackup
           /\ file.state = "missing" => StoredNow = NoStore /\ file.doc = NoStore /\ ~Loads(file)
           /\ \A w \in Writers : ~overlap /\ writer[w].step \in {"sample", "copy", "truncate"} => StoredNow = file.doc
           /\ StoredNow \in Store
<1>1. file.state = "missing" => ~Loads(file) /\ ~Loads(bak) /\ file.doc = NoStore
  BY DEF AtomicInv, Loads, Missing
<1>2. file.doc \in Store /\ bak.doc \in Store /\ NoStore \in Store
  BY NoStoreIsStore DEF LabelPageInv, LabelShape, CocoShape, StoreFile
<1>3. \A w \in Writers : ~overlap /\ writer[w].step \in {"sample", "copy", "truncate"} =>
            file.state = "missing" \/ Loads(file)
  BY DEF LabelPageInv, KeptInv, SaveIsSafe
<1> QED BY <1>1, <1>2, <1>3 DEF StoredNow, InBackup

\* While the programs do not overlap one save is under way at most.
LEMMA OneSaves ==
    ASSUME LabelPageInv, ~overlap, NEW w \in Writers, Saving(w)
    PROVE  /\ \A v \in Writers \ {w} : writer[v].step = "rest"
           /\ BeingSaved = IF InSave(w) THEN {writer[w].doc} ELSE {}
<1>1. \A v \in Writers \ {w} : writer[v].step = "rest"
  BY DEF LabelPageInv, KeptInv, Writers, Saving
<1>2. \A v \in Writers : InSave(v) => v = w
  BY <1>1 DEF InSave
<1> QED BY <1>1, <1>2 DEF BeingSaved, InSave

\* A store that nobody saves.
LEMMA NobodySaves ==
    ASSUME \A w \in Writers : ~Saving(w)
    PROVE  BeingSaved = {}
BY DEF BeingSaved, Saving

AbstractStep == Annotations!Next \/ UNCHANGED <<StoredNow, BeingSaved, overlap>>

\* A step of one writer, while the other rests.
LEMMA AtomicWrite ==
    ASSUME LabelPageInv, AtomicInv, LabelPageInv', NEW w \in Writers, WriterMoves(w) \/ (w = "server" /\ WriteOut(w)),
           UNCHANGED overlap, ~overlap
    PROVE  AtomicInv' /\ AbstractStep
<1> DEFINE step == writer[w].step
           doc == writer[w].doc
           both == IF InSave(w) THEN {doc} ELSE {}
           both2 == IF InSave(w)' THEN {writer'[w].doc} ELSE {}
<1>0. /\ writer \in [Writers -> WriterState] /\ \A v \in Writers : writer[v] \in WriterState
      /\ Writers = {"server", "script"} /\ doc \in Store /\ Saving(w)
      /\ w = "server" => writer[w].step # "sample"
  BY DEF LabelPageInv, LabelShape, CocoShape, Writers, WriterState, WriterMoves, CopyToBackup, Truncate, WriterDies,
         ScriptSamples, ScriptSaves, WriteOut, Saving, SaveIsOfTask
<1>1. BeingSaved = both /\ \A v \in Writers \ {w} : writer[v].step = "rest"
  BY <1>0, OneSaves
<1>2. ASSUME NEW x, writer' = [writer EXCEPT ![w] = x]
      PROVE  /\ writer'[w] = x /\ \A v \in Writers \ {w} : writer'[v] = writer[v]
             /\ BeingSaved' = both2
             /\ x.step # "sample" => writer'["script"].step # "sample"
             /\ x.step # "truncate" => \A v \in Writers : writer'[v].step # "truncate"
  <2>1. writer'[w] = x /\ \A v \in Writers \ {w} : writer'[v] = writer[v]
    BY <1>0, <1>2
  <2>2. \A v \in Writers : InSave(v)' => v = w
    BY <1>1, <2>1 DEF InSave
  <2>3. BeingSaved' = both2
    BY <2>2 DEF BeingSaved, InSave
  <2> QED BY <1>0, <1>1, <2>1, <2>3
<1>3. ASSUME NEW st, writer' = [writer EXCEPT ![w].step = st]
      PROVE  \E x : writer' = [writer EXCEPT ![w] = x] /\ x.step = st /\ x.doc = doc
  <2> DEFINE x == [writer[w] EXCEPT !.step = st]
  <2>1. x.step = st /\ x.doc = doc
    BY <1>0 DEF WriterState
  <2>2. writer' = [writer EXCEPT ![w] = x]
    BY <1>3
  <2> HIDE DEF x
  <2> QED BY <2>1, <2>2
<1>4. CASE CopyToBackup(w)
  <2>1. PICK x : writer' = [writer EXCEPT ![w] = x] /\ x.step = "truncate" /\ x.doc = doc
    BY <1>3, <1>4 DEF CopyToBackup
  <2>2. /\ step = "copy" /\ UNCHANGED <<file, overlap>> /\ bak' = IF file.state = "missing" THEN bak ELSE file
    BY <1>4 DEF CopyToBackup, BackupOfFile
  <2>3. /\ writer'[w] = x /\ BeingSaved' = both2 /\ writer'["script"].step # "sample"
        /\ \A v \in Writers \ {w} : writer'[v].step = "rest"
    BY <1>1, <1>2, <2>1
  <2>4. BeingSaved' = BeingSaved
    BY <1>1, <2>1, <2>2, <2>3 DEF InSave
  <2>5. StoredNow' = StoredNow /\ InBackup' = StoredNow
    <3>1. CASE file.state = "missing"
      BY <2>2, <3>1, WhatIsStored DEF StoredNow, InBackup
    <3>2. CASE file.state # "missing"
      <4>1. Loads(file)
        BY <2>2, <3>2 DEF LabelPageInv, KeptInv, SaveIsSafe
      <4> QED BY <2>2, <3>2, <4>1 DEF StoredNow, InBackup
    <3> QED BY <3>1, <3>2
  <2>6. AtomicInv'
    BY <2>2, <2>3, <2>5 DEF AtomicInv
  <2> QED BY <2>2, <2>4, <2>5, <2>6 DEF AbstractStep
<1>5. CASE Truncate(w)
  <2>1. PICK x : writer' = [writer EXCEPT ![w] = x] /\ x.step = "write" /\ x.doc = doc
    BY <1>3, <1>5 DEF Truncate
  <2>2. step = "truncate" /\ file' = Torn /\ UNCHANGED <<bak, overlap>>
    BY <1>5 DEF Truncate
  <2>3. /\ writer'[w] = x /\ BeingSaved' = both2 /\ writer'["script"].step # "sample"
        /\ \A v \in Writers : writer'[v].step # "truncate"
    BY <1>2, <2>1
  <2>4. BeingSaved' = BeingSaved
    BY <1>1, <2>1, <2>2, <2>3 DEF InSave
  <2>5. StoredNow' = StoredNow /\ file'.state # "missing"
    BY <2>2, TornDoesNotLoad DEF AtomicInv, StoredNow, InBackup
  <2>6. AtomicInv'
    BY <2>3, <2>5 DEF AtomicInv
  <2> QED BY <2>2, <2>4, <2>5, <2>6 DEF AbstractStep
<1>6. CASE WriteOut(w)
  <2>1. writer' = [writer EXCEPT ![w] = Resting] /\ step = "write" /\ file' = Holding(doc)
    BY <1>6 DEF WriteOut
  <2>2. /\ writer'[w] = Resting /\ BeingSaved' = both2 /\ writer'["script"].step # "sample"
        /\ \A v \in Writers : writer'[v].step # "truncate"
    <3>1. Resting.step # "sample" /\ Resting.step # "truncate"
      BY DEF Resting
    <3> QED BY <1>2, <2>1, <3>1
  <2>3. BeingSaved = {doc} /\ BeingSaved' = {}
    BY <1>1, <2>1, <2>2 DEF InSave, Resting
  <2>4. StoredNow' = doc /\ file'.state # "missing"
    <3>1. Loads(Holding(doc)) /\ Holding(doc).doc = doc
      BY SoundLoads DEF LabelPageInv, LabelShape, Holding
    <3> QED BY <2>1, <3>1, TornDoesNotLoad DEF StoredNow
  <2>5. AtomicInv'
    BY <2>2, <2>4 DEF AtomicInv
  <2>6. Annotations!Commit
    BY <2>3, <2>4 DEF Annotations!Commit
  <2> QED BY <2>5, <2>6 DEF AbstractStep, Annotations!Next
<1>7. CASE WriterDies(w)
  <2>1. /\ writer' = [writer EXCEPT ![w] = Resting] /\ UNCHANGED <<file, overlap>>
        /\ bak' = bak \/ (step = "copy" /\ file.state # "missing")
    BY <1>7 DEF WriterDies
  <2>2. /\ writer'[w] = Resting /\ BeingSaved' = both2 /\ writer'["script"].step # "sample"
        /\ \A v \in Writers : writer'[v].step # "truncate"
    <3>1. Resting.step # "sample" /\ Resting.step # "truncate"
      BY DEF Resting
    <3> QED BY <1>2, <2>1, <3>1
  <2>3. BeingSaved' = {}
    BY <2>2 DEF InSave, Resting
  <2>4. StoredNow' = StoredNow
    <3>1. CASE bak' = bak
      BY <2>1, <3>1 DEF StoredNow, InBackup
    <3>2. CASE step = "copy" /\ file.state # "missing"
      <4>1. Loads(file)
        BY <3>2 DEF LabelPageInv, KeptInv, SaveIsSafe
      <4> QED BY <2>1, <4>1 DEF StoredNow
    <3> QED BY <2>1, <3>1, <3>2
  <2>5. AtomicInv'
    BY <2>1, <2>2 DEF AtomicInv
  <2>6. CASE BeingSaved = {}
    BY <2>1, <2>3, <2>4, <2>5, <2>6 DEF AbstractStep
  <2>7. CASE BeingSaved # {}
    <3>1. Annotations!GiveUp
      BY <2>1, <2>3, <2>4, <2>7 DEF Annotations!GiveUp
    <3> QED BY <2>5, <3>1 DEF AbstractStep, Annotations!Next
  <2> QED BY <2>6, <2>7
<1>8. CASE w = "script" /\ ScriptSamples
  <2> DEFINE next == CHOOSE i \in Frames \ doc.images : \A j \in Frames \ doc.images : i <= j
             e == [doc EXCEPT !.images = @ \cup {next}]
             x == [writer[w] EXCEPT !.doc = e]
  <2>1. writer' = [writer EXCEPT ![w] = x] /\ step = "sample" /\ UNCHANGED <<file, bak, overlap>>
    BY <1>0, <1>8 DEF ScriptSamples
  <2> HIDE DEF next
  <2>2. x.step = "sample" /\ x.doc = e
    BY <1>0, <2>1 DEF WriterState
  <2> HIDE DEF x
  <2>3. /\ writer'[w] = x /\ BeingSaved' = both2 /\ \A v \in Writers : writer'[v].step # "truncate"
    BY <1>2, <2>1, <2>2
  <2>4. BeingSaved' = BeingSaved /\ StoredNow' = StoredNow
    BY <1>1, <2>1, <2>2, <2>3 DEF InSave, StoredNow, InBackup
  <2>5. Annotations!Adds(e)
    <3>1. Annotations!Adds(doc)
      BY <1>8, <2>1 DEF AtomicInv
    <3>2. e.images = doc.images \cup {next} /\ e.boxes = doc.boxes /\ e.labelled = doc.labelled /\ e.seeded = doc.seeded
      BY <1>0 DEF Store
    <3> HIDE DEF e
    <3> QED BY <3>1, <3>2 DEF Annotations!Adds
  <2>6. (Annotations!Adds(writer["script"].doc))'
    <3>1. writer'["script"].doc = e
      BY <1>8, <2>2, <2>3
    <3> HIDE DEF e
    <3> QED BY <2>4, <2>5, <3>1 DEF Annotations!Adds
  <2>7. AtomicInv'
    BY <2>1, <2>3, <2>6 DEF AtomicInv
  <2> QED BY <2>1, <2>4, <2>7 DEF AbstractStep
<1>9. CASE w = "script" /\ ScriptSaves
  <2>1. PICK x : writer' = [writer EXCEPT ![w] = x] /\ x.step = "copy" /\ x.doc = doc
    BY <1>3, <1>9 DEF ScriptSaves
  <2>2. step = "sample" /\ UNCHANGED <<file, bak, overlap>>
    BY <1>9 DEF ScriptSaves
  <2>3. /\ writer'[w] = x /\ BeingSaved' = both2 /\ writer'["script"].step # "sample"
        /\ \A v \in Writers : writer'[v].step # "truncate"
    BY <1>2, <2>1
  <2>4. BeingSaved = {} /\ BeingSaved' = {doc} /\ StoredNow' = StoredNow
    BY <1>1, <2>1, <2>2, <2>3 DEF InSave, StoredNow, InBackup
  <2>5. Annotations!Adds(doc)
    BY <1>9, <2>2 DEF AtomicInv
  <2>6. Annotations!Begin
    BY <2>2, <2>4, <2>5 DEF Annotations!Begin
  <2>7. AtomicInv'
    BY <2>2, <2>3 DEF AtomicInv
  <2> QED BY <2>6, <2>7 DEF AbstractStep, Annotations!Next
<1> QED BY <1>4, <1>5, <1>6, <1>7, <1>8, <1>9 DEF WriterMoves

\* A file that is missing was never written, nor copied.
LEMMA MissingStays ==
    ASSUME LabelPageInv, AtomicInv, [LabelNext]_labelVars, file'.state = "missing"
    PROVE  file' = Missing /\ bak' = Missing
<1> DEFINE Kept == file' = file /\ (bak' = bak \/ file.state # "missing")
<1>1. ASSUME Kept
      PROVE  file' = Missing /\ bak' = Missing
  <2>1. file.state = "missing" /\ file' = file /\ bak' = bak
    BY <1>1
  <2> QED BY <2>1 DEF AtomicInv
<1>2. \A w \in Writers : ~ Truncate(w) /\ ~ WriteOut(w)
  BY TornDoesNotLoad DEF Truncate, WriteOut
<1>3. \A w \in Writers : CopyToBackup(w) \/ WriterDies(w) => Kept
  BY DEF CopyToBackup, BackupOfFile, WriterDies
<1>4. "script" \in Writers /\ "server" \in Writers
  BY DEF Writers
<1>5. CASE ScriptStep
  <2>1. ScriptLoads \/ ScriptSamples \/ ScriptSaves => Kept
    BY DEF ScriptLoads, ScriptSamples, ScriptSaves
  <2> HIDE DEF Kept
  <2> QED BY <1>1, <1>2, <1>3, <1>4, <1>5, <2>1 DEF ScriptStep
<1>6. CASE CopyToBackup("server") \/ Truncate("server") \/ ServerDies \/ FinishSave
  <2> HIDE DEF Kept
  <2> QED BY <1>1, <1>2, <1>3, <1>4, <1>6 DEF ServerDies, FinishSave
<1>7. CASE RestoreBackup
  BY <1>7 DEF RestoreBackup, Loads
<1>8. ASSUME NEW t \in Tasks, StartSave(t)
      PROVE  Kept
  BY <1>8 DEF StartSave, BeginSave
<1>9. ASSUME UNCHANGED cocoVars
      PROVE  Kept
  BY <1>9 DEF cocoVars
<1>10. \/ ScriptStep \/ CopyToBackup("server") \/ Truncate("server") \/ ServerDies \/ FinishSave
       \/ RestoreBackup \/ UNCHANGED cocoVars \/ \E t \in Tasks : StartSave(t)
  BY DEF LabelNext, labelVars, Boot, Draw, Narrow, DeleteAll, MarkSeeded, PressSave, PressMove, PressSeed,
         RefuseSave, AnswerLoad, Loaded, Saved, TaskFails
<1> HIDE DEF Kept
<1> QED BY <1>1, <1>5, <1>6, <1>7, <1>8, <1>9, <1>10

\* A program loads the store that is there, and the other one rests.
LEMMA AtomicLoad ==
    ASSUME LabelPageInv, AtomicInv, NEW w \in Writers, NEW step \in {"sample", "copy"}, NEW doc, Holds(w, step, doc),
           ~Saving(w), UNCHANGED <<file, bak>>, file.state = "missing" \/ Loads(file), ~overlap',
           step = "sample" => w = "script" /\ doc = file.doc
    PROVE  /\ UNCHANGED <<StoredNow, overlap>> /\ StoredNow = file.doc
           /\ BeingSaved = {} /\ BeingSaved' = IF step = "copy" THEN {doc} ELSE {}
           /\ AtomicInv'
<1>1. /\ writer' = [writer EXCEPT ![w] = [step |-> step, doc |-> doc]]
      /\ overlap' = (overlap \/ \E v \in Writers \ {w} : Saving(v))
  BY DEF Holds
<1>2. /\ UNCHANGED overlap /\ ~overlap /\ \A v \in Writers : ~Saving(v)
      /\ writer \in [Writers -> WriterState]
  BY <1>1 DEF LabelPageInv, LabelShape, CocoShape
<1>3. /\ writer'[w].step = step /\ writer'[w].doc = doc
      /\ \A v \in Writers \ {w} : writer'[v] = writer[v] /\ writer'[v].step = "rest"
  BY <1>1, <1>2 DEF Saving
<1>4. BeingSaved = {}
  BY <1>2, NobodySaves
<1>5. BeingSaved' = IF step = "copy" THEN {doc} ELSE {}
  BY <1>3 DEF BeingSaved
<1>6. UNCHANGED <<StoredNow, InBackup>> /\ StoredNow = file.doc
  BY WhatIsStored DEF StoredNow, InBackup
<1>7. step = "sample" => Annotations!Adds(doc)
  BY <1>6 DEF Annotations!Adds
<1>8. /\ writer'["script"].step = "sample" => w = "script" /\ step = "sample"
      /\ \A v \in Writers : writer'[v].step # "truncate"
  BY <1>3 DEF Writers
<1>9. (writer["script"].step = "sample" => Annotations!Adds(writer["script"].doc))'
  BY <1>3, <1>6, <1>7, <1>8 DEF Annotations!Adds
<1> QED BY <1>2, <1>4, <1>5, <1>6, <1>8, <1>9 DEF AtomicInv

LEMMA AtomicStart ==
    ASSUME LabelPageInv, AtomicInv, NEW t \in Tasks, StartSave(t), ~overlap'
    PROVE  AtomicInv' /\ AbstractStep
<1> DEFINE doc == WithBoxes(file.doc, task[t].image, task[t].boxes, task[t].seeded)
<1>1. /\ Holds("server", "copy", doc) /\ ~Saving("server") /\ UNCHANGED <<file, bak>> /\ Loads(file)
      /\ task[t].image \in file.doc.images /\ "server" \in Writers
  BY DEF StartSave, BeginSave, SaveRefused, Writers
<1>2. file.doc \in Store /\ task[t].image \in Frames
  BY <1>1 DEF LabelPageInv, LabelShape, CocoShape, StoreFile, Store
<1>3. /\ doc.images = file.doc.images
      /\ doc.labelled = file.doc.labelled \cup {task[t].image}
      /\ doc.seeded \ {task[t].image} = file.doc.seeded \ {task[t].image}
      /\ \A j \in Frames \ {task[t].image} : doc.boxes[j] = file.doc.boxes[j]
  <2> DEFINE rounded == {Rounded(b) : b \in task[t].boxes}
             sd == IF task[t].seeded THEN file.doc.seeded \cup {task[t].image} ELSE file.doc.seeded \ {task[t].image}
             bx == [file.doc.boxes EXCEPT ![task[t].image] = rounded]
             lab == file.doc.labelled \cup {task[t].image}
  <2>1. doc = [file.doc EXCEPT !.boxes = bx, !.labelled = lab, !.seeded = sd]
    BY <1>2 DEF WithBoxes, Store
  <2>2. sd \ {task[t].image} = file.doc.seeded \ {task[t].image}
    OBVIOUS
  <2> HIDE DEF rounded, sd
  <2>3. \A j \in Frames \ {task[t].image} : bx[j] = file.doc.boxes[j]
    BY <1>2 DEF Store
  <2> HIDE DEF bx, lab
  <2>4. doc.images = file.doc.images /\ doc.boxes = bx /\ doc.labelled = lab /\ doc.seeded = sd
    <3> HIDE DEF doc
    <3> QED BY <1>2, <2>1 DEF Store
  <2> QED BY <2>2, <2>3, <2>4 DEF lab
<1> HIDE DEF doc
<1>4. /\ UNCHANGED <<StoredNow, overlap>> /\ StoredNow = file.doc
      /\ BeingSaved = {} /\ BeingSaved' = {doc} /\ AtomicInv'
  BY <1>1, AtomicLoad
<1>5. Annotations!Labels(doc)
  BY <1>1, <1>3, <1>4 DEF Annotations!Labels
<1>6. Annotations!Begin
  BY <1>4, <1>5 DEF Annotations!Begin
<1> QED BY <1>4, <1>6 DEF AbstractStep, Annotations!Next

LEMMA AtomicStep ==
    ASSUME LabelPageInv, AtomicInv, LabelPageInv', [LabelNext]_labelVars
    PROVE  AtomicInv' /\ AbstractStep
<1>0. "script" \in Writers /\ "server" \in Writers
  BY DEF Writers
<1>1. CASE overlap'
  <2>1. AtomicInv'
    BY <1>1, MissingStays DEF AtomicInv
  <2>2. overlap' = TRUE
    BY <1>1 DEF LabelPageInv, LabelShape, CocoShape
  <2> QED BY <2>1, <2>2 DEF AbstractStep, Annotations!Next, Annotations!Race
<1>2. CASE ~overlap'
  <2>1. CASE ScriptLoads
    <3>1. /\ Holds("script", "sample", file.doc) /\ ~Saving("script") /\ UNCHANGED <<file, bak>>
          /\ file.state = "missing" \/ Loads(file)
      BY <2>1 DEF ScriptLoads
    <3>2. /\ UNCHANGED <<StoredNow, overlap>> /\ AtomicInv' /\ BeingSaved = {} /\ BeingSaved' = {}
      BY <1>0, <1>2, <3>1, AtomicLoad
    <3> QED BY <3>2 DEF AbstractStep
  <2>2. ASSUME NEW w \in Writers, WriterMoves(w) \/ (w = "server" /\ WriteOut(w))
        PROVE  AtomicInv' /\ AbstractStep
    <3>1. UNCHANGED overlap
      BY <2>2 DEF WriterMoves, CopyToBackup, Truncate, WriterDies, ScriptSamples, ScriptSaves, WriteOut
    <3> QED BY <1>2, <2>2, <3>1, AtomicWrite
  <2>3. CASE RestoreBackup
    <3>1. /\ file' = bak /\ UNCHANGED <<bak, writer, overlap>> /\ Loads(bak) /\ ~Loads(file)
          /\ \A w \in Writers : ~Saving(w)
      BY <2>3 DEF RestoreBackup
    <3>2. UNCHANGED <<StoredNow, BeingSaved, InBackup>>
      BY <3>1 DEF StoredNow, InBackup, BeingSaved
    <3>3. \A w \in Writers : writer'[w].step = "rest"
      BY <3>1 DEF Saving
    <3>4. file'.state # "missing"
      BY <3>1 DEF Loads
    <3> QED BY <1>0, <3>1, <3>2, <3>3, <3>4 DEF AtomicInv, AbstractStep
  <2>4. CASE UNCHANGED cocoVars
    <3>1. UNCHANGED <<file, bak, writer, overlap>>
      BY <2>4 DEF cocoVars
    <3>2. UNCHANGED <<StoredNow, BeingSaved, InBackup>>
      BY <3>1 DEF StoredNow, InBackup, BeingSaved
    <3>3. AtomicInv'
      BY <3>1, <3>2 DEF AtomicInv, Annotations!Adds
    <3> QED BY <3>1, <3>2, <3>3 DEF AbstractStep
  <2>5. ASSUME NEW t \in Tasks, StartSave(t)
        PROVE  AtomicInv' /\ AbstractStep
    BY <1>2, <2>5, AtomicStart
  <2>6. \/ ScriptLoads \/ RestoreBackup \/ UNCHANGED cocoVars \/ (\E t \in Tasks : StartSave(t))
        \/ \E w \in Writers : WriterMoves(w) \/ (w = "server" /\ WriteOut(w))
    <3>1. ScriptStep => ScriptLoads \/ WriterMoves("script")
      BY DEF ScriptStep, WriterMoves
    <3>2. CopyToBackup("server") \/ Truncate("server") \/ ServerDies \/ FinishSave =>
            WriterMoves("server") \/ WriteOut("server")
      BY DEF ServerDies, FinishSave, WriterMoves
    <3>3. \/ ScriptStep \/ CopyToBackup("server") \/ Truncate("server") \/ ServerDies \/ FinishSave
          \/ RestoreBackup \/ UNCHANGED cocoVars \/ \E t \in Tasks : StartSave(t)
      BY DEF LabelNext, labelVars, Boot, Draw, Narrow, DeleteAll, MarkSeeded, PressSave, PressMove, PressSeed,
             RefuseSave, AnswerLoad, Loaded, Saved, TaskFails
    <3> QED BY <1>0, <3>1, <3>2, <3>3
  <2> QED BY <2>1, <2>2, <2>3, <2>4, <2>5, <2>6
<1> QED BY <1>1, <1>2

LEMMA AtomicInvHolds == LabelSpec => [](LabelPageInv /\ AtomicInv)
<1>1. LabelInit => AtomicInv
  <2> SUFFICES ASSUME LabelInit
               PROVE  AtomicInv
    OBVIOUS
  <2>1. file = Missing /\ bak = Missing /\ writer = [w \in Writers |-> Resting]
    BY DEF LabelInit, CocoInit
  <2>2. \A w \in Writers : writer[w].step = "rest"
    BY <2>1 DEF Resting
  <2> QED BY <2>1, <2>2 DEF AtomicInv, Writers
<1>2. (LabelPageInv /\ AtomicInv) /\ LabelPageInv' /\ [LabelNext]_labelVars => AtomicInv'
  BY AtomicStep
<1> QED BY <1>1, <1>2, LabelPageInvHolds, PTL DEF LabelSpec

\* The annotation file with its backup is a store that each save replaces as a
\* whole or not at all: no copy, no truncation and no crash in the middle of a save
\* shows, as long as the two programs do not overlap (CocoStore.save,
\* CocoStore.load, api/labels.py, scripts/build_eval_frames.py).
THEOREM StoreIsAtomic == LabelSpec => ImplementsAnnotationStore
<1>1. LabelInit => Annotations!Init
  <2> SUFFICES ASSUME LabelInit
               PROVE  Annotations!Init
    OBVIOUS
  <2>1. file = Missing /\ bak = Missing /\ writer = [w \in Writers |-> Resting] /\ overlap = FALSE
    BY DEF LabelInit, CocoInit
  <2>2. StoredNow = NoStore
    BY <2>1 DEF StoredNow, InBackup, Loads, Missing
  <2>3. BeingSaved = {}
    BY <2>1 DEF BeingSaved, Resting
  <2> QED BY <2>1, <2>2, <2>3 DEF Annotations!Init, Annotations!Empty, NoStore
<1>2. (LabelPageInv /\ AtomicInv) /\ (LabelPageInv /\ AtomicInv)' /\ [LabelNext]_labelVars
        => [Annotations!Next]_(Annotations!vars)
  BY AtomicStep DEF AbstractStep, Annotations!vars
<1> QED BY <1>1, <1>2, AtomicInvHolds, PTL DEF LabelSpec, ImplementsAnnotationStore, Annotations!Spec
=============================================================================
