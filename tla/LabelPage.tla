------------------------------ MODULE LabelPage ------------------------------
(***************************************************************************)
(* The labelling page (static/label/label.js) against the annotation       *)
(* store. Every key that navigates starts an async function of its own:    *)
(* save (if asked), move, load. They share the page's state, and each      *)
(* reads it again after every await. Nothing disables the keys while a     *)
(* request is out, and a request may fail.                                 *)
(***************************************************************************)
EXTENDS CocoStore

CONSTANTS
    NTasks,        \* async functions that may be under way at once
    MaxPresses,    \* bound: keys pressed and buttons clicked
    MaxDrawn       \* bound: boxes drawn or resized

ASSUME LabelAssumption == NTasks \in Nat /\ MaxPresses \in Nat /\ MaxDrawn \in Nat

Tasks == 1 .. NTasks

VARIABLES
    open,      \* the page has loaded its list of frames
    frames,    \* state.frames: the image id of each entry
    pos,       \* state.pos
    shown,     \* the frame whose picture is on the canvas (0: none)
    boxes,     \* state.boxes
    seeded,    \* state.seeded
    task,      \* the async functions
    presses, drawn,
    acked,     \* history: per frame, the boxes of the last save answered with 200
    hurried,   \* history: a key was pressed while a request was out
    disowned,  \* history: frames whose proposals the developer took the mark off
    failed     \* history: a load failed

pageVars == <<open, frames, pos, shown, boxes, seeded, task, presses, drawn>>
labelVars == <<cocoVars, pageVars, acked, hurried, failed, disowned>>

NoTask == [step |-> "free", image |-> 0, dir |-> 0, withSeed |-> FALSE, boxes |-> {}, seeded |-> FALSE]

LabelInit ==
    /\ CocoInit
    /\ open = FALSE /\ frames = << >> /\ pos = 1
    /\ shown = 0 /\ boxes = {} /\ seeded = FALSE
    /\ task = [t \in Tasks |-> NoTask]
    /\ presses = 0 /\ drawn = 0
    /\ acked = << >> /\ hurried = FALSE /\ failed = FALSE /\ disowned = {}

Quiet == \A t \in Tasks : task[t].step = "free"

\* loadCurrent up to its fetch, for the entry at p of the list fs.
LoadTask(fs, p, withSeed) == [NoTask EXCEPT !.step = "get", !.image = fs[p], !.withSeed = withSeed]

\* boot: the list of frames, then the first that is not labelled.
Boot ==
    /\ ~open /\ Loads(file) /\ file.doc.images /= {}
    /\ LET n == Cardinality(file.doc.images)
           todo == {p \in 1 .. n : p \notin file.doc.labelled}
       IN  /\ frames' = [p \in 1 .. n |-> p]
           /\ pos' = IF todo = {} THEN 1 ELSE CHOOSE p \in todo : \A q \in todo : p <= q
    /\ open' = TRUE
    /\ \E t \in Tasks : task' = [task EXCEPT ![t] = LoadTask(frames', pos', FALSE)]
    /\ UNCHANGED <<cocoVars, shown, boxes, seeded, presses, drawn, acked, hurried, failed, disowned>>

-----------------------------------------------------------------------------
\* The developer.

Uses(key) ==
    /\ open /\ shown /= 0
    /\ key => presses < MaxPresses
    /\ presses' = IF key THEN presses + 1 ELSE presses
    /\ hurried' = (hurried \/ ~Quiet)

Draw ==
    /\ Uses(FALSE) /\ drawn < MaxDrawn
    /\ boxes' = boxes \cup {[on |-> shown, seed |-> FALSE, width |-> "some"]}
    /\ drawn' = drawn + 1
    /\ UNCHANGED <<cocoVars, open, frames, pos, shown, seeded, task, acked, failed, disowned>>

\* Dragging a corner of a box onto the opposite one.
Narrow ==
    /\ Uses(FALSE) /\ drawn < MaxDrawn
    /\ \E b \in boxes, w \in {"thin", "zero"} : boxes' = (boxes \ {b}) \cup {[b EXCEPT !.width = w]}
    /\ drawn' = drawn + 1
    /\ UNCHANGED <<cocoVars, open, frames, pos, shown, seeded, task, acked, failed, disowned>>

DeleteAll ==
    /\ Uses(TRUE)
    /\ boxes' = {}
    /\ UNCHANGED <<cocoVars, open, frames, pos, shown, seeded, task, drawn, acked, failed, disowned>>

\* The box "mark this frame as detector-seeded", which the developer may check or
\* clear at any time, whatever boxes are on the canvas.
MarkSeeded ==
    /\ Uses(TRUE)
    /\ seeded' = ~seeded
    /\ disowned' = IF seeded THEN disowned \cup {b.on : b \in {c \in boxes : c.seed}} ELSE disowned
    /\ UNCHANGED <<cocoVars, open, frames, pos, shown, boxes, task, drawn, acked, failed>>

\* saveCurrent sends the boxes wider than a pixel.
Sent(bs) == {b \in bs : b.width = "some"}

\* nav(1, true): saveCurrent up to its fetch.
PressSave ==
    /\ Uses(TRUE)
    /\ \E t \in Tasks :
        /\ task[t].step = "free"
        /\ task' = [task EXCEPT ![t] = [NoTask EXCEPT !.step = "post", !.image = frames[pos],
                        !.dir = 1, !.boxes = Sent(boxes), !.seeded = seeded]]
    /\ UNCHANGED <<cocoVars, open, frames, pos, shown, boxes, seeded, drawn, acked, failed, disowned>>

\* nav(dir, false), nav after saving: the page is at the next frame before it
\* has loaded it.
Moves(t, fs, dir) ==
    IF pos + dir \in DOMAIN fs
      THEN /\ pos' = pos + dir
           /\ task' = [task EXCEPT ![t] = LoadTask(fs, pos + dir, FALSE)]
      ELSE /\ task' = [task EXCEPT ![t] = NoTask]
           /\ UNCHANGED pos

PressMove ==
    /\ Uses(TRUE)
    /\ \E t \in Tasks, dir \in {-1, 1} : task[t].step = "free" /\ Moves(t, frames, dir)
    /\ UNCHANGED <<cocoVars, open, frames, shown, boxes, seeded, drawn, acked, failed, disowned>>

PressSeed ==
    /\ Uses(TRUE)
    /\ \E t \in Tasks :
        /\ task[t].step = "free"
        /\ task' = [task EXCEPT ![t] = LoadTask(frames, pos, TRUE)]
    /\ UNCHANGED <<cocoVars, open, frames, pos, shown, boxes, seeded, drawn, acked, failed, disowned>>

-----------------------------------------------------------------------------
\* The server's side of the requests.

Answer(t, step) == task' = [task EXCEPT ![t].step = step]

StartSave(t) ==
    /\ task[t].step = "post"
    /\ BeginSave([task |-> t, image |-> task[t].image, boxes |-> task[t].boxes, seeded |-> task[t].seeded])
    /\ Answer(t, "saving")
    /\ UNCHANGED <<open, frames, pos, shown, boxes, seeded, presses, drawn, acked, hurried, failed, disowned>>

RefuseSave(t) ==
    /\ task[t].step = "post" /\ ~Saving("server")
    /\ SaveRefused(task[t].image, task[t].boxes)
    /\ Answer(t, "error")
    /\ UNCHANGED <<cocoVars, open, frames, pos, shown, boxes, seeded, presses, drawn, acked, hurried, failed, disowned>>

Acknowledged(image, bs) == [i \in DOMAIN acked \cup {image} |-> IF i = image THEN bs ELSE acked[i]]

\* The route reads the store back for its answer, so it can save and say 500.
FinishSave ==
    LET t == request.task IN
    /\ WriteOut("server")
    /\ request' = NoRequest
    /\ IF Loads(file')
         THEN Answer(t, "saved") /\ acked' = Acknowledged(request.image, file'.doc.boxes[request.image])
         ELSE Answer(t, "error") /\ UNCHANGED acked
    /\ UNCHANGED <<open, frames, pos, shown, boxes, seeded, presses, drawn, hurried, failed, disowned>>

ServerDies ==
    /\ WriterDies("server")
    /\ request' = NoRequest
    /\ Answer(request.task, "error")
    /\ UNCHANGED <<open, frames, pos, shown, boxes, seeded, presses, drawn, acked, hurried, failed, disowned>>

\* _seed_boxes: what the detector may find on frame i.
Proposals(i) == {{}, {[on |-> i, seed |-> TRUE, width |-> "some"]}}

\* GET /api/labels/frame/{id}: the boxes there are, or the detector's.
AnswerLoad(t) ==
    /\ task[t].step = "get" /\ ~Saving("server")
    /\ IF Loads(file) /\ task[t].image \in file.doc.images
         THEN LET i == task[t].image IN
              \E found \in IF task[t].withSeed THEN Proposals(i) ELSE {file.doc.boxes[i]} :
                  task' = [task EXCEPT ![t].step = "got", ![t].boxes = found,
                                       ![t].seeded = i \in file.doc.seeded]
         ELSE Answer(t, "error")
    /\ UNCHANGED <<cocoVars, open, frames, pos, shown, boxes, seeded, presses, drawn, acked, hurried, failed, disowned>>

-----------------------------------------------------------------------------
\* The rest of the async functions.

SeededOnLoad(was, withSeed) == was \/ withSeed

\* Mutant: a frame without boxes leaves the canvas alone.
KeepIfNone(bs) == IF bs = {} THEN boxes ELSE bs

\* state.boxes = src.map(...)
BoxesOnLoad(bs) == bs

\* loadCurrent after its fetch.
Loaded(t) ==
    /\ task[t].step = "got"
    /\ shown' = task[t].image
    /\ boxes' = BoxesOnLoad(task[t].boxes)
    /\ seeded' = SeededOnLoad(task[t].seeded, task[t].withSeed)
    /\ task' = [task EXCEPT ![t] = NoTask]
    /\ UNCHANGED <<cocoVars, open, frames, pos, presses, drawn, acked, hurried, failed, disowned>>

\* saveCurrent after its fetch notes the frame at the position the page is at
\* by now; then nav moves on.
Saved(t) ==
    /\ task[t].step = "saved"
    /\ frames' = [frames EXCEPT ![pos] = task[t].image]
    /\ Moves(t, frames', task[t].dir)
    /\ UNCHANGED <<cocoVars, open, shown, boxes, seeded, presses, drawn, acked, hurried, failed, disowned>>

\* The error is shown in the status line; the page stays as it is.
TaskFails(t) ==
    /\ task[t].step = "error"
    /\ task' = [task EXCEPT ![t] = NoTask]
    /\ failed' = TRUE
    /\ UNCHANGED <<cocoVars, open, frames, pos, shown, boxes, seeded, presses, drawn, acked, hurried, disowned>>

PageUnchanged == UNCHANGED <<pageVars, acked, hurried, failed, disowned>>

LabelNext ==
    \/ ScriptStep /\ PageUnchanged
    \/ (CopyToBackup("server") \/ Truncate("server") \/ RestoreBackup) /\ PageUnchanged
    \/ Boot \/ Draw \/ Narrow \/ DeleteAll \/ MarkSeeded \/ PressSave \/ PressMove \/ PressSeed
    \/ FinishSave \/ ServerDies
    \/ \E t \in Tasks :
        StartSave(t) \/ RefuseSave(t) \/ AnswerLoad(t) \/ Loaded(t) \/ Saved(t) \/ TaskFails(t)

LabelSpec == LabelInit /\ [][LabelNext]_labelVars

-----------------------------------------------------------------------------
\* Properties.

\* While the two programs do not overlap, the boxes of a save that was answered
\* with 200 are in the file; when the file does not load, they are in its backup.
LabelsKept ==
    ~overlap => \A i \in DOMAIN acked :
        LET f == IF Loads(file) THEN file ELSE bak
        IN Loads(f) /\ f.doc.boxes[i] = acked[i]

\* A file that is whole loads: the page never sends a box that is stored as a
\* rectangle without width, which would shut the store until it is repaired.
WholeFileLoads == file.state = "whole" => Loads(file)

\* Boxes the detector proposed are stored as the work of a person only if the
\* developer himself took the mark off their frame: otherwise the frame they are
\* stored for is marked as seeded, also after it is loaded and saved again.
Unclaimed(b) == b.seed /\ b.on \notin disowned

SeedingIsRecorded ==
    \A i \in file.doc.images : (\E b \in file.doc.boxes[i] : Unclaimed(b)) => i \in file.doc.seeded

\* "replace that frame's boxes": the boxes stored for a frame were drawn on it.
BoxesOnTheirFrame == \A i \in file.doc.images : \A b \in file.doc.boxes[i] : b.on = i

\* That holds for a developer who waits for each answer, while no request fails.
PatientBoxesOnTheirFrame == (~hurried /\ ~failed) => BoxesOnTheirFrame

\* Together: what was acknowledged can be read again, ...
SavedIsKept == LabelsKept /\ WholeFileLoads

\* ... and it says of each box what it is and where it was drawn.
StoredAsDrawn == SeedingIsRecorded /\ PatientBoxesOnTheirFrame

\* Both: labels are neither lost nor other than what was labelled.
LabelsAreTrue == SavedIsKept /\ StoredAsDrawn

-----------------------------------------------------------------------------
\* The store with its backup, whatever writes it and wherever it crashes,
\* implements a store that a save replaces as a whole (AnnotationStore).

\* What the backup would give, and what is stored: the file, or else the backup.
InBackup == IF Loads(bak) THEN bak.doc ELSE NoStore
StoredNow == IF Loads(file) THEN file.doc ELSE InBackup

\* What a program has begun to save.
BeingSaved == {writer[w].doc : w \in {v \in Writers : writer[v].step \in {"copy", "truncate", "write"}}}

Annotations == INSTANCE AnnotationStore WITH
    stored <- StoredNow, saving <- BeingSaved, raced <- overlap

\* As long as the two programs do not overlap, a save begins from what is stored,
\* labels one frame or adds frames, and takes effect as a whole or not at all:
\* copy, truncation, write and crash do not show.
ImplementsAnnotationStore == Annotations!Spec
=============================================================================
