------------------------------ MODULE CocoStore ------------------------------
(***************************************************************************)
(* The annotation store of the evaluation frames: one COCO file            *)
(* (dataset/coco_store.py), rewritten whole at each save after a copy to   *)
(* .bak. Two programs write it: the labelling route (api/labels.py), one   *)
(* request at a time, and scripts/build_eval_frames.py, which adds frames. *)
(* Neither locks out the other. A crash may come between any two steps of  *)
(* a save, and in the middle of copying or writing a file.                 *)
(*                                                                         *)
(* A box records the frame it was drawn on, whether the detector proposed  *)
(* it, and its width: "thin" is positive but rounds to 0.00, which is what *)
(* a save stores and what a load refuses.                                  *)
(***************************************************************************)
EXTENDS Integers, Sequences, FiniteSets

CONSTANTS
    NImages,       \* frames, with ids 1 .. NImages
    MaxCrashes     \* bound: crashes of a writer

ASSUME CocoAssumption == NImages \in Nat /\ MaxCrashes \in Nat

Frames == 1 .. NImages
Writers == {"server", "script"}
Box == [on : Frames, seed : BOOLEAN, width : {"some", "thin", "zero"}]

VARIABLES
    file,      \* the annotation file
    bak,       \* its backup
    writer,    \* per program: where in its save it is, and the store it saves
    request,   \* the request the labelling route is saving
    crashes,
    overlap    \* history: one program held a store while the other saved its own

cocoVars == <<file, bak, writer, request, crashes, overlap>>

\* A store: its frames, their boxes, and which are labelled and seeded.
NoStore == [images |-> {}, boxes |-> [i \in Frames |-> {}], labelled |-> {}, seeded |-> {}]
Missing == [state |-> "missing", doc |-> NoStore]
Torn == [state |-> "torn", doc |-> NoStore]
Holding(doc) == [state |-> "whole", doc |-> doc]
Resting == [step |-> "rest", doc |-> NoStore]
NoRequest == [task |-> 0, image |-> 0, boxes |-> {}, seeded |-> FALSE]

CocoInit ==
    /\ file = Missing /\ bak = Missing
    /\ writer = [w \in Writers |-> Resting]
    /\ request = NoRequest
    /\ crashes = 0 /\ overlap = FALSE

\* CocoStore.load: the file is JSON, and _validate accepts it.
Loads(f) == f.state = "whole" /\ \A i \in f.doc.images : \A b \in f.doc.boxes[i] : b.width /= "zero"

\* What set_frame_boxes stores of a box: width and height rounded to 0.01.
Rounded(b) == IF b.width = "thin" THEN [b EXCEPT !.width = "zero"] ELSE b

\* Boxes set_frame_boxes accepts.
AllSized(boxes) == \A b \in boxes : b.width /= "zero"

\* CocoStore.set_frame_boxes: everything image i had is replaced.
WithBoxes(doc, i, boxes, seeded) ==
    [doc EXCEPT !.boxes[i] = {Rounded(b) : b \in boxes},
                !.labelled = @ \cup {i},
                !.seeded = IF seeded THEN @ \cup {i} ELSE @ \ {i}]

Saving(w) == writer[w].step /= "rest"

\* A program loads the store: it now holds what the file says.
Holds(w, step, doc) ==
    /\ writer' = [writer EXCEPT ![w] = [step |-> step, doc |-> doc]]
    /\ overlap' = (overlap \/ \E v \in Writers \ {w} : Saving(v))

-----------------------------------------------------------------------------
\* scripts/build_eval_frames.py.

ScriptLoads ==
    /\ ~Saving("script")
    /\ file.state = "missing" \/ Loads(file)
    /\ file.doc.images /= Frames
    /\ Holds("script", "sample", file.doc)
    /\ UNCHANGED <<file, bak, request, crashes>>

\* CocoStore.add_image of the next frame.
ScriptSamples ==
    /\ writer["script"].step = "sample"
    /\ LET here == writer["script"].doc.images
           next == CHOOSE i \in Frames \ here : \A j \in Frames \ here : i <= j
       IN  /\ here /= Frames
           /\ writer' = [writer EXCEPT !["script"].doc.images = @ \cup {next}]
    /\ UNCHANGED <<file, bak, request, crashes, overlap>>

ScriptSaves ==
    /\ writer["script"].step = "sample" /\ writer["script"].doc.images /= {}
    /\ writer' = [writer EXCEPT !["script"].step = "copy"]
    /\ UNCHANGED <<file, bak, request, crashes, overlap>>

-----------------------------------------------------------------------------
\* CocoStore.save.

\* Mutant: the backup is not renewed.
OldBackup == bak

BackupOfFile == IF file.state = "missing" THEN bak ELSE file

CopyToBackup(w) ==
    /\ writer[w].step = "copy"
    /\ bak' = BackupOfFile
    /\ writer' = [writer EXCEPT ![w].step = "truncate"]
    /\ UNCHANGED <<file, request, crashes, overlap>>

\* write_text opens the file, which empties it, and then writes it.
Truncate(w) ==
    /\ writer[w].step = "truncate"
    /\ file' = Torn
    /\ writer' = [writer EXCEPT ![w].step = "write"]
    /\ UNCHANGED <<bak, request, crashes, overlap>>

WriteOut(w) ==
    /\ writer[w].step = "write"
    /\ file' = Holding(writer[w].doc)
    /\ writer' = [writer EXCEPT ![w] = Resting]
    /\ UNCHANGED <<bak, crashes, overlap>>

\* The program dies; a copy that was going on is cut short.
WriterDies(w) ==
    /\ Saving(w) /\ crashes < MaxCrashes
    /\ crashes' = crashes + 1
    /\ bak' \in {bak} \cup (IF writer[w].step = "copy" /\ file.state /= "missing" THEN {Torn} ELSE {})
    /\ writer' = [writer EXCEPT ![w] = Resting]
    /\ UNCHANGED <<file, overlap>>

\* The developer puts the backup in place of a file that does not load.
RestoreBackup ==
    /\ file.state /= "missing" /\ ~Loads(file) /\ \A w \in Writers : ~Saving(w)
    /\ Loads(bak)
    /\ file' = bak
    /\ UNCHANGED <<bak, writer, request, crashes, overlap>>

ScriptStep ==
    \/ ScriptLoads \/ ScriptSamples \/ ScriptSaves
    \/ CopyToBackup("script") \/ Truncate("script")
    \/ WriteOut("script") /\ UNCHANGED request
    \/ WriterDies("script") /\ UNCHANGED request

-----------------------------------------------------------------------------
\* POST /api/labels/frame/{id}. The route answers in the same step when it
\* refuses: 500 if the store does not load, 404 for a frame it does not know,
\* 400 for a box without size.
SaveRefused(image, boxes) ==
    \/ ~Loads(file)
    \/ image \notin file.doc.images
    \/ ~AllSized(boxes)

BeginSave(req) ==
    /\ ~Saving("server") /\ ~SaveRefused(req.image, req.boxes)
    /\ request' = req
    /\ Holds("server", "copy", WithBoxes(file.doc, req.image, req.boxes, req.seeded))
    /\ UNCHANGED <<file, bak, crashes>>
=============================================================================
