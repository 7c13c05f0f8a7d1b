----------------------------- MODULE StudioPage -----------------------------
(***************************************************************************)
(* The Object Learning Studio's page: its state machine                    *)
(* (studio/studio-state.js) and the handlers that drive it, from selecting *)
(* an object to Save and return (studio/studio.js). One thread, but every  *)
(* request, every encoding and every image load awaits, and the user goes  *)
(* on meanwhile.                                                           *)
(*                                                                         *)
(* Images to be saved are numbered as they are chosen or shot; a sample is *)
(* known by the number of its image, and every object starts with sample   *)
(* 0. Boxes and conditions are abstracted to edited or not.                *)
(***************************************************************************)
EXTENDS Naturals, Sequences, FiniteSets, SequencesExt

CONSTANTS
    Objects, NoObject,
    MaxImages,     \* bound: images chosen or shot
    MaxPageCalls   \* bound: requests of the page

ASSUME PageAssumption ==
    NoObject \notin Objects /\ MaxImages \in Nat /\ MaxPageCalls \in Nat

NoSample == MaxImages + 1

VARIABLES
    hasty,       \* does this user act while the page waits: fixed
    st,          \* the state of the state machine
    ctx,         \* its context
    queue,       \* state.uploadQueue
    loading,     \* what img.onload is waiting for: "upload", "inspect" or "nothing"
    waiting,     \* requests and encodings under way
    made,        \* images chosen or shot so far
    requested,   \* requests so far
    samples,     \* saved samples: [object, image]
    left,        \* the page has been left: "no", "warned" or "unwarned"
    fatal,       \* a transition has thrown
    chosenFor,   \* history: image -> the object it was chosen or shot for
    skipped,     \* history: images taken off the queue unsaved
    doubled,     \* history: an image was saved twice
    staged,      \* history: uploads shown, neither saved nor given up by the user
    edited       \* history: the sample inspected has edits that are not saved

pageVars == <<hasty, st, ctx, queue, loading, waiting, made, requested, samples, left, fatal,
              chosenFor, skipped, doubled, staged, edited>>
pageHistory == <<chosenFor, skipped, doubled, staged, edited>>

FreshContext(o) ==
    [objectId |-> o, stage |-> "camera", editing |-> NoSample, pendingUploads |-> 0, dirtyInspect |-> FALSE]

PageInit ==
    /\ hasty \in BOOLEAN
    /\ st = "browsing" /\ ctx = FreshContext(NoObject)
    /\ queue = << >> /\ loading = "nothing" /\ waiting = {} /\ made = 0 /\ requested = 0
    /\ samples = [object : Objects, image : {0}]
    /\ left = "no" /\ fatal = FALSE
    /\ chosenFor = << >> /\ skipped = {} /\ doubled = FALSE /\ staged = {} /\ edited = FALSE

MayPress == left = "no" /\ (hasty \/ (waiting = {} /\ loading = "nothing"))

-----------------------------------------------------------------------------
\* The state machine.

Table == [s \in {"browsing", "object_selected", "capturing", "reviewing"} |->
    CASE s = "browsing"        -> {"select", "save_and_return"}
      [] s = "object_selected" -> {"select", "capture", "review", "save_and_return"}
      [] s = "capturing"       -> {"select", "capture", "review", "back_to_camera", "discard", "save_and_return"}
      [] s = "reviewing"       -> {"select", "review", "back_to_camera", "discard", "save_and_return"}]

Target(t) == CASE t = "capture" -> "capturing" [] t = "review" -> "reviewing"
               [] t = "save_and_return" -> "browsing" [] OTHER -> "object_selected"

HasPending == ctx.pendingUploads > 0 \/ ctx.dirtyInspect

\* dispatch: an unknown transition throws, and the page shows a fatal error.
Dispatch(t, context) ==
    IF t \in Table[st] THEN st' = Target(t) /\ ctx' = context /\ UNCHANGED fatal
    ELSE fatal' = TRUE /\ UNCHANGED <<st, ctx>>

-----------------------------------------------------------------------------
\* selectObject, also at the end of creating one.
SelectObject(o) ==
    /\ MayPress
    /\ queue' = << >>
    /\ Dispatch("select", FreshContext(o))
    /\ staged' = {} /\ edited' = FALSE
    /\ UNCHANGED <<hasty, loading, waiting, made, requested, samples, left, chosenFor, skipped, doubled>>

\* The upload input; it is hidden while a sample is inspected.
ChooseFiles(n) ==
    /\ MayPress /\ st /= "browsing" /\ ctx.stage /= "inspect" /\ made + n <= MaxImages
    /\ queue' = [i \in 1 .. n |-> made + i]
    /\ chosenFor' = chosenFor \o [i \in 1 .. n |-> ctx.objectId]
    /\ made' = made + n
    /\ loading' = "upload"
    /\ staged' = {}
    /\ UNCHANGED <<hasty, st, ctx, waiting, requested, samples, left, fatal, skipped, doubled, edited>>

AtLeastOne(n) == IF n = 0 THEN 1 ELSE n

\* img.onload of showUpload and of inspectSample; a file that is no image never loads.
ImageLoads ==
    /\ loading /= "nothing" /\ left = "no"
    /\ loading' = "nothing"
    /\ IF loading = "upload"
         THEN /\ Dispatch("capture", [ctx EXCEPT !.stage = "upload", !.editing = NoSample,
                       !.pendingUploads = AtLeastOne(Len(queue)), !.dirtyInspect = FALSE])
              /\ staged' = ToSet(queue)
         ELSE UNCHANGED <<st, ctx, fatal, staged>>
    /\ UNCHANGED <<hasty, queue, waiting, made, requested, samples, left, chosenFor, skipped, doubled, edited>>

ImageFails ==
    /\ loading /= "nothing" /\ left = "no"
    /\ loading' = "nothing"
    /\ UNCHANGED <<hasty, st, ctx, queue, waiting, made, requested, samples, left, fatal, pageHistory>>

-----------------------------------------------------------------------------
\* onCaptureClick.
Sends(kind, image) ==
    /\ requested < MaxPageCalls
    /\ requested' = requested + 1
    /\ waiting' = waiting \cup {[n |-> requested', kind |-> kind, object |-> ctx.objectId, image |-> image]}

Shoot ==
    /\ MayPress /\ ctx.objectId /= NoObject /\ ctx.stage = "camera" /\ made < MaxImages
    /\ Sends("encode", made + 1)
    /\ made' = made + 1 /\ chosenFor' = Append(chosenFor, ctx.objectId)
    /\ UNCHANGED <<hasty, st, ctx, queue, loading, samples, left, fatal, skipped, doubled, staged, edited>>

SaveUpload ==
    /\ MayPress /\ ctx.objectId /= NoObject /\ ctx.stage = "upload" /\ queue /= << >>
    /\ Sends("upload", Head(queue))
    /\ UNCHANGED <<hasty, st, ctx, queue, loading, made, samples, left, fatal, pageHistory>>

SaveInspect ==
    /\ MayPress /\ ctx.objectId /= NoObject /\ ctx.stage = "inspect"
    /\ Sends("patch", ctx.editing)
    /\ UNCHANGED <<hasty, st, ctx, queue, loading, made, samples, left, fatal, pageHistory>>

\* frameToBlob is done: postSample reads the object only now.
Encoded(c) ==
    /\ c.kind = "encode"
    /\ waiting' = (waiting \ {c}) \cup {[c EXCEPT !.kind = "shot", !.object = ctx.objectId]}
    /\ UNCHANGED <<hasty, st, ctx, queue, loading, made, requested, samples, left, fatal, pageHistory>>

\* Mutant: the next upload is shown whether or not this one was saved.
EvenIfRefused(ok) == TRUE

OnlyIfSaved(ok) == ok

\* The answer to a new sample; then, after an upload, nextUpload.
PostAnswered(c, ok) ==
    /\ c.kind \in {"shot", "upload"} /\ (ok => c.object /= NoObject)
    /\ waiting' = waiting \ {c}
    /\ samples' = IF ok THEN samples \cup {[object |-> c.object, image |-> c.image]} ELSE samples
    /\ doubled' = (doubled \/ (ok /\ \E s \in samples : s.image = c.image))
    /\ staged' = IF ok THEN staged \ {c.image} ELSE staged
    /\ IF c.kind = "upload" /\ OnlyIfSaved(ok)
         THEN /\ queue' = IF queue = << >> THEN << >> ELSE Tail(queue)
              /\ skipped' = IF queue = << >> \/ \E s \in samples' : s.image = Head(queue) THEN skipped
                            ELSE skipped \cup {Head(queue)}
              /\ IF queue' /= << >>
                   THEN /\ ctx' = [ctx EXCEPT !.pendingUploads = Len(queue')]
                        /\ loading' = "upload" /\ UNCHANGED <<st, fatal>>
                   ELSE /\ IF st = "capturing" THEN Dispatch("back_to_camera", FreshContext(ctx.objectId))
                           ELSE ctx' = [ctx EXCEPT !.pendingUploads = 0] /\ UNCHANGED <<st, fatal>>
                        /\ UNCHANGED loading
         ELSE UNCHANGED <<queue, skipped, ctx, loading, st, fatal>>
    /\ UNCHANGED <<hasty, made, requested, left, chosenFor, edited>>

-----------------------------------------------------------------------------
\* The review strip and the inspector.
InspectSample(s) ==
    /\ MayPress /\ st /= "browsing" /\ s \in samples /\ s.object = ctx.objectId
    /\ Dispatch("review", [ctx EXCEPT !.stage = "inspect", !.editing = s.image,
                               !.pendingUploads = 0, !.dirtyInspect = FALSE])
    /\ loading' = "inspect"
    /\ edited' = FALSE
    /\ UNCHANGED <<hasty, queue, waiting, made, requested, samples, left, chosenFor, skipped, doubled, staged>>

\* The box is moved or a condition changed. (A change of the role alone is not noted
\* as pending, and is not modelled.)
EditSample ==
    /\ MayPress /\ ctx.stage = "inspect"
    /\ edited' = TRUE
    /\ ctx' = [ctx EXCEPT !.dirtyInspect = TRUE]
    /\ UNCHANGED <<hasty, st, queue, loading, waiting, made, requested, samples, left, fatal,
                   chosenFor, skipped, doubled, staged>>

DirtyAfterPatch(ok) == ctx.dirtyInspect /\ ~ok

PatchAnswered(c, ok) ==
    /\ c.kind = "patch"
    /\ waiting' = waiting \ {c}
    /\ ctx' = [ctx EXCEPT !.dirtyInspect = DirtyAfterPatch(ok)]
    /\ edited' = (edited /\ (hasty \/ ~ok))
    /\ UNCHANGED <<hasty, st, queue, loading, made, requested, samples, left, fatal,
                   chosenFor, skipped, doubled, staged>>

DiscardSample ==
    /\ MayPress /\ ctx.editing /= NoSample
    /\ Sends("delete", ctx.editing)
    /\ UNCHANGED <<hasty, st, ctx, queue, loading, made, samples, left, fatal, pageHistory>>

\* discardInspect goes on whether or not the sample could be deleted.
DeleteAnswered(c, ok) ==
    /\ c.kind = "delete"
    /\ waiting' = waiting \ {c}
    /\ samples' = IF ok THEN samples \ {[object |-> c.object, image |-> c.image]} ELSE samples
    /\ Dispatch("discard", FreshContext(ctx.objectId))
    /\ edited' = FALSE
    /\ UNCHANGED <<hasty, queue, loading, made, requested, left, chosenFor, skipped, doubled, staged>>

\* Escape, and the inspector's Back button.
BackToCamera ==
    /\ MayPress /\ st \in {"capturing", "reviewing"}
    /\ Dispatch("back_to_camera", FreshContext(ctx.objectId))
    /\ staged' = IF st = "capturing" THEN {} ELSE staged
    /\ edited' = FALSE
    /\ UNCHANGED <<hasty, queue, loading, waiting, made, requested, samples, left, chosenFor, skipped, doubled>>

\* Deleting the object: back to browsing.
DeleteObject ==
    /\ MayPress /\ st /= "browsing"
    /\ Sends("drop", NoSample)
    /\ UNCHANGED <<hasty, st, ctx, queue, loading, made, samples, left, fatal, pageHistory>>

ObjectDropped(c) ==
    /\ c.kind = "drop"
    /\ waiting' = waiting \ {c}
    /\ Dispatch("save_and_return", FreshContext(NoObject))
    /\ staged' = {} /\ edited' = FALSE
    /\ UNCHANGED <<hasty, queue, loading, made, requested, samples, left, chosenFor, skipped, doubled>>

-----------------------------------------------------------------------------
\* saveAndReturn: a warning, if something is pending; then the page is left.
SaveAndReturn ==
    /\ MayPress
    /\ left' = IF HasPending THEN "warned" ELSE "unwarned"
    /\ Dispatch("save_and_return", FreshContext(NoObject))
    /\ UNCHANGED <<hasty, queue, loading, waiting, made, requested, samples, pageHistory>>

PageNext ==
    \/ \E o \in Objects : SelectObject(o)
    \/ \E n \in 1 .. 2 : ChooseFiles(n)
    \/ ImageLoads \/ ImageFails
    \/ Shoot \/ SaveUpload \/ SaveInspect \/ EditSample \/ DiscardSample
    \/ BackToCamera \/ DeleteObject \/ SaveAndReturn
    \/ \E s \in samples : InspectSample(s)
    \/ /\ left = "no"
       /\ \E c \in waiting :
            \/ Encoded(c) \/ ObjectDropped(c)
            \/ \E ok \in BOOLEAN : PostAnswered(c, ok) \/ PatchAnswered(c, ok) \/ DeleteAnswered(c, ok)

PageSpec == PageInit /\ [][PageNext]_pageVars

-----------------------------------------------------------------------------
\* Properties. A user who acts while the page waits (hasty) breaks the first two.

\* An image chosen or shot for one object is never saved under another, never twice,
\* and never dropped from the queue unsaved.
UploadsKeepTheirObject == ~hasty =>
    /\ \A s \in samples : s.image > 0 => s.object = chosenFor[s.image]
    /\ ~doubled /\ skipped = {}

\* No handler asks for a transition the state machine does not have: the page would
\* stop working.
NeverThrows == ~hasty => ~fatal

\* An edited box or condition that is not saved is pending, so leaving warns of it.
EditsArePending == ~hasty /\ edited /\ left = "no" => HasPending

\* "Save & Return warns before discarding any pending (staged / unsaved) sample"
\* (studio.js:19-20).
LeavingWarns == ~hasty /\ left = "unwarned" => staged = {}

\* Together: for a user who waits, the page keeps, files and announces what is
\* unsaved, and goes on working.
PageKeepsWork == UploadsKeepTheirObject /\ NeverThrows /\ EditsArePending
=============================================================================
