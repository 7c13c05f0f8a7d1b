---------------------------- MODULE BatchStaging ----------------------------
(***************************************************************************)
(* One bulk-upload batch of the Object Learning Studio, from upload to     *)
(* commit or discard: the staging directory and its manifest               *)
(* (objects/batches.py), the HTTP handlers that review and commit it, and  *)
(* the background worker that proposes a box per image                     *)
(* (api/object_batches.py).                                                *)
(*                                                                         *)
(* The handlers run one at a time on the event loop; the worker is another *)
(* thread. _MANIFEST_LOCK is explicit. Every read and every replacement of *)
(* the manifest by the worker is a step of its own, because the clean-up   *)
(* of stale batches takes no lock. A crash can come at any point; the      *)
(* manifest is replaced atomically (os.replace) and survives it, the       *)
(* threads and the lock do not. Any file operation may fail: the error     *)
(* ends the request, or the worker, that met it.                           *)
(***************************************************************************)
EXTENDS Integers, FiniteSets, FiniteSetsExt

CONSTANTS
    Items,        \* positions of the uploaded images: 1 .. n
    MaxCuts       \* bound: uploads, proposals and saves cut short by an error, and
                  \* crashes of the process

ASSUME BatchAssumption ==
    /\ IsFiniteSet(Items) /\ Items # {} /\ Items = 1 .. Cardinality(Items)
    /\ MaxCuts \in Nat

Boxes == {"none", "proposed", "centred", "human"}
ItemStatuses == {"manual_required", "ready", "flagged", "edited"}

\* A manifest entry, as far as review and proposals touch it. (role stands for
\* role, negative_for and conditions, the fields only a reviewer writes.)
Item == [box : Boxes, status : ItemStatuses, confirmed : BOOLEAN, role : {"uploaded", "edited"},
         staged : BOOLEAN]

\* BatchItem as create_batch makes it.
NewItem == [box |-> "none", status |-> "manual_required", confirmed |-> FALSE,
            role |-> "uploaded", staged |-> FALSE]

VARIABLES
    exists,     \* the batch directory with its manifest
    present,    \* the items of the manifest
    item,       \* their entries
    status, processed,   \* of the manifest
    images,     \* staged image files in the directory
    lock,       \* who holds _MANIFEST_LOCK: "free", "worker", "handler"
    \* the request that runs on the event loop
    handler,    \* "none", "stage", "save"
    cursor,     \* the items it has not come to yet
    saved,      \* saved_ids of the save under way
    \* _run_proposals
    worker,     \* its place; "dead" when it was never started, or was ended, by an
                \* error or a crash
    queue,      \* items not proposed yet, of those it read at its start
    fields,     \* the update it has computed for the first of them
    held,       \* the manifest it has loaded and not written back yet
    counted,    \* its local counter processed
    \* history
    commits,    \* samples committed per item
    proposed,   \* items the worker has written a proposal for
    reviewed,   \* items whose last box change, since their proposal, was a reviewer's
    boxedByHuman,  \* items whose last box change of all by a reviewer set a box
    roleEdited, \* items whose role a reviewer changed
    left,       \* how the batch last went away: "", "saved", "discarded", "cleaned"
    cuts        \* errors and crashes so far

manifest == <<exists, present, item, status, processed>>
handlerVars == <<handler, cursor, saved>>
workerVars == <<worker, queue, fields, held, counted>>
history == <<commits, proposed, reviewed, boxedByHuman, roleEdited, left, cuts>>
vars == <<manifest, images, lock, handlerVars, workerVars, history>>

NoFields == [box |-> "none", status |-> "manual_required"]
NoDoc == [present |-> {}, item |-> [i \in Items |-> NewItem], status |-> "", processed |-> 0]
Doc == [present |-> present, item |-> item, status |-> status, processed |-> processed]

Init ==
    /\ exists = FALSE
    /\ present = {} /\ item = [i \in Items |-> NewItem]
    /\ status = "" /\ processed = 0
    /\ images = {}
    /\ lock = "free"
    /\ handler = "none" /\ cursor = {} /\ saved = {}
    /\ worker = "none" /\ queue = {} /\ fields = NoFields /\ held = NoDoc /\ counted = 0
    /\ commits = [i \in Items |-> 0]
    /\ proposed = {} /\ reviewed = {} /\ boxedByHuman = {} /\ roleEdited = {}
    /\ left = ""
    /\ cuts = 0

\* _save: replace the whole manifest, making the directory if it is not there.
Write(doc) ==
    /\ exists' = TRUE
    /\ present' = doc.present
    /\ item' = doc.item
    /\ status' = doc.status
    /\ processed' = doc.processed

\* The directory goes, with everything in it.
Remove(how) ==
    /\ exists' = FALSE
    /\ present' = {} /\ item' = [i \in Items |-> NewItem]
    /\ status' = "" /\ processed' = 0
    /\ images' = {}
    /\ left' = how

First(S) == Min(S)

---------------------------------------------------------------------------
(* create_batch: under the lock the manifest, then each image and its entry; *)
(* then the worker is given the batch.                                       *)

CreateManifest ==
    /\ handler = "none" /\ lock = "free" /\ ~exists /\ left = "" /\ worker = "none"
    /\ lock' = "handler" /\ handler' = "stage" /\ cursor' = Items
    /\ Write([present |-> Items, item |-> [i \in Items |-> NewItem],
              status |-> "processing", processed |-> 0])
    /\ UNCHANGED <<images, saved, workerVars, history>>

StageImage ==
    /\ handler = "stage" /\ cursor # {}
    /\ images' = images \union {First(cursor)}
    /\ Write([Doc EXCEPT !.item[First(cursor)].staged = TRUE])
    /\ cursor' = cursor \ {First(cursor)}
    /\ UNCHANGED <<lock, handler, saved, workerVars, history>>

\* The image, its thumbnail or its entry cannot be written: the request fails, the
\* batch stays as it is, "processing", and no worker is given it.
StageAborts ==
    /\ handler = "stage" /\ cursor # {} /\ cuts < MaxCuts
    /\ cuts' = cuts + 1
    /\ images' \in {images, images \union {First(cursor)}}
    /\ lock' = "free" /\ handler' = "none" /\ cursor' = {}
    /\ worker' = "dead"
    /\ UNCHANGED <<manifest, saved, queue, fields, held, counted, commits, proposed, reviewed,
                   boxedByHuman, roleEdited, left>>

SubmitProposals ==
    /\ handler = "stage" /\ cursor = {}
    /\ lock' = "free" /\ handler' = "none"
    /\ worker' = "queued"
    /\ UNCHANGED <<manifest, images, cursor, saved, queue, fields, held, counted, history>>

---------------------------------------------------------------------------
(* _run_proposals, on the executor's thread. *)

\* The items it will go through, read without the lock; none when the batch has
\* gone while the job was queued.
WorkerStart ==
    /\ worker = "queued"
    /\ worker' = IF exists THEN "compute" ELSE "done"
    /\ queue' = present
    /\ UNCHANGED <<manifest, images, lock, handlerVars, fields, held, counted, history>>

\* Whether the staged image of an item can still be read.
Readable(i) == exists /\ i \in present /\ item[i].staged /\ i \in images

\* Decode, detect, propose, rate: what it will write for the next item, all
\* without the manifest lock but for the reading of the hashes. Whatever fails
\* gives the centred default box.
Compute ==
    /\ worker = "compute" /\ queue # {}
    /\ worker' = "update"
    /\ \/ /\ Readable(First(queue))
          /\ \E s \in {"ready", "flagged", "manual_required"} :
                fields' = [box |-> IF s = "manual_required" THEN "centred" ELSE "proposed",
                           status |-> s]
       \/ fields' = [box |-> "centred", status |-> "manual_required"]
    /\ UNCHANGED <<manifest, images, lock, handlerVars, queue, held, counted, history>>

\* Each with _MANIFEST_LOCK is: take the lock and load ...
\* Mutant: handlers and worker do not exclude each other.
NoExclusion == TRUE

LockFree == lock = "free"

Load(from, to) ==
    /\ worker = from
    /\ worker' = to
    /\ held' = Doc
    /\ UNCHANGED <<manifest, images, handlerVars, queue, fields, history>>

\* ... or give up, when the batch or the item is no longer there.
GiveUp ==
    /\ worker' = "done"
    /\ lock' = "free"
    /\ UNCHANGED <<manifest, images, handlerVars, queue, fields, held, history>>

LoadForUpdate ==
    /\ LockFree
    /\ worker = "update"
    /\ counted' = counted + 1
    /\ IF exists /\ First(queue) \in present
       THEN Load("update", "update_save") /\ lock' = "worker"
       ELSE GiveUp

\* update_item: the entry gets the computed fields, unconfirmed, whatever it
\* held.
WithProposal(doc) ==
    [doc EXCEPT !.item[First(queue)].box = fields.box,
                !.item[First(queue)].status = fields.status,
                !.item[First(queue)].confirmed = FALSE]

SaveUpdate ==
    /\ worker = "update_save"
    /\ Write(WithProposal(held))
    /\ worker' = "progress"
    /\ proposed' = proposed \union {First(queue)}
    /\ reviewed' = reviewed \ {First(queue)}
    /\ UNCHANGED <<images, lock, handlerVars, queue, fields, held, counted, commits, boxedByHuman,
                   roleEdited, left, cuts>>

\* set_progress, under the same lock.
LoadForProgress ==
    /\ worker = "progress"
    /\ UNCHANGED counted
    /\ IF exists THEN Load("progress", "progress_save") /\ UNCHANGED lock ELSE GiveUp

Progress == counted

SaveProgress ==
    /\ worker = "progress_save"
    /\ Write([held EXCEPT !.processed = Progress])
    /\ lock' = "free"
    /\ queue' = queue \ {First(queue)}
    /\ fields' = NoFields /\ held' = NoDoc
    /\ worker' = "compute"
    /\ UNCHANGED <<images, handlerVars, counted, history>>

\* set_status(batch_id, "ready") after the last item.
LoadForStatus ==
    /\ LockFree
    /\ worker = "compute" /\ queue = {}
    /\ UNCHANGED counted
    /\ IF exists THEN Load("compute", "status_save") /\ lock' = "worker" ELSE GiveUp

SaveStatus ==
    /\ worker = "status_save"
    /\ Write([held EXCEPT !.status = "ready"])
    /\ lock' = "free"
    /\ held' = NoDoc
    /\ worker' = "done"
    /\ UNCHANGED <<images, handlerVars, queue, fields, counted, history>>

\* An error the worker does not catch, or answers with a return: of the reading of
\* the hashes and the manifest, or of a write of it, which then stays as it was.
\* Only the proposal itself cannot fail: there every error is caught.
WorkerFails ==
    /\ worker \notin {"none", "done", "dead"} /\ ~(worker = "compute" /\ queue # {})
    /\ cuts < MaxCuts
    /\ cuts' = cuts + 1
    /\ worker' = "dead"
    /\ lock' = IF lock = "worker" THEN "free" ELSE lock
    /\ queue' = {} /\ fields' = NoFields /\ held' = NoDoc /\ counted' = 0
    /\ UNCHANGED <<manifest, images, handlerVars, commits, proposed, reviewed, boxedByHuman,
                   roleEdited, left>>

Worker ==
    \/ WorkerStart \/ Compute \/ LoadForUpdate \/ SaveUpdate \/ LoadForProgress
    \/ SaveProgress \/ LoadForStatus \/ SaveStatus

---------------------------------------------------------------------------
(* patch_item: one handler, under the lock from load to save. *)

Reviewable(i) == handler = "none" /\ LockFree /\ exists /\ i \in present

Patch(i, entry) ==
    /\ Reviewable(i)
    /\ Write([Doc EXCEPT !.item[i] = entry])
    /\ UNCHANGED <<images, lock, handlerVars, workerVars, commits, proposed, left, cuts>>

\* A valid box was drawn, moved or resized.
PatchBox(i) ==
    /\ Patch(i, [item[i] EXCEPT !.box = "human", !.confirmed = TRUE, !.status = "edited"])
    /\ reviewed' = reviewed \union {i}
    /\ boxedByHuman' = boxedByHuman \union {i}
    /\ UNCHANGED roleEdited

\* The box that is there was accepted (or the acceptance taken back).
PatchConfirmed(i, yes) ==
    /\ Patch(i, IF yes THEN [item[i] EXCEPT !.confirmed = TRUE, !.status = "edited"]
                       ELSE [item[i] EXCEPT !.confirmed = FALSE])
    /\ UNCHANGED <<reviewed, boxedByHuman, roleEdited>>

\* The box was deleted.
PatchNoBox(i) ==
    /\ Patch(i, [item[i] EXCEPT !.box = "none", !.confirmed = FALSE,
                                !.status = "manual_required"])
    /\ reviewed' = reviewed \ {i}
    /\ boxedByHuman' = boxedByHuman \ {i}
    /\ UNCHANGED roleEdited

\* Role, conditions or negative_for, the box left alone.
PatchRole(i) ==
    /\ Patch(i, [item[i] EXCEPT !.role = "edited"])
    /\ roleEdited' = roleEdited \union {i}
    /\ UNCHANGED <<reviewed, boxedByHuman>>

---------------------------------------------------------------------------
(* save_batch: under the lock, one item after the other. *)

SaveBegin ==
    /\ handler = "none" /\ LockFree /\ exists
    /\ lock' = "handler" /\ handler' = "save"
    /\ cursor' = present /\ saved' = {}
    /\ UNCHANGED <<manifest, images, workerVars, history>>

Committable(i) == item[i].box # "none" /\ Readable(i)

\* persist_sample succeeds; or the item is skipped, for want of a box or of its
\* image, or because persist_sample refuses it (an HTTPException).
\* Mutant: a committed item is left out of saved_ids.
ForgetSaved(i) == UNCHANGED saved

NoteSaved(i) == saved' = saved \union {i}

SaveItem ==
    /\ handler = "save" /\ cursor # {}
    /\ LET i == First(cursor) IN
          \/ /\ Committable(i)
             /\ commits' = [commits EXCEPT ![i] = @ + 1]
             /\ NoteSaved(i)
          \/ UNCHANGED <<commits, saved>>
    /\ cursor' = cursor \ {First(cursor)}
    /\ UNCHANGED <<manifest, images, lock, handler, workerVars, proposed, reviewed, boxedByHuman,
                   roleEdited, left, cuts>>

\* Mutant: what had no box or no image stays, not what was not saved.
NotCommittable == {i \in present : ~Committable(i)}

NotSaved == present \ saved

\* Any other error, of the commit of an item or of the manifest's last write, ends
\* the request: what is persisted stays persisted, and the manifest is as it was.
SaveAborts ==
    /\ handler = "save" /\ cuts < MaxCuts
    /\ IF cursor # {} THEN Committable(First(cursor)) ELSE NotSaved # {}
    /\ cuts' = cuts + 1
    /\ lock' = "free" /\ handler' = "none" /\ cursor' = {} /\ saved' = {}
    /\ UNCHANGED <<manifest, images, workerVars, commits, proposed, reviewed, boxedByHuman,
                   roleEdited, left>>

\* The manifest is trimmed to what was not saved, or the batch is discarded.
\* Mutant: the status is left as it was.
StatusKept == status

StatusAfterSave == "ready"

SaveFinish ==
    /\ handler = "save" /\ cursor = {}
    /\ lock' = "free" /\ handler' = "none" /\ saved' = {}
    /\ LET rest == NotSaved IN
          \/ /\ rest # {}
             /\ Write([present |-> rest,
                       item |-> [i \in Items |-> IF i \in rest THEN item[i] ELSE NewItem],
                       status |-> StatusAfterSave,
                       processed |-> Min({processed, Cardinality(rest)})])
             /\ UNCHANGED <<images, left>>
          \/ rest = {} /\ Remove("saved")
    /\ UNCHANGED <<cursor, workerVars, commits, proposed, reviewed, boxedByHuman, roleEdited,
                   cuts>>

---------------------------------------------------------------------------
(* discard_batch, the clean-up at Studio entry, and a crash. *)

DiscardBatch ==
    /\ handler = "none" /\ LockFree /\ exists
    /\ Remove("discarded")
    /\ UNCHANGED <<lock, handlerVars, workerVars, commits, proposed, reviewed, boxedByHuman,
                   roleEdited, cuts>>

\* cleanup_stale: a batch older than the TTL, lock or no lock.
CleanupStale ==
    /\ handler = "none" /\ exists
    /\ Remove("cleaned")
    /\ UNCHANGED <<lock, handlerVars, workerVars, commits, proposed, reviewed, boxedByHuman,
                   roleEdited, cuts>>

\* The process dies and starts again: nothing takes the proposals up.
Crash ==
    /\ cuts < MaxCuts
    /\ cuts' = cuts + 1
    /\ lock' = "free" /\ handler' = "none" /\ cursor' = {} /\ saved' = {}
    /\ worker' = IF worker = "done" \/ (worker = "none" /\ ~exists) THEN worker ELSE "dead"
    /\ queue' = {} /\ fields' = NoFields /\ held' = NoDoc /\ counted' = 0
    /\ UNCHANGED <<manifest, images, commits, proposed, reviewed, boxedByHuman, roleEdited, left>>

Create == CreateManifest \/ StageImage \/ StageAborts \/ SubmitProposals
Review == \E i \in Items :
    PatchBox(i) \/ PatchNoBox(i) \/ PatchRole(i) \/ \E yes \in BOOLEAN : PatchConfirmed(i, yes)
Save == SaveBegin \/ SaveItem \/ SaveAborts \/ SaveFinish

Next == Create \/ Worker \/ WorkerFails \/ Review \/ Save \/ DiscardBatch \/ CleanupStale \/ Crash

\* The worker's thread runs, and gets the lock in the end although the handlers
\* ask for it too; a request that has begun goes on to its end. Nobody has to
\* upload, review, save or discard.
Fairness == SF_vars(Worker) /\ WF_vars(StageImage \/ SubmitProposals) /\ WF_vars(SaveItem \/ SaveFinish)

Spec == Init /\ [][Next]_vars
FairSpec == Spec /\ Fairness

---------------------------------------------------------------------------
(* Properties. *)

\* Every variable has its type.
TypeOK ==
    /\ exists \in BOOLEAN
    /\ present \subseteq Items /\ item \in [Items -> Item]
    /\ status \in {"", "processing", "ready"} /\ processed \in 0 .. Cardinality(Items)
    /\ images \subseteq Items
    /\ lock \in {"free", "worker", "handler"}
    /\ handler \in {"none", "stage", "save"}
    /\ cursor \subseteq Items /\ saved \subseteq Items
    /\ worker \in {"none", "queued", "compute", "update", "update_save", "progress",
                   "progress_save", "status_save", "done", "dead"}
    /\ queue \subseteq Items
    /\ commits \in [Items -> Nat]

\* What a reviewer did to an item after its proposal, and any change of role, is
\* never lost to the worker's writes, which replace the whole manifest.
EditsKept ==
    \A i \in present :
        /\ i \in reviewed => item[i].box = "human"
        /\ i \in roleEdited => item[i].role = "edited"

\* A committed item leaves the batch with the save that committed it, so no image
\* is committed twice, but for saves that an error or a crash cut short.
CommittedOnce ==
    /\ \A i \in Items : commits[i] <= 1 + cuts
    /\ handler = "none" /\ cuts = 0 => \A i \in present : commits[i] = 0

\* A batch that was discarded, or saved to its last item, never comes back,
\* although a write of the manifest would make the directory anew.
StaysGone == left \in {"saved", "discarded"} => ~exists

\* Together: a commit is made once, and is the end of the item and of the batch.
CommitIsFinal == CommittedOnce /\ StaysGone

\* A batch whose worker was started, and did not meet an error or a crash, does not
\* stay in "processing": the worker, however many items are saved or discarded under
\* it, saves that are cut short included, or a save, ends it. (Otherwise nothing but
\* a save, a discard or the clean-up does.)
ProcessingEnds ==
    [](worker # "dead") => [](status = "processing" => <>(status # "processing"))

\* What the comment at _MANIFEST_LOCK says: a proposal and a concurrent PATCH do
\* not lose each other, so the box a reviewer drew is the box of the item.
DrawnBoxKept == \A i \in present : i \in boxedByHuman => item[i].box = "human"

\* What the docstring of _run_proposals says: a proposal for every staged image,
\* one that fails not blocking the others.
EveryImageProposed == worker = "done" /\ exists => present \subseteq proposed

---------------------------------------------------------------------------
(* The batch implements a set of images that are reviewed and committed one  *)
(* by one (ReviewedBatch).                                                   *)

\* What a manifest notes of its images.
Noted(those, entries) ==
    [i \in those |-> [box |-> entries[i].box, confirmed |-> entries[i].confirmed, role |-> entries[i].role]]

\* What the worker has loaded it still writes, also when the batch was cleaned up
\* meanwhile.
HasLoaded == worker \in {"update_save", "progress_save", "status_save"}
MayReturn == IF HasLoaded /\ ~exists THEN {Noted(held.present, held.item)} ELSE {}

Reviewed == INSTANCE ReviewedBatch WITH
    Images <- Items,
    batch <- Noted(present, item),
    taken <- saved,
    ended <- left,
    removed <- MayReturn

\* Although worker, handlers, clean-up, errors and crashes cut into each other and
\* every one of them replaces the whole manifest: a step changes what is noted of
\* one image, a save takes out what it committed and nothing else, and nothing
\* comes back but a batch cleaned up under its worker.
ImplementsReviewedBatch == Reviewed!Spec
=============================================================================
