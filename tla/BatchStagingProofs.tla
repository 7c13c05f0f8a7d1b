------------------------- MODULE BatchStagingProofs -------------------------
(***************************************************************************)
(* Proofs about BatchStaging, for a batch of any size and any number of    *)
(* errors and crashes.                                                     *)
(***************************************************************************)
EXTENDS BatchStaging, FiniteSetTheorems, WellFoundedInduction, TLAPS

\* The manifests that are written: the entries of present items are entries.
WellFormed(doc) == doc.present \in SUBSET Items /\ doc.item \in [Items -> Item]

\* What the worker holds is a record with the fields of a manifest.
Formed(doc) == doc = [present |-> doc.present, item |-> doc.item, status |-> doc.status,
                      processed |-> doc.processed]

Shape ==
    /\ exists \in BOOLEAN
    /\ WellFormed(Doc) /\ WellFormed(held) /\ Formed(held)
    /\ cursor \in SUBSET Items /\ saved \in SUBSET Items
    /\ commits \in [Items -> Nat] /\ cuts \in Nat
    /\ fields.box \in Boxes /\ fields.status \in ItemStatuses

\* The worker holds the lock from the load of an item to the save of its progress,
\* and about the status; a handler holds it while it stages or saves.
Writing == worker \in {"update_save", "progress", "progress_save", "status_save"}
Locking ==
    /\ Writing => lock = "worker"
    /\ handler # "none" => lock = "handler"

\* Before its proposals are asked for, a batch has been touched by its upload only.
Fresh ==
    /\ worker = "none" =>
          /\ handler \in {"none", "stage"} /\ left = ""
          /\ handler = "none" => ~exists
          /\ reviewed = {} /\ roleEdited = {} /\ \A i \in Items : commits[i] = 0
    /\ handler = "stage" => left = "" /\ worker = "none"

\* What a manifest keeps of the reviewer's edits.
Keeps(doc) ==
    \A i \in doc.present :
        /\ i \in reviewed => doc.item[i].box = "human"
        /\ i \in roleEdited => doc.item[i].role = "edited"

KeptInHands == Keeps(Doc) /\ (HasLoaded => Keeps(held))

\* Each image was committed at most once for every save that was cut short, and
\* once more if the save under way, or one that finished, has it.
OnceEach ==
    /\ \A i \in Items : commits[i] <= cuts + 1
    /\ handler # "save" => \A i \in present : commits[i] <= cuts
    /\ HasLoaded => \A i \in held.present : commits[i] <= cuts
    /\ handler = "save" =>
          /\ \A i \in present \ saved : commits[i] <= cuts
          /\ cursor \subseteq present /\ cursor \intersect saved = {}

\* Who ended the batch for good found nobody about to write it again.
Ended ==
    /\ left \in {"saved", "discarded"} => ~exists /\ ~HasLoaded
    /\ handler = "save" => exists

Inv == Shape /\ Locking /\ Fresh /\ KeptInHands /\ OnceEach /\ Ended

---------------------------------------------------------------------------
(* The first of a set of items. *)

Less == {ij \in Nat \X Nat : ij[1] < ij[2]}

LEMMA LessIsWellFounded == IsWellFoundedOn(Less, Nat)
  BY NatLessThanWellFounded DEF OpToRel, Less

LEMMA FirstIsMember == ASSUME NEW S \in SUBSET Items, S # {} PROVE First(S) \in S
<1>1. S \subseteq Nat
  <2>1. Cardinality(Items) \in Nat /\ Items = 1 .. Cardinality(Items)
    BY BatchAssumption, FS_CardinalityType
  <2> QED BY <2>1
<1>2. \E x \in S : \A y \in S : ~ (<<y, x>> \in Less)
  BY <1>1, LessIsWellFounded, WFMin, Zenon
<1>3. PICK x \in S : \A y \in S : ~ (<<y, x>> \in Less)
  BY <1>2
<1>4. \A y \in S : x <= y
  <2> TAKE y \in S
  <2>1. <<y, x>> \in Nat \X Nat
    BY <1>1
  <2>2. ~ (y < x)
    BY <1>3, <2>1 DEF Less
  <2> QED BY <1>1, <2>2
<1> QED BY <1>4 DEF First, Min

---------------------------------------------------------------------------
(* The steps. *)

LEMMA DocsAreFormed == Formed(Doc) /\ Formed(NoDoc)
  BY DEF Formed, Doc, NoDoc

LEMMA InitHolds == Init => Inv
<1> SUFFICES ASSUME Init PROVE Inv
  OBVIOUS
<1> USE DEF Init, NoDoc, NoFields, NewItem
<1>1. Shape
  BY DocsAreFormed DEF Shape, WellFormed, Doc, Item, Boxes, ItemStatuses
<1>2. Locking /\ Fresh /\ Ended
  BY DEF Locking, Fresh, Ended, Writing, HasLoaded
<1>3. KeptInHands
  BY DEF KeptInHands, Keeps, Doc, HasLoaded
<1>4. OnceEach
  <2>1. cuts = 0 /\ commits = [i \in Items |-> 0]
    OBVIOUS
  <2>2. held.present = {} /\ present = {} /\ handler = "none"
    OBVIOUS
  <2> HIDE DEF Init, NoDoc
  <2>3. \A i \in Items : commits[i] <= cuts + 1
    BY <2>1 
  <2> QED BY <2>2, <2>3 DEF OnceEach
<1> QED BY <1>1, <1>2, <1>3, <1>4 DEF Inv

LEMMA CreateStep == Inv /\ Create => Inv'
<1> SUFFICES ASSUME Inv, Create PROVE Inv'
  OBVIOUS
<1> USE DEF Inv, workerVars, history
<1>1. CASE CreateManifest
  <2> USE <1>1 DEF CreateManifest, Write
  <2>1. Shape'
    BY DEF Shape, WellFormed, Doc, Item, NewItem, Boxes, ItemStatuses
  <2>2. Locking' /\ Fresh' /\ Ended'
    BY DEF Locking, Fresh, Ended, Writing, HasLoaded
  <2>3. KeptInHands'
    BY DEF KeptInHands, Keeps, Doc, HasLoaded, Fresh
  <2>4. OnceEach'
    <3>1. worker = "none" /\ ~HasLoaded' /\ handler' = "stage" /\ present' = Items
          /\ commits' = commits /\ cuts' = cuts
      BY DEF HasLoaded
    <3> HIDE DEF CreateManifest, Write
    <3>2. cuts \in Nat
      BY DEF Shape
    <3>3. \A i \in Items : commits[i] = 0
      BY <3>1 DEF Fresh
    <3>4. \A i \in Items : commits'[i] <= cuts' /\ commits'[i] <= cuts' + 1
      BY <3>1, <3>2, <3>3
    <3> QED BY <3>1, <3>4 DEF OnceEach
  <2> QED BY <2>1, <2>2, <2>3, <2>4
<1>2. CASE StageImage
  <2> USE <1>2 DEF StageImage, Write
  <2>0. present' = present /\ item' = [item EXCEPT ![First(cursor)].staged = TRUE]
    BY DEF Doc
  <2>1. Shape'
    <3>1. First(cursor) \in Items /\ item \in [Items -> Item] /\ present \in SUBSET Items
      BY FirstIsMember DEF Shape, WellFormed, Doc
    <3>2. [item[First(cursor)] EXCEPT !.staged = TRUE] \in Item
      BY <3>1 DEF Item
    <3>3. item' \in [Items -> Item]
      BY <2>0, <3>1, <3>2
    <3> QED BY <2>0, <3>1, <3>3 DEF Shape, WellFormed, Doc
  <2>2. Locking' /\ Fresh' /\ Ended'
    BY DEF Locking, Fresh, Ended, Writing, HasLoaded
  <2>3. KeptInHands'
    BY <2>0 DEF KeptInHands, Keeps, Doc, HasLoaded, Fresh
  <2>4. OnceEach'
    BY <2>0 DEF OnceEach, HasLoaded
  <2> QED BY <2>1, <2>2, <2>3, <2>4
<1>4. CASE StageAborts
  <2>1. /\ handler = "stage" /\ handler' = "none" /\ lock' = "free" /\ cursor' = {} /\ worker' = "dead"
        /\ cuts' = cuts + 1
        /\ UNCHANGED <<exists, present, item, status, processed, saved, fields, held, commits,
                       reviewed, roleEdited, left>>
    BY <1>4 DEF StageAborts, manifest
  <2>2. worker = "none" /\ ~HasLoaded /\ ~HasLoaded' /\ ~Writing' /\ Doc' = Doc
    BY <2>1 DEF Fresh, HasLoaded, Writing, Doc
  <2>3. Shape' /\ KeptInHands'
    BY <2>1, <2>2 DEF Shape, KeptInHands, Keeps
  <2>4. Locking' /\ Fresh' /\ Ended'
    BY <2>1, <2>2 DEF Locking, Fresh, Ended
  <2>5. OnceEach'
    BY <2>1, <2>2 DEF OnceEach, Shape, WellFormed, Doc
  <2> QED BY <2>3, <2>4, <2>5
<1>3. CASE SubmitProposals
  BY <1>3 DEF SubmitProposals, manifest, Shape, WellFormed, Doc, Locking, Fresh, KeptInHands, Keeps,
              OnceEach, Ended, Writing, HasLoaded
<1> QED BY <1>1, <1>2, <1>3, <1>4 DEF Create

\* The steps of the worker that read or write the manifest.
LEMMA WorkerStep == Inv /\ Worker => Inv'
<1> SUFFICES ASSUME Inv, Worker PROVE Inv'
  OBVIOUS
<1> USE DEF Inv, manifest, handlerVars, history
<1>1. CASE WorkerStart \/ Compute
  <2>1. UNCHANGED <<manifest, handlerVars, lock, held, history>> /\ ~Writing /\ ~Writing'
        /\ worker # "none" /\ worker' # "none"
    BY <1>1 DEF WorkerStart, Compute, Writing
  <2>2. fields'.box \in Boxes /\ fields'.status \in ItemStatuses
    BY <1>1 DEF WorkerStart, Compute, Shape, Boxes, ItemStatuses
  <2>3. Doc' = Doc
    BY <2>1 DEF Doc
  <2>4. ~HasLoaded /\ ~HasLoaded'
    BY <2>1 DEF Writing, HasLoaded
  <2> QED BY <2>1, <2>2, <2>3, <2>4
          DEF Shape, WellFormed, Locking, Fresh, KeptInHands, Keeps, OnceEach, Ended
<1>2. ASSUME GiveUp, (worker \in {"update", "compute"} /\ lock = "free") \/ worker = "progress"
      PROVE  Inv'
  <2>1. worker' = "done" /\ lock' = "free"
        /\ UNCHANGED <<exists, present, item, status, processed, handler, cursor, saved, fields, held,
                      commits, reviewed, roleEdited, left, cuts>>
    BY <1>2 DEF GiveUp
  <2>2. ~HasLoaded' /\ ~Writing' /\ worker # "none"
    BY <1>2, <2>1 DEF HasLoaded, Writing
  <2>3. handler = "none"
    BY <1>2 DEF Locking, Writing
  <2>4. Doc' = Doc /\ cuts' = cuts
    BY <2>1 DEF Doc
  <2>5. Shape'
    BY <2>1, <2>4 DEF Shape
  <2>6. Locking' /\ Fresh' /\ Ended'
    BY <2>1, <2>2, <2>3 DEF Locking, Fresh, Ended
  <2>7. KeptInHands'
    BY <2>1, <2>2, <2>4 DEF KeptInHands, Keeps
  <2>8. OnceEach'
    BY <2>1, <2>2, <2>3, <2>4 DEF OnceEach
  <2> QED BY <2>5, <2>6, <2>7, <2>8
<1>3. ASSUME NEW from \in {"update", "progress", "compute"},
             NEW to \in {"update_save", "progress_save", "status_save"},
             Load(from, to), exists, lock' = "worker",
             lock = "free" \/ from = "progress"
      PROVE  Inv'
  <2>1. handler = "none" /\ Doc' = Doc /\ held' = Doc /\ UNCHANGED <<manifest, handlerVars, fields, history>>
        /\ worker = from /\ worker' = to
    BY <1>3 DEF Load, Doc, Locking, Writing
  <2>2. Shape'
    <3>1. Formed(held)'
      BY <2>1, DocsAreFormed DEF Formed
    <3> QED BY <2>1, <3>1 DEF Shape
  <2>3. Locking' /\ Fresh' /\ Ended'
    BY <1>3, <2>1 DEF Locking, Fresh, Ended
  <2>4. KeptInHands'
    BY <2>1 DEF KeptInHands, Keeps
  <2>5. held'.present = present
    BY <2>1 DEF Doc
  <2>6. OnceEach'
    BY <2>1, <2>5 DEF OnceEach
  <2> QED BY <2>2, <2>3, <2>4, <2>6
<1>4. CASE LoadForUpdate
  BY <1>2, <1>3, <1>4 DEF LoadForUpdate, LockFree
<1>5. CASE LoadForProgress
  BY <1>2, <1>3, <1>5 DEF LoadForProgress, Locking, Writing
<1>6. CASE LoadForStatus
  BY <1>2, <1>3, <1>6 DEF LoadForStatus, LockFree
\* What is written back is what was loaded, but for the fields of one proposal.
<1>7. CASE SaveUpdate
  <2> DEFINE f == First(queue)
  <2>1. /\ exists' = TRUE /\ present' = held.present
        /\ item' = WithProposal(held).item
        /\ worker = "update_save" /\ worker' = "progress" /\ reviewed' = reviewed \ {f}
        /\ UNCHANGED <<lock, handlerVars, fields, held, commits, roleEdited, left, cuts>>
    <3>1. WithProposal(held).present = held.present
      BY DEF WithProposal
    <3> QED BY <1>7, <3>1 DEF SaveUpdate, Write
  <2>10. HasLoaded /\ WellFormed(held)
    BY <2>1 DEF HasLoaded, Shape
  <2>11. /\ item' \in [Items -> Item]
         /\ \A j \in Items : item'[j].role = held.item[j].role
         /\ \A j \in Items : j # f => item'[j] = held.item[j]
    <3> DEFINE e == [held.item[f] EXCEPT !.box = fields.box, !.status = fields.status, !.confirmed = FALSE]
    <3>1. held.item \in [Items -> Item] /\ fields.box \in Boxes /\ fields.status \in ItemStatuses
      BY <2>10 DEF WellFormed, Shape
    <3>2. item' = [held.item EXCEPT ![f] = e]
      <4>1. held = [present |-> held.present, item |-> held.item, status |-> held.status,
                    processed |-> held.processed]
        BY DEF Shape, Formed
      <4> QED BY <2>1, <3>1, <4>1 DEF WithProposal
    <3>3. f \in Items => e \in Item /\ e.role = held.item[f].role
      BY <3>1 DEF Item
    <3> HIDE DEF e
    <3>4. \A i \in Items : item'[i] = IF i = f THEN e ELSE held.item[i]
      BY <3>1, <3>2
    <3>5. item' \in [Items -> Item]
      BY <3>1, <3>2, <3>3
    <3> QED BY <3>3, <3>4, <3>5
  <2> HIDE DEF f
  <2>2. HasLoaded /\ ~HasLoaded' /\ Writing /\ Writing'
    BY <2>1 DEF HasLoaded, Writing
  <2>3. Doc'.present = held.present /\ Doc'.item = item'
    BY <2>1 DEF Doc
  <2>4. Shape'
    <3>1. WellFormed(Doc)'
      BY <2>1, <2>3, <2>10, <2>11 DEF WellFormed
    <3> QED BY <2>1, <3>1 DEF Shape
  <2>5. Locking' /\ Fresh' /\ Ended'
    BY <2>1, <2>2 DEF Locking, Fresh, Ended
  <2>6. Keeps(held) /\ WellFormed(held)
    BY <2>2 DEF KeptInHands, Shape
  <2>7. KeptInHands'
    <3> SUFFICES ASSUME NEW i \in Doc'.present
                 PROVE  /\ i \in reviewed' => Doc'.item[i].box = "human"
                        /\ i \in roleEdited' => Doc'.item[i].role = "edited"
      BY <2>2 DEF KeptInHands, Keeps
    <3>1. i \in held.present /\ i \in Items
      BY <2>3, <2>6 DEF WellFormed
    <3>2. /\ i \in reviewed => held.item[i].box = "human"
          /\ i \in roleEdited => held.item[i].role = "edited"
      BY <2>6, <3>1 DEF Keeps
    <3>3. i \in reviewed' => i # f /\ i \in reviewed
      BY <2>1
    <3>4. i \in roleEdited' => i \in roleEdited
      BY <2>1
    <3>5. item'[i].role = held.item[i].role /\ (i # f => item'[i] = held.item[i])
      BY <2>11, <3>1, Zenon
    <3>6. Doc'.item[i] = item'[i]
      BY <2>3, Zenon
    <3> QED BY <3>2, <3>3, <3>4, <3>5, <3>6
  <2>8. OnceEach'
    BY <2>1, <2>2 DEF OnceEach, Locking
  <2> QED BY <2>4, <2>5, <2>7, <2>8
<1>8. CASE SaveProgress \/ SaveStatus
  <2>1. /\ exists' = TRUE /\ present' = held.present /\ item' = held.item
        /\ worker \in {"progress_save", "status_save"} /\ worker' \in {"compute", "done"}
        /\ held' = NoDoc /\ lock' = "free" /\ fields' \in {fields, NoFields}
        /\ UNCHANGED <<handlerVars, history>>
    BY <1>8 DEF SaveProgress, SaveStatus, Write
  <2>2. HasLoaded /\ ~HasLoaded' /\ Writing /\ ~Writing'
    BY <2>1 DEF HasLoaded, Writing
  <2>3. Doc'.present = held.present /\ Doc'.item = held.item
    BY <2>1 DEF Doc
  <2>4. WellFormed(NoDoc) /\ NoFields.box \in Boxes /\ NoFields.status \in ItemStatuses
    BY DEF WellFormed, NoDoc, NoFields, NewItem, Item, Boxes, ItemStatuses
  <2>5. Shape'
    <3>1. Formed(held)' /\ WellFormed(held)'
      BY <2>1, <2>4, DocsAreFormed DEF Formed
    <3>2. WellFormed(Doc)'
      BY <2>3 DEF Shape, WellFormed
    <3> QED BY <2>1, <2>4, <3>1, <3>2 DEF Shape
  <2>6. Locking' /\ Fresh' /\ Ended'
    BY <2>1, <2>2 DEF Locking, Fresh, Ended
  <2>7. KeptInHands'
    BY <2>1, <2>2, <2>3 DEF KeptInHands, Keeps
  <2>8. OnceEach'
    BY <2>1, <2>2 DEF OnceEach, Locking
  <2> QED BY <2>5, <2>6, <2>7, <2>8
<1> QED BY <1>1, <1>4, <1>5, <1>6, <1>7, <1>8 DEF Worker

LEMMA ReviewStep == Inv /\ Review => Inv'
<1> SUFFICES ASSUME Inv, NEW i \in Items, NEW yes \in BOOLEAN,
                    PatchBox(i) \/ PatchNoBox(i) \/ PatchRole(i) \/ PatchConfirmed(i, yes)
             PROVE  Inv'
  BY DEF Review
<1> USE DEF Inv, handlerVars, workerVars
<1>1. /\ handler = "none" /\ lock = "free" /\ exists /\ i \in present
      /\ exists' = TRUE /\ present' = present
      /\ UNCHANGED <<lock, handler, cursor, saved, worker, fields, held, commits, left, cuts>>
  BY DEF PatchBox, PatchNoBox, PatchRole, PatchConfirmed, Patch, Reviewable, LockFree, Write, Doc
<1>2. ~Writing /\ ~HasLoaded /\ ~HasLoaded' /\ worker # "none"
  BY <1>1 DEF Locking, Writing, HasLoaded, Fresh
<1>3. \E e \in Item :
        /\ item' = [item EXCEPT ![i] = e]
        /\ i \in reviewed' => e.box = "human"
        /\ i \in roleEdited' => e.role = "edited"
  <2>0. item[i] \in Item
    BY DEF Shape, WellFormed, Doc
  <2>00. /\ i \in reviewed => item[i].box = "human"
         /\ i \in roleEdited => item[i].role = "edited"
    BY <1>1 DEF KeptInHands, Keeps, Doc
  <2>1. CASE PatchBox(i)
    <3>1. item' = [item EXCEPT ![i] = [item[i] EXCEPT !.box = "human", !.confirmed = TRUE, !.status = "edited"]]
      BY <2>1 DEF PatchBox, Patch, Write, Doc
    <3>2. [item[i] EXCEPT !.box = "human", !.confirmed = TRUE, !.status = "edited"] \in Item
      BY <2>0 DEF Item, Boxes, ItemStatuses
    <3> QED BY <2>0, <2>00, <2>1, <3>1, <3>2 DEF PatchBox, Item
  <2>2. CASE PatchNoBox(i)
    <3>1. item' = [item EXCEPT ![i] = [item[i] EXCEPT !.box = "none", !.confirmed = FALSE,
                                                      !.status = "manual_required"]]
      BY <2>2 DEF PatchNoBox, Patch, Write, Doc
    <3>2. [item[i] EXCEPT !.box = "none", !.confirmed = FALSE, !.status = "manual_required"] \in Item
      BY <2>0 DEF Item, Boxes, ItemStatuses
    <3> QED BY <2>0, <2>00, <2>2, <3>1, <3>2 DEF PatchNoBox, Item
  <2>3. CASE PatchRole(i)
    <3>1. item' = [item EXCEPT ![i] = [item[i] EXCEPT !.role = "edited"]]
      BY <2>3 DEF PatchRole, Patch, Write, Doc
    <3>2. [item[i] EXCEPT !.role = "edited"] \in Item
      BY <2>0 DEF Item
    <3> QED BY <2>0, <2>00, <2>3, <3>1, <3>2 DEF PatchRole, Item
  <2>4. CASE PatchConfirmed(i, yes)
    <3> DEFINE e == IF yes THEN [item[i] EXCEPT !.confirmed = TRUE, !.status = "edited"]
                           ELSE [item[i] EXCEPT !.confirmed = FALSE]
    <3>1. item' = [item EXCEPT ![i] = e]
      BY <2>4 DEF PatchConfirmed, Patch, Write, Doc
    <3>2. e \in Item /\ e.box = item[i].box /\ e.role = item[i].role
      BY <2>0 DEF Item, ItemStatuses
    <3> QED BY <2>00, <2>4, <3>1, <3>2 DEF PatchConfirmed
  <2> QED BY <2>1, <2>2, <2>3, <2>4
<1>4. \A j \in Items \ {i} : (j \in reviewed' <=> j \in reviewed) /\ (j \in roleEdited' <=> j \in roleEdited)
  BY DEF PatchBox, PatchNoBox, PatchRole, PatchConfirmed
<1>5. PICK e \in Item :
        /\ item' = [item EXCEPT ![i] = e]
        /\ i \in reviewed' => e.box = "human"
        /\ i \in roleEdited' => e.role = "edited"
  BY <1>3
<1>6. Shape'
  BY <1>1, <1>5 DEF Shape, WellFormed, Doc
<1>7. Locking' /\ Fresh' /\ Ended'
  BY <1>1, <1>2 DEF Locking, Fresh, Ended, Writing, HasLoaded
<1>8. KeptInHands'
  BY <1>1, <1>2, <1>4, <1>5 DEF KeptInHands, Keeps, Doc, Shape, WellFormed
<1>9. OnceEach'
  BY <1>1, <1>2 DEF OnceEach
<1> QED BY <1>6, <1>7, <1>8, <1>9

LEMMA SaveStep == Inv /\ Save => Inv'
<1> SUFFICES ASSUME Inv, Save PROVE Inv'
  OBVIOUS
<1> USE DEF Inv, manifest, workerVars
<1>1. CASE SaveBegin
  <2>1. /\ handler = "none" /\ lock = "free" /\ exists /\ handler' = "save" /\ lock' = "handler"
        /\ cursor' = present /\ saved' = {}
        /\ UNCHANGED <<manifest, worker, fields, held, history>>
    BY <1>1 DEF SaveBegin, LockFree
  <2>2. ~HasLoaded /\ ~HasLoaded' /\ ~Writing /\ ~Writing'
    BY <2>1 DEF Locking, Writing, HasLoaded
  <2>3. Doc' = Doc /\ present \in SUBSET Items
    BY <2>1 DEF Doc, Shape, WellFormed
  <2>4. Shape' /\ KeptInHands'
    BY <2>1, <2>2, <2>3 DEF Shape, KeptInHands, Keeps, history
  <2>5. Locking' /\ Fresh' /\ Ended'
    BY <2>1, <2>2 DEF Locking, Fresh, Ended, history
  <2>6. OnceEach'
    BY <2>1, <2>2 DEF OnceEach, history
  <2> QED BY <2>4, <2>5, <2>6
<1>2. CASE SaveItem
  <2> DEFINE f == First(cursor)
  <2>1. f \in cursor
    BY <1>2, FirstIsMember DEF SaveItem, Shape
  <2>2. /\ handler = "save" /\ handler' = "save" /\ cursor' = cursor \ {f}
        /\ UNCHANGED <<manifest, lock, worker, fields, held, reviewed, roleEdited, left, cuts>>
        /\ \/ commits' = [commits EXCEPT ![f] = @ + 1] /\ saved' = saved \union {f}
           \/ UNCHANGED <<commits, saved>>
    BY <1>2 DEF SaveItem, NoteSaved
  <2> HIDE DEF f
  <2>3. lock = "handler" /\ ~HasLoaded /\ ~HasLoaded' /\ ~Writing /\ ~Writing' /\ worker # "none"
    BY <2>2 DEF Locking, Writing, HasLoaded, Fresh
  <2>4. Doc' = Doc
    BY <2>2 DEF Doc
  <2>5. f \in Items /\ f \in present /\ f \notin saved /\ commits[f] <= cuts
    BY <2>1, <2>2 DEF OnceEach, Shape
  <2>6. Shape' /\ KeptInHands'
    BY <2>2, <2>3, <2>4, <2>5 DEF Shape, KeptInHands, Keeps
  <2>7. Locking' /\ Fresh' /\ Ended'
    BY <2>2, <2>3 DEF Locking, Fresh, Ended
  <2>8. cuts \in Nat /\ cuts' = cuts /\ commits \in [Items -> Nat]
        /\ cursor \subseteq present /\ cursor \intersect saved = {}
    BY <2>2 DEF Shape, OnceEach
  <2>9. \A i \in Items : commits'[i] <= cuts + 1
    BY <2>2, <2>5, <2>8 DEF OnceEach
  <2>10. \A i \in present \ saved' : commits'[i] <= cuts
    <3> TAKE i \in present \ saved'
    <3>1. i \in Items /\ i \notin saved /\ commits'[i] = commits[i]
      BY <2>2, <2>5, <2>8 DEF Shape, WellFormed, Doc
    <3> QED BY <2>2, <3>1 DEF OnceEach
  <2>11. cursor' \subseteq present /\ cursor' \intersect saved' = {}
    BY <2>2, <2>8
  <2>12. OnceEach'
    BY <2>2, <2>3, <2>8, <2>9, <2>10, <2>11 DEF OnceEach
  <2> QED BY <2>6, <2>7, <2>12
<1>3. CASE SaveAborts
  <2>1. /\ handler = "save" /\ handler' = "none" /\ lock' = "free" /\ cursor' = {} /\ saved' = {}
        /\ cuts' = cuts + 1
        /\ UNCHANGED <<manifest, worker, fields, held, commits, reviewed, roleEdited, left>>
    BY <1>3 DEF SaveAborts
  <2>2. lock = "handler" /\ ~HasLoaded /\ ~HasLoaded' /\ ~Writing /\ ~Writing' /\ worker # "none"
    BY <2>1 DEF Locking, Writing, HasLoaded, Fresh
  <2>3. Doc' = Doc /\ present \in SUBSET Items
    BY <2>1 DEF Doc, Shape, WellFormed
  <2>4. Shape' /\ KeptInHands'
    BY <2>1, <2>2, <2>3 DEF Shape, KeptInHands, Keeps
  <2>5. Locking' /\ Fresh' /\ Ended'
    BY <2>1, <2>2 DEF Locking, Fresh, Ended
  <2>6. OnceEach'
    BY <2>1, <2>2, <2>3 DEF OnceEach, Shape
  <2> QED BY <2>4, <2>5, <2>6
<1>4. CASE SaveFinish
  <2>1. /\ handler = "save" /\ handler' = "none" /\ lock' = "free" /\ saved' = {}
        /\ UNCHANGED <<cursor, worker, fields, held, commits, reviewed, roleEdited, cuts>>
    BY <1>4 DEF SaveFinish
  <2>2. lock = "handler" /\ exists /\ ~HasLoaded /\ ~HasLoaded' /\ ~Writing /\ ~Writing' /\ worker # "none"
    BY <2>1 DEF Locking, Writing, HasLoaded, Fresh, Ended
  <2>3. \/ /\ exists' = TRUE /\ left' = left
           /\ present' = present \ saved
           /\ item' = [j \in Items |-> IF j \in present \ saved THEN item[j] ELSE NewItem]
        \/ exists' = FALSE /\ present' = {} /\ item' = [j \in Items |-> NewItem]
    BY <1>4 DEF SaveFinish, NotSaved, Write, Remove
  <2>4. present \in SUBSET Items /\ item \in [Items -> Item] /\ NewItem \in Item
    BY DEF Shape, WellFormed, Doc, NewItem, Item, Boxes, ItemStatuses
  <2>5. present' \subseteq present \ saved /\ \A j \in present' : item'[j] = item[j]
    BY <2>3, <2>4
  <2>6. item' \in [Items -> Item]
    BY <2>3, <2>4
  <2>7. Shape'
    BY <2>1, <2>3, <2>4, <2>5, <2>6 DEF Shape, WellFormed, Doc
  <2>8. Keeps(Doc)'
    BY <2>1, <2>5 DEF KeptInHands, Keeps, Doc
  <2>9. Locking' /\ Fresh' /\ Ended'
    BY <2>1, <2>2, <2>3 DEF Locking, Fresh, Ended
  <2>10. OnceEach'
    BY <2>1, <2>2, <2>5 DEF OnceEach
  <2> QED BY <2>2, <2>7, <2>8, <2>9, <2>10 DEF KeptInHands
<1> QED BY <1>1, <1>2, <1>3, <1>4 DEF Save

\* A worker that is ended by an error.
LEMMA FailStep == Inv /\ WorkerFails => Inv'
<1> SUFFICES ASSUME Inv, WorkerFails PROVE Inv'
  OBVIOUS
<1> USE DEF Inv
<1>1. /\ cuts' = cuts + 1 /\ worker # "none" /\ worker' = "dead"
      /\ lock' = IF lock = "worker" THEN "free" ELSE lock
      /\ fields' = NoFields /\ held' = NoDoc
      /\ UNCHANGED <<exists, present, item, status, processed, handler, cursor, saved, commits,
                     reviewed, roleEdited, left>>
  BY DEF WorkerFails, manifest, handlerVars
<1>2. ~HasLoaded' /\ ~Writing'
  BY <1>1 DEF HasLoaded, Writing
<1>3. Doc' = Doc /\ present \in SUBSET Items
  BY <1>1 DEF Doc, Shape, WellFormed
<1>4. WellFormed(NoDoc) /\ NoFields.box \in Boxes /\ NoFields.status \in ItemStatuses
  BY DEF WellFormed, NoDoc, NoFields, NewItem, Item, Boxes, ItemStatuses
<1>5. Formed(held)'
  BY <1>1, DocsAreFormed DEF Formed
<1>6. Shape' /\ KeptInHands'
  BY <1>1, <1>2, <1>3, <1>4, <1>5 DEF Shape, KeptInHands, Keeps
<1>7. Locking' /\ Fresh' /\ Ended'
  BY <1>1, <1>2 DEF Locking, Fresh, Ended
<1>8. OnceEach'
  BY <1>1, <1>2, <1>3 DEF OnceEach, Shape
<1> QED BY <1>6, <1>7, <1>8

LEMMA EndStep == Inv /\ (DiscardBatch \/ CleanupStale \/ Crash) => Inv'
<1> SUFFICES ASSUME Inv, DiscardBatch \/ CleanupStale \/ Crash PROVE Inv'
  OBVIOUS
<1> USE DEF Inv
<1>1. CASE DiscardBatch \/ CleanupStale
  <2>1. /\ handler = "none" /\ exists /\ exists' = FALSE /\ present' = {}
        /\ item' = [i \in Items |-> NewItem]
        /\ left' = "cleaned" \/ (left' = "discarded" /\ lock = "free")
        /\ UNCHANGED <<lock, handler, cursor, saved, worker, fields, held, commits, reviewed, roleEdited,
                       cuts>>
    BY <1>1 DEF DiscardBatch, CleanupStale, Remove, LockFree, handlerVars, workerVars
  <2>2. worker # "none" /\ (HasLoaded' <=> HasLoaded) /\ (Writing' <=> Writing)
    BY <2>1 DEF Fresh, HasLoaded, Writing
  <2>3. Doc'.present = {} /\ Doc'.item = item' /\ item' \in [Items -> Item]
    BY <2>1 DEF Doc, NewItem, Item, Boxes, ItemStatuses
  <2>4. Shape'
    BY <2>1, <2>3 DEF Shape, WellFormed
  <2>5. Locking' /\ Fresh'
    BY <2>1, <2>2 DEF Locking, Fresh
  <2>6. Ended'
    BY <2>1, <2>2 DEF Ended, Locking, Writing, HasLoaded
  <2>7. KeptInHands' /\ OnceEach'
    BY <2>1, <2>2, <2>3 DEF KeptInHands, Keeps, OnceEach
  <2> QED BY <2>4, <2>5, <2>6, <2>7
<1>2. CASE Crash
  <2>1. /\ cuts' = cuts + 1 /\ lock' = "free" /\ handler' = "none" /\ cursor' = {} /\ saved' = {}
        /\ worker' \in {"none", "done", "dead"} /\ (worker' = "none" => worker = "none" /\ ~exists)
        /\ fields' = NoFields /\ held' = NoDoc
        /\ UNCHANGED <<exists, present, item, status, processed, commits, reviewed, roleEdited, left>>
    BY <1>2 DEF Crash, manifest
  <2>2. ~HasLoaded' /\ ~Writing'
    BY <2>1 DEF HasLoaded, Writing
  <2>3. Doc' = Doc /\ present \in SUBSET Items
    BY <2>1 DEF Doc, Shape, WellFormed
  <2>4. WellFormed(NoDoc) /\ NoFields.box \in Boxes /\ NoFields.status \in ItemStatuses
    BY DEF WellFormed, NoDoc, NoFields, NewItem, Item, Boxes, ItemStatuses
  <2>10. Formed(held)'
    BY <2>1, DocsAreFormed DEF Formed
  <2>5. Shape' /\ KeptInHands'
    BY <2>1, <2>2, <2>3, <2>4, <2>10 DEF Shape, KeptInHands, Keeps
  <2>6. Locking' /\ Fresh' /\ Ended'
    BY <2>1, <2>2 DEF Locking, Fresh, Ended
  <2>7. OnceEach'
    BY <2>1, <2>2, <2>3 DEF OnceEach, Shape
  <2> QED BY <2>5, <2>6, <2>7
<1> QED BY <1>1, <1>2

LEMMA BatchInvariant == Spec => []Inv
<1>1. Inv /\ UNCHANGED vars => Inv'
  <2> SUFFICES ASSUME Inv, UNCHANGED vars PROVE Inv'
    OBVIOUS
  <2>1. UNCHANGED <<exists, lock, handler, cursor, saved, worker, fields, held, commits, reviewed,
                    roleEdited, left, cuts, present, item, status, processed>>
    BY DEF vars, manifest, handlerVars, workerVars, history
  <2>2. Doc' = Doc /\ cuts' = cuts /\ HasLoaded' = HasLoaded /\ Writing' = Writing
    BY <2>1 DEF Doc, HasLoaded, Writing
  <2>3. Shape' /\ Locking' /\ Fresh' /\ Ended'
    BY <2>1, <2>2 DEF Inv, Shape, Locking, Fresh, Ended
  <2>4. KeptInHands'
    BY <2>1, <2>2 DEF Inv, KeptInHands, Keeps
  <2>5. OnceEach'
    BY <2>1, <2>2 DEF Inv, OnceEach
  <2> QED BY <2>3, <2>4, <2>5 DEF Inv
<1>2. Inv /\ [Next]_vars => Inv'
  BY <1>1, CreateStep, WorkerStep, FailStep, ReviewStep, SaveStep, EndStep DEF Next
<1> QED BY <1>2, InitHolds, PTL DEF Spec

---------------------------------------------------------------------------
(* The theorems. *)

\* What a reviewer did after the proposal, and any change of role, survives the
\* worker's replacements of the whole manifest.
THEOREM EditsAreKept == Spec => []EditsKept
<1>1. Inv => EditsKept
  BY DEF Inv, KeptInHands, Keeps, Doc, EditsKept
<1> QED BY <1>1, BatchInvariant, PTL

\* A commit is made once, but for saves cut short, and ends the item; a batch that
\* was discarded or saved never comes back.
THEOREM CommitsAreFinal == Spec => []CommitIsFinal
<1>1. Inv => CommittedOnce
  <2> SUFFICES ASSUME Inv PROVE CommittedOnce
    OBVIOUS
  <2>1. present \in SUBSET Items /\ commits \in [Items -> Nat] /\ cuts \in Nat
    BY DEF Inv, Shape, WellFormed, Doc
  <2> QED BY <2>1 DEF Inv, OnceEach, CommittedOnce
<1>2. Inv => StaysGone
  BY DEF Inv, Ended, StaysGone
<1> QED BY <1>1, <1>2, BatchInvariant, PTL DEF CommitIsFinal

---------------------------------------------------------------------------
(* The batch implements ReviewedBatch. *)

\* A manifest in hand is the one on disk, or of a batch cleaned up meanwhile, whose
\* images have gone; a manifest always has images.
Consistent ==
    /\ exists <=> present # {}
    /\ handler = "stage" => exists
    /\ handler # "save" => saved = {}
    /\ HasLoaded =>
        /\ held.present # {}
        /\ exists => held.present = present /\ held.item = item
        /\ ~exists => left = "cleaned"
    /\ left \in {"", "saved", "discarded", "cleaned"}
    /\ left = "cleaned" => images = {}
    /\ worker \in {"update", "update_save"} => fields.box \in {"proposed", "centred"}

Batch == Noted(present, item)

AbstractStep == Reviewed!Next \/ UNCHANGED <<Batch, commits, saved, left, MayReturn>>

\* The notes of a manifest, and which changes of its entries they show.
LEMMA NotedImages == ASSUME NEW S, NEW e PROVE DOMAIN Noted(S, e) = S
BY DEF Noted

LEMMA SameNotes ==
    ASSUME NEW S, NEW e, NEW f,
           \A i \in S : f[i].box = e[i].box /\ f[i].confirmed = e[i].confirmed /\ f[i].role = e[i].role
    PROVE  Noted(S, f) = Noted(S, e)
BY DEF Noted

LEMMA NoNotes == ASSUME NEW e PROVE Noted({}, e) = Reviewed!Nothing
BY DEF Noted, Reviewed!Nothing

LEMMA UploadStep == Inv /\ Consistent /\ Create => Consistent' /\ AbstractStep
<1> SUFFICES ASSUME Inv, Consistent, Create PROVE Consistent' /\ AbstractStep
  OBVIOUS
<1>1. CASE CreateManifest
  <2>1. /\ handler = "none" /\ ~exists /\ left = "" /\ worker = "none" /\ handler' = "stage"
        /\ exists' /\ present' = Items /\ item' = [i \in Items |-> NewItem]
        /\ UNCHANGED <<images, saved, worker, fields, commits, left>>
    BY <1>1 DEF CreateManifest, Write, workerVars, history
  <2>2. ~HasLoaded /\ ~HasLoaded' /\ MayReturn = {} /\ MayReturn' = {}
    BY <2>1 DEF HasLoaded, MayReturn
  <2>3. Consistent'
    BY <2>1, <2>2, BatchAssumption DEF Consistent
  <2>4. Batch' = [i \in Items |-> Reviewed!Fresh]
    BY <2>1 DEF Batch, Noted, NewItem, Reviewed!Fresh
  <2>5. DOMAIN Batch = {}
    BY <2>1, NotedImages DEF Batch, Consistent
  <2>6. Reviewed!Upload
    BY <2>1, <2>2, <2>4, <2>5 DEF Reviewed!Upload, Reviewed!Waiting, Batch
  <2> QED BY <2>3, <2>6 DEF AbstractStep, Reviewed!Next
<1>2. CASE StageImage
  <2>1. /\ handler = "stage" /\ exists' = TRUE /\ present' = present
        /\ item' = [item EXCEPT ![First(cursor)].staged = TRUE]
        /\ UNCHANGED <<handler, saved, worker, fields, held, commits, left>>
    BY <1>2 DEF StageImage, Write, Doc, workerVars, history
  <2>2. left = "" /\ worker = "none" /\ exists
    BY <2>1 DEF Inv, Fresh, Consistent
  <2>3. ~HasLoaded /\ ~HasLoaded' /\ MayReturn = {} /\ MayReturn' = {}
    BY <2>1, <2>2 DEF HasLoaded, MayReturn
  <2>4. Consistent'
    BY <2>1, <2>2, <2>3 DEF Consistent
  <2>5. \A i \in present : item'[i].box = item[i].box /\ item'[i].confirmed = item[i].confirmed
                            /\ item'[i].role = item[i].role
    <3> TAKE i \in present
    <3>1. item \in [Items -> Item] /\ i \in Items /\ item[i] \in Item
      BY DEF Inv, Shape, WellFormed, Doc
    <3>2. item'[i] = IF i = First(cursor) THEN [item[i] EXCEPT !.staged = TRUE] ELSE item[i]
      BY <2>1, <3>1
    <3> QED BY <3>1, <3>2 DEF Item
  <2>6. Batch' = Batch
    <3>1. Batch' = Noted(present, item')
      BY <2>1 DEF Batch
    <3>2. Noted(present, item') = Noted(present, item)
      BY <2>5, SameNotes
    <3> QED BY <3>1, <3>2 DEF Batch
  <2> QED BY <2>1, <2>3, <2>4, <2>6 DEF AbstractStep
<1>4. CASE StageAborts
  <2>1. /\ handler = "stage" /\ handler' = "none" /\ worker' = "dead"
        /\ UNCHANGED <<exists, present, item, saved, commits, left>>
    BY <1>4 DEF StageAborts, manifest
  <2>2. worker = "none" /\ left = "" /\ saved = {}
    BY <2>1 DEF Inv, Fresh, Consistent
  <2>3. ~HasLoaded /\ ~HasLoaded' /\ MayReturn = {} /\ MayReturn' = {}
    BY <2>1, <2>2 DEF HasLoaded, MayReturn
  <2>4. Consistent'
    BY <2>1, <2>2, <2>3 DEF Consistent
  <2> QED BY <2>1, <2>3, <2>4 DEF AbstractStep, Batch
<1>3. CASE SubmitProposals
  <2>1. /\ handler = "stage" /\ handler' = "none" /\ worker' = "queued"
        /\ UNCHANGED <<exists, present, item, images, saved, fields, held, commits, left>>
    BY <1>3 DEF SubmitProposals, manifest, history
  <2>2. worker = "none"
    BY <2>1 DEF Inv, Fresh
  <2>3. ~HasLoaded /\ ~HasLoaded' /\ MayReturn = {} /\ MayReturn' = {}
    BY <2>1, <2>2 DEF HasLoaded, MayReturn
  <2>4. Consistent'
    BY <2>1, <2>3 DEF Consistent
  <2> QED BY <2>1, <2>3, <2>4 DEF AbstractStep, Batch
<1> QED BY <1>1, <1>2, <1>3, <1>4 DEF Create

\* What the worker writes, over the batch it loaded or after the clean-up.
LEMMA WrittenBack ==
    ASSUME Inv, Consistent, HasLoaded, ~HasLoaded',
           exists' = TRUE, present' = held.present,
           Batch' = Noted(held.present, held.item) \/ Reviewed!Proposes(Noted(held.present, held.item), Batch'),
           UNCHANGED <<commits, saved, left>>
    PROVE  AbstractStep
<1>1. MayReturn' = {}
  BY DEF MayReturn
<1>2. CASE exists
  <2>1. Batch = Noted(held.present, held.item) /\ MayReturn = {}
    BY <1>2 DEF Consistent, Batch, MayReturn
  <2>2. Batch' = Batch \/ Reviewed!Proposes(Batch, Batch')
    BY <2>1
  <2>3. Reviewed!Proposes(Batch, Batch') => Reviewed!Propose
    BY <1>1, <2>1 DEF Reviewed!Propose, Batch
  <2> QED BY <1>1, <2>1, <2>2, <2>3 DEF AbstractStep, Reviewed!Next
<1>3. CASE ~exists
  <2>1. MayReturn = {Noted(held.present, held.item)} /\ left = "cleaned"
    BY <1>3 DEF Consistent, MayReturn
  <2>2. DOMAIN Batch = {}
    BY <1>3, NotedImages DEF Consistent, Batch
  <2>3. Reviewed!Return
    BY <1>1, <2>1, <2>2 DEF Reviewed!Return, Reviewed!Waiting, Batch
  <2> QED BY <2>3 DEF AbstractStep, Reviewed!Next
<1> QED BY <1>2, <1>3

LEMMA ProposeStep == Inv /\ Consistent /\ Worker => Consistent' /\ AbstractStep
<1> SUFFICES ASSUME Inv, Consistent, Worker PROVE Consistent' /\ AbstractStep
  OBVIOUS
<1>1. CASE WorkerStart \/ Compute
  <2>1. /\ UNCHANGED <<exists, present, item, images, handler, saved, commits, left>>
        /\ ~HasLoaded /\ ~HasLoaded'
        /\ worker' \in {"update", "update_save"} => fields'.box \in {"proposed", "centred"}
    BY <1>1 DEF WorkerStart, Compute, manifest, handlerVars, history, HasLoaded
  <2>2. Consistent'
    BY <2>1 DEF Consistent
  <2> QED BY <2>1, <2>2 DEF AbstractStep, Batch, MayReturn
<1>2. ASSUME GiveUp, worker \in {"update", "compute", "progress"}
      PROVE  Consistent' /\ AbstractStep
  <2>1. /\ UNCHANGED <<exists, present, item, images, handler, saved, commits, left>>
        /\ ~HasLoaded /\ ~HasLoaded' /\ worker' = "done"
    BY <1>2 DEF GiveUp, manifest, handlerVars, history, HasLoaded
  <2>2. Consistent'
    BY <2>1 DEF Consistent
  <2> QED BY <2>1, <2>2 DEF AbstractStep, Batch, MayReturn
<1>3. ASSUME NEW from \in {"update", "progress", "compute"},
             NEW to \in {"update_save", "progress_save", "status_save"},
             to = "update_save" => from = "update",
             Load(from, to), exists
      PROVE  Consistent' /\ AbstractStep
  <2>1. /\ UNCHANGED <<exists, present, item, images, handler, saved, commits, left, fields>>
        /\ worker = from /\ worker' = to /\ held' = Doc
    BY <1>3 DEF Load, manifest, handlerVars, history
  <2>2. held'.present = present /\ held'.item = item /\ present # {}
    BY <1>3, <2>1 DEF Doc, Consistent
  <2>3. Consistent'
    BY <1>3, <2>1, <2>2 DEF Consistent
  <2>4. MayReturn = {} /\ MayReturn' = {}
    BY <1>3, <2>1 DEF MayReturn
  <2> QED BY <2>1, <2>3, <2>4 DEF AbstractStep, Batch
<1>4. CASE LoadForUpdate \/ LoadForProgress \/ LoadForStatus
  BY <1>2, <1>3, <1>4 DEF LoadForUpdate, LoadForProgress, LoadForStatus
<1>5. CASE SaveUpdate
  <2> DEFINE f == First(queue)
             e == [held.item[f] EXCEPT !.box = fields.box, !.status = fields.status, !.confirmed = FALSE]
             old == Noted(held.present, held.item)
             note == [box |-> fields.box, confirmed |-> FALSE, role |-> held.item[f].role]
  <2>1. /\ exists' = TRUE /\ present' = held.present
        /\ item' = [held.item EXCEPT ![f] = e]
        /\ worker = "update_save" /\ worker' = "progress"
        /\ UNCHANGED <<images, handler, saved, commits, left, fields>>
    <3>1. held = [present |-> held.present, item |-> held.item, status |-> held.status,
                  processed |-> held.processed]
      BY DEF Inv, Shape, Formed
    <3> QED BY <1>5, <3>1 DEF SaveUpdate, Write, WithProposal, handlerVars
  <2>2. /\ held.present \in SUBSET Items /\ held.item \in [Items -> Item]
        /\ fields.box \in {"proposed", "centred"}
        /\ HasLoaded /\ ~HasLoaded' /\ held.present # {}
    BY <2>1 DEF Inv, Shape, WellFormed, Consistent, HasLoaded
  <2>3. Consistent'
    BY <2>1, <2>2 DEF Consistent
  <2>4. CASE f \in held.present
    <3>1. /\ item'[f].box = fields.box /\ item'[f].confirmed = FALSE /\ item'[f].role = held.item[f].role
          /\ \A i \in held.present \ {f} : item'[i] = held.item[i]
      BY <2>1, <2>2, <2>4 DEF Item
    <3>2. old = [i \in held.present |-> [box |-> held.item[i].box, confirmed |-> held.item[i].confirmed,
                                         role |-> held.item[i].role]]
      BY DEF Noted
    <3>3. Batch' = [i \in held.present |-> [box |-> item'[i].box, confirmed |-> item'[i].confirmed,
                                            role |-> item'[i].role]]
      BY <2>1 DEF Batch, Noted
    <3>4. old[f].role = held.item[f].role
      BY <2>4, <3>2
    <3>5. \A i \in held.present : Batch'[i] = IF i = f THEN note ELSE old[i]
      BY <3>1, <3>2, <3>3, <3>4
    <3>6. Batch' = [old EXCEPT ![f] = note]
      <4> HIDE DEF old, note
      <4> QED BY <2>4, <3>2, <3>3, <3>5
    <3>7. Reviewed!Proposes(old, Batch')
      <4>1. DOMAIN old = held.present
        BY NotedImages
      <4>2. Batch' = [old EXCEPT ![f] = [box |-> fields.box, confirmed |-> FALSE, role |-> old[f].role]]
        BY <3>4, <3>6
      <4> HIDE DEF old, f
      <4>3. f \in DOMAIN old
        BY <2>4, <4>1
      <4> QED BY <2>2, <4>2, <4>3 DEF Reviewed!Proposes
    <3> QED BY <2>1, <2>2, <2>3, <3>7, WrittenBack
  <2>5. CASE f \notin held.present
    <3>1. \A i \in held.present : item'[i] = held.item[i]
      <4> HIDE DEF e, f
      <4> QED BY <2>1, <2>2, <2>5
    <3>2. Batch' = Noted(held.present, item')
      BY <2>1 DEF Batch
    <3>3. Noted(held.present, item') = Noted(held.present, held.item)
      BY <3>1, SameNotes
    <3> QED BY <2>1, <2>2, <2>3, <3>2, <3>3, WrittenBack
  <2> QED BY <2>4, <2>5
<1>6. CASE SaveProgress \/ SaveStatus
  <2>1. /\ exists' = TRUE /\ present' = held.present /\ item' = held.item
        /\ worker \in {"progress_save", "status_save"} /\ worker' \in {"compute", "done"}
        /\ UNCHANGED <<images, handler, saved, commits, left>>
    BY <1>6 DEF SaveProgress, SaveStatus, Write, handlerVars, history
  <2>2. HasLoaded /\ ~HasLoaded' /\ held.present # {}
    BY <2>1 DEF HasLoaded, Consistent
  <2>3. Consistent'
    BY <2>1, <2>2 DEF Consistent
  <2>4. Batch' = Noted(held.present, held.item)
    BY <2>1 DEF Batch
  <2> QED BY <2>1, <2>2, <2>3, <2>4, WrittenBack
<1> QED BY <1>1, <1>4, <1>5, <1>6 DEF Worker

LEMMA ReviewsStep == Inv /\ Consistent /\ Review => Consistent' /\ AbstractStep
<1> SUFFICES ASSUME Inv, Consistent, NEW i \in Items, NEW yes \in BOOLEAN,
                    PatchBox(i) \/ PatchNoBox(i) \/ PatchRole(i) \/ PatchConfirmed(i, yes)
             PROVE  Consistent' /\ AbstractStep
  BY DEF Review
<1>1. /\ handler = "none" /\ lock = "free" /\ exists /\ exists' = TRUE /\ i \in present /\ present' = present
      /\ UNCHANGED <<images, handler, saved, worker, fields, held, commits, left>>
  BY DEF PatchBox, PatchNoBox, PatchRole, PatchConfirmed, Patch, Reviewable, LockFree, Write, Doc,
         handlerVars, workerVars
<1>2. ~HasLoaded /\ ~HasLoaded' /\ MayReturn = {} /\ MayReturn' = {}
  BY <1>1 DEF Inv, Locking, Writing, HasLoaded, MayReturn
<1>3. Consistent'
  BY <1>1, <1>2 DEF Consistent
<1>4. item \in [Items -> Item] /\ item[i] \in Item /\ present \in SUBSET Items
  BY DEF Inv, Shape, WellFormed, Doc
<1>5. \E e \in Item : /\ item' = [item EXCEPT ![i] = e]
                       /\ e.box \in {item[i].box, "human", "none"} /\ e.role \in {item[i].role, "edited"}
  <2>1. CASE PatchBox(i)
    <3> DEFINE e == [item[i] EXCEPT !.box = "human", !.confirmed = TRUE, !.status = "edited"]
    <3>1. item' = [item EXCEPT ![i] = e]
      BY <2>1 DEF PatchBox, Patch, Write, Doc
    <3>2. e \in Item /\ e.box \in {item[i].box, "human", "none"} /\ e.role \in {item[i].role, "edited"}
      BY <1>4 DEF Item, Boxes, ItemStatuses
    <3> HIDE DEF e
    <3> QED BY <3>1, <3>2
  <2>2. CASE PatchNoBox(i)
    <3> DEFINE e == [item[i] EXCEPT !.box = "none", !.confirmed = FALSE, !.status = "manual_required"]
    <3>1. item' = [item EXCEPT ![i] = e]
      BY <2>2 DEF PatchNoBox, Patch, Write, Doc
    <3>2. e \in Item /\ e.box \in {item[i].box, "human", "none"} /\ e.role \in {item[i].role, "edited"}
      BY <1>4 DEF Item, Boxes, ItemStatuses
    <3> HIDE DEF e
    <3> QED BY <3>1, <3>2
  <2>3. CASE PatchRole(i)
    <3> DEFINE e == [item[i] EXCEPT !.role = "edited"]
    <3>1. item' = [item EXCEPT ![i] = e]
      BY <2>3 DEF PatchRole, Patch, Write, Doc
    <3>2. e \in Item /\ e.box \in {item[i].box, "human", "none"} /\ e.role \in {item[i].role, "edited"}
      BY <1>4 DEF Item
    <3> HIDE DEF e
    <3> QED BY <3>1, <3>2
  <2>4. CASE PatchConfirmed(i, yes)
    <3> DEFINE e == IF yes THEN [item[i] EXCEPT !.confirmed = TRUE, !.status = "edited"]
                           ELSE [item[i] EXCEPT !.confirmed = FALSE]
    <3>1. item' = [item EXCEPT ![i] = e]
      BY <2>4 DEF PatchConfirmed, Patch, Write, Doc
    <3>2. e \in Item /\ e.box = item[i].box /\ e.role = item[i].role
      BY <1>4 DEF Item, ItemStatuses
    <3> HIDE DEF e
    <3> QED BY <3>1, <3>2
  <2> QED BY <2>1, <2>2, <2>3, <2>4
<1>6. PICK e \in Item : /\ item' = [item EXCEPT ![i] = e]
                        /\ e.box \in {item[i].box, "human", "none"} /\ e.role \in {item[i].role, "edited"}
  BY <1>5
<1> DEFINE note == [box |-> e.box, confirmed |-> e.confirmed, role |-> e.role]
<1>7. note \in Reviewed!Notes /\ note.box = e.box /\ note.role = e.role
  BY DEF Reviewed!Notes, Item, Boxes
<1>8. Batch' = [Batch EXCEPT ![i] = note]
  <2>1. Batch = [j \in present |-> [box |-> item[j].box, confirmed |-> item[j].confirmed, role |-> item[j].role]]
    BY DEF Batch, Noted
  <2>2. Batch' = [j \in present |-> [box |-> item'[j].box, confirmed |-> item'[j].confirmed, role |-> item'[j].role]]
    BY <1>1 DEF Batch, Noted
  <2>3. \A j \in present : item'[j] = IF j = i THEN e ELSE item[j]
    BY <1>4, <1>6
  <2>4. \A j \in present : Batch'[j] = IF j = i THEN note ELSE Batch[j]
    BY <2>1, <2>2, <2>3
  <2> HIDE DEF note
  <2> QED BY <2>1, <2>2, <2>4
<1>9. i \in DOMAIN Batch /\ Batch[i].box = item[i].box /\ Batch[i].role = item[i].role
  BY <1>1 DEF Batch, Noted
<1>10. Reviewed!Review
  <2> HIDE DEF note
  <2> QED BY <1>1, <1>2, <1>6, <1>7, <1>8, <1>9 DEF Reviewed!Review, Reviewed!Waiting, Batch
<1> QED BY <1>3, <1>10 DEF AbstractStep, Reviewed!Next

LEMMA CommitStep == Inv /\ Consistent /\ Save => Consistent' /\ AbstractStep
<1> SUFFICES ASSUME Inv, Consistent, Save PROVE Consistent' /\ AbstractStep
  OBVIOUS
<1>1. CASE SaveBegin
  <2>1. /\ handler = "none" /\ handler' = "save" /\ saved = {} /\ saved' = {} /\ exists
        /\ UNCHANGED <<exists, present, item, images, worker, fields, held, commits, left>>
    BY <1>1 DEF SaveBegin, manifest, workerVars, history, Consistent
  <2>2. (HasLoaded' <=> HasLoaded) /\ MayReturn' = MayReturn
    BY <2>1 DEF HasLoaded, MayReturn
  <2>3. Consistent'
    BY <2>1, <2>2 DEF Consistent
  <2> QED BY <2>1, <2>2, <2>3 DEF AbstractStep, Batch
<1>2. CASE SaveItem
  <2> DEFINE f == First(cursor)
  <2>1. /\ handler = "save" /\ handler' = "save" /\ f \in cursor
        /\ UNCHANGED <<exists, present, item, images, worker, fields, held, left>>
        /\ \/ Committable(f) /\ commits' = [commits EXCEPT ![f] = @ + 1] /\ saved' = saved \union {f}
           \/ UNCHANGED <<commits, saved>>
    BY <1>2, FirstIsMember DEF SaveItem, NoteSaved, manifest, workerVars, Inv, Shape
  <2> HIDE DEF f
  <2>2. (HasLoaded' <=> HasLoaded) /\ MayReturn' = MayReturn /\ Batch' = Batch
    BY <2>1 DEF HasLoaded, MayReturn, Batch
  <2>3. Consistent'
    BY <2>1, <2>2 DEF Consistent
  <2>4. CASE UNCHANGED <<commits, saved>>
    BY <2>1, <2>2, <2>3, <2>4 DEF AbstractStep
  <2>5. CASE Committable(f) /\ commits' = [commits EXCEPT ![f] = @ + 1] /\ saved' = saved \union {f}
    <3>1. f \in images /\ item[f].box # "none" /\ f \in present
      BY <2>5 DEF Committable, Readable
    <3>2. f \notin saved
      BY <2>1 DEF Inv, OnceEach
    <3>3. left = ""
      BY <2>1, <3>1 DEF Inv, Ended, Consistent
    <3>4. f \in DOMAIN Batch \ saved /\ Batch[f].box # "none"
      BY <3>1, <3>2 DEF Batch, Noted
    <3>5. Reviewed!Commit
      BY <2>1, <2>2, <2>5, <3>3, <3>4 DEF Reviewed!Commit, Reviewed!Waiting, Batch
    <3> QED BY <2>3, <3>5 DEF AbstractStep, Reviewed!Next
  <2> QED BY <2>1, <2>4, <2>5
<1>3. CASE SaveAborts
  <2>1. /\ handler = "save" /\ handler' = "none" /\ saved' = {} /\ exists
        /\ UNCHANGED <<exists, present, item, images, worker, fields, held, commits, left>>
    BY <1>3 DEF SaveAborts, manifest, workerVars, Inv, Ended
  <2>2. MayReturn' = {} /\ (HasLoaded' <=> HasLoaded)
    BY <2>1 DEF MayReturn, HasLoaded
  <2>3. Consistent'
    BY <2>1, <2>2 DEF Consistent
  <2>4. Reviewed!Cut
    BY <2>1, <2>2 DEF Reviewed!Cut
  <2> QED BY <2>3, <2>4 DEF AbstractStep, Reviewed!Next
<1>4. CASE SaveFinish
  <2>1. /\ handler = "save" /\ handler' = "none" /\ saved' = {} /\ exists
        /\ UNCHANGED <<worker, fields, held, commits>>
        /\ \/ /\ present \ saved # {} /\ exists' = TRUE /\ present' = present \ saved
              /\ item' = [j \in Items |-> IF j \in present \ saved THEN item[j] ELSE NewItem]
              /\ UNCHANGED <<images, left>>
           \/ /\ present \ saved = {} /\ exists' = FALSE /\ present' = {} /\ left' = "saved"
    BY <1>4 DEF SaveFinish, NotSaved, Write, Remove, workerVars, Inv, Ended
  <2>2. ~HasLoaded /\ ~HasLoaded' /\ MayReturn = {} /\ MayReturn' = {}
    BY <2>1 DEF HasLoaded, MayReturn, Inv, Locking, Writing
  <2>3. Consistent'
    BY <2>1, <2>2 DEF Consistent
  <2>4. DOMAIN Batch = present /\ present \in SUBSET Items /\ present # {}
    BY <2>1, NotedImages DEF Batch, Inv, Shape, WellFormed, Doc, Consistent
  <2>5. Batch' = [i \in present \ saved |-> Batch[i]]
    <3>1. present' = present \ saved /\ \A i \in present' : i \in present /\ item'[i] = item[i]
      BY <2>1, <2>4
    <3>2. Batch' = Noted(present \ saved, item)
      BY <3>1, SameNotes DEF Batch
    <3> QED BY <3>2 DEF Noted, Batch
  <2>6. CASE saved = {}
    <3>1. Batch' = Batch /\ left' = left
      <4>1. Batch = [i \in present |-> Batch[i]]
        BY <2>4 DEF Batch, Noted
      <4> QED BY <2>1, <2>4, <2>5, <2>6, <4>1
    <3> QED BY <2>1, <2>2, <2>3, <2>6, <3>1 DEF AbstractStep
  <2>7. CASE saved # {}
    <3>1. left' = IF present \subseteq saved THEN "saved" ELSE left
      BY <2>1
    <3>2. Reviewed!Close
      BY <2>1, <2>2, <2>4, <2>5, <2>7, <3>1 DEF Reviewed!Close, Reviewed!Waiting, Batch
    <3> QED BY <2>3, <3>2 DEF AbstractStep, Reviewed!Next
  <2> QED BY <2>6, <2>7
<1> QED BY <1>1, <1>2, <1>3, <1>4 DEF Save

LEMMA FailsStep == Inv /\ Consistent /\ WorkerFails => Consistent' /\ AbstractStep
<1> SUFFICES ASSUME Inv, Consistent, WorkerFails PROVE Consistent' /\ AbstractStep
  OBVIOUS
<1>1. /\ worker' = "dead"
      /\ UNCHANGED <<exists, present, item, images, handler, saved, commits, left>>
  BY DEF WorkerFails, manifest, handlerVars
<1>2. ~HasLoaded' /\ MayReturn' = {}
  BY <1>1 DEF HasLoaded, MayReturn
<1>3. Consistent'
  BY <1>1, <1>2 DEF Consistent
<1>4. CASE HasLoaded
  <2>1. saved = {}
    BY <1>4 DEF Inv, Locking, Writing, HasLoaded, Consistent
  <2>2. Reviewed!Cut
    BY <1>1, <1>2, <2>1 DEF Reviewed!Cut
  <2> QED BY <1>3, <2>2 DEF AbstractStep, Reviewed!Next
<1>5. CASE ~HasLoaded
  <2>1. MayReturn = {}
    BY <1>5 DEF MayReturn
  <2> QED BY <1>1, <1>2, <1>3, <2>1 DEF AbstractStep, Batch
<1> QED BY <1>4, <1>5

LEMMA GoneStep == Inv /\ Consistent /\ (DiscardBatch \/ CleanupStale \/ Crash) => Consistent' /\ AbstractStep
<1> SUFFICES ASSUME Inv, Consistent, DiscardBatch \/ CleanupStale \/ Crash PROVE Consistent' /\ AbstractStep
  OBVIOUS
<1>1. CASE DiscardBatch \/ CleanupStale
  <2>1. /\ handler = "none" /\ exists /\ exists' = FALSE /\ present' = {} /\ images' = {}
        /\ (left' = "cleaned" /\ CleanupStale) \/ (left' = "discarded" /\ lock = "free")
        /\ UNCHANGED <<handler, saved, worker, fields, held, commits>>
    BY <1>1 DEF DiscardBatch, CleanupStale, Remove, LockFree, handlerVars, workerVars
  <2>2. saved = {} /\ DOMAIN Batch # {} /\ Batch' = Reviewed!Nothing /\ (HasLoaded' <=> HasLoaded) /\ MayReturn = {}
    BY <2>1, NotedImages, NoNotes DEF Consistent, Batch, HasLoaded, MayReturn
  <2>3. lock = "free" => ~HasLoaded
    BY DEF Inv, Locking, Writing, HasLoaded
  <2>4. Consistent'
    BY <2>1, <2>2, <2>3 DEF Consistent
  <2>5. CASE left' = "discarded" /\ lock = "free"
    <3>1. MayReturn' = {}
      BY <2>2, <2>3, <2>5 DEF MayReturn
    <3>2. Reviewed!Discard
      BY <2>1, <2>2, <2>5, <3>1 DEF Reviewed!Discard, Reviewed!Waiting, Batch
    <3> QED BY <2>4, <3>2 DEF AbstractStep, Reviewed!Next
  <2>6. CASE left' = "cleaned"
    <3>1. MayReturn' \in {{}, {Batch}}
      BY <2>1, <2>2 DEF MayReturn, Consistent, Batch
    <3>2. Reviewed!CleanUp
      BY <2>1, <2>2, <2>6, <3>1 DEF Reviewed!CleanUp, Reviewed!Waiting, Batch
    <3> QED BY <2>4, <3>2 DEF AbstractStep, Reviewed!Next
  <2> QED BY <2>1, <2>5, <2>6
<1>2. CASE Crash
  <2>1. /\ handler' = "none" /\ saved' = {} /\ worker' \in {"none", "done", "dead"}
        /\ UNCHANGED <<exists, present, item, images, commits, left>>
    BY <1>2 DEF Crash, manifest
  <2>2. ~HasLoaded' /\ MayReturn' = {}
    BY <2>1 DEF HasLoaded, MayReturn
  <2>3. Consistent'
    BY <2>1, <2>2 DEF Consistent
  <2>4. Reviewed!Cut
    BY <2>1, <2>2 DEF Reviewed!Cut
  <2> QED BY <2>3, <2>4 DEF AbstractStep, Reviewed!Next
<1> QED BY <1>1, <1>2

LEMMA ReviewedStep == Inv /\ Consistent /\ [Next]_vars => Consistent' /\ AbstractStep
<1> SUFFICES ASSUME Inv, Consistent, UNCHANGED vars PROVE Consistent' /\ AbstractStep
  BY UploadStep, ProposeStep, FailsStep, ReviewsStep, CommitStep, GoneStep DEF Next
<1>1. UNCHANGED <<exists, present, item, images, handler, saved, worker, fields, held, commits, left>>
  BY DEF vars, manifest, handlerVars, workerVars, history
<1>2. UNCHANGED <<HasLoaded, MayReturn, Batch>>
  BY <1>1 DEF HasLoaded, MayReturn, Batch
<1>3. Consistent'
  BY <1>1, <1>2 DEF Consistent
<1> QED BY <1>1, <1>2, <1>3 DEF AbstractStep

LEMMA ConsistentHolds == Spec => [](Inv /\ Consistent)
<1>1. Init => Consistent
  BY DEF Init, Consistent, HasLoaded
<1> QED BY <1>1, ReviewedStep, BatchInvariant, PTL DEF Spec

\* The batch, with its worker, lock, clean-up, errors and crashes, is a set of
\* images that are each proposed for, reviewed, and committed by the save they
\* leave with (object_batches.py: _run_proposals, patch_item, save_batch).
THEOREM BatchIsReviewed == Spec => ImplementsReviewedBatch
<1>1. Init => Reviewed!Init
  <2> SUFFICES ASSUME Init PROVE Reviewed!Init
    OBVIOUS
  <2>1. /\ present = {} /\ saved = {} /\ left = "" /\ worker = "none" /\ commits = [i \in Items |-> 0]
    BY DEF Init
  <2>2. MayReturn = {} /\ Batch = Reviewed!Nothing
    BY <2>1, NoNotes DEF MayReturn, HasLoaded, Batch
  <2> QED BY <2>1, <2>2 DEF Reviewed!Init, Batch
<1>2. (Inv /\ Consistent) /\ [Next]_vars => [Reviewed!Next]_(Reviewed!vars)
  BY ReviewedStep DEF AbstractStep, Reviewed!vars, Batch
<1> QED BY <1>1, <1>2, ConsistentHolds, PTL DEF Spec, ImplementsReviewedBatch, Reviewed!Spec
=============================================================================
