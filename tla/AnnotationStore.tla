-------------------------- MODULE AnnotationStore --------------------------
(***************************************************************************)
(* What the annotation file promises to the labelling page and to the      *)
(* script that adds frames, with no file, backup or crash in sight: there  *)
(* is one store, a save is made of the store as it was and labels one of   *)
(* its frames or adds frames to it, and it takes effect at once, as a      *)
(* whole, or not at all. Two programs that race are promised nothing.      *)
(***************************************************************************)
CONSTANT Frames

VARIABLES stored,   \* the store as anybody who reads it would find it
          saving,   \* the store that is being saved, if one is
          raced     \* one program held the store while another saved its own

vars == <<stored, saving, raced>>

Empty == [images |-> {}, boxes |-> [i \in Frames |-> {}], labelled |-> {}, seeded |-> {}]

Init ==
    /\ stored = Empty
    /\ saving = {}
    /\ raced = FALSE

\* Other boxes for one frame, which is labelled from now on, with the
\* detector's help or without; the other frames are left alone.
Labels(doc) ==
    \E i \in stored.images :
        /\ doc.images = stored.images
        /\ doc.labelled = stored.labelled \union {i}
        /\ doc.seeded \ {i} = stored.seeded \ {i}
        /\ \A j \in Frames \ {i} : doc.boxes[j] = stored.boxes[j]

\* More frames, or none.
Adds(doc) ==
    /\ stored.images \subseteq doc.images
    /\ doc.labelled = stored.labelled
    /\ doc.seeded = stored.seeded
    /\ doc.boxes = stored.boxes

Begin ==
    /\ saving = {}
    /\ \E doc \in saving' : saving' = {doc} /\ (Labels(doc) \/ Adds(doc))
    /\ UNCHANGED <<stored, raced>>

Commit ==
    /\ saving = {stored'}
    /\ saving' = {}
    /\ UNCHANGED raced

GiveUp ==
    /\ saving /= {} /\ saving' = {}
    /\ UNCHANGED <<stored, raced>>

Race == raced' = TRUE

Next == Begin \/ Commit \/ GiveUp \/ Race

Spec == Init /\ [][Next]_vars
=============================================================================
