--------------------------- MODULE ReviewedBatch ---------------------------
(***************************************************************************)
(* What a bulk-upload batch promises, with no manifest, lock, thread or    *)
(* cut-off request in sight: a set of images that wait, each with a note   *)
(* of its box and role. A proposal or a review changes the note of one     *)
(* image; an image is taken once by a save, and leaves with the save that  *)
(* took it and no other; a batch that has ended is gone. Only a batch that *)
(* was cleaned up under its proposals may come back: as it was, but for    *)
(* one proposal, and never to be taken again.                              *)
(***************************************************************************)
EXTENDS Integers

CONSTANT Images

VARIABLES batch,    \* the notes of the images that wait
          commits,  \* how often each image was made a sample
          taken,    \* the images taken by the save under way
          ended,    \* how the batch last ended: "", "saved", "discarded", "cleaned"
          removed   \* the batch that was cleaned up and may still come back

vars == <<batch, commits, taken, ended, removed>>

Notes == [box : {"none", "proposed", "centred", "human"}, confirmed : BOOLEAN, role : {"uploaded", "edited"}]
Fresh == [box |-> "none", confirmed |-> FALSE, role |-> "uploaded"]
Nothing == [i \in {} |-> Fresh]
Waiting == DOMAIN batch

Init ==
    /\ batch = Nothing
    /\ commits = [i \in Images |-> 0]
    /\ taken = {} /\ removed = {}
    /\ ended = ""

Upload ==
    /\ ended = "" /\ Waiting = {}
    /\ batch' = [i \in Images |-> Fresh]
    /\ UNCHANGED <<commits, taken, ended, removed>>

\* One set of notes is the other after a proposal for one image.
Proposes(old, new) ==
    \E i \in DOMAIN old, box \in {"proposed", "centred"} :
        new = [old EXCEPT ![i] = [box |-> box, confirmed |-> FALSE, role |-> @.role]]

Propose ==
    /\ Proposes(batch, batch')
    /\ UNCHANGED <<commits, taken, ended, removed>>

\* A role that was edited stays edited; only a review draws a box.
Review ==
    /\ \E i \in Waiting, note \in Notes :
        /\ note.box \in {batch[i].box, "human", "none"}
        /\ note.role \in {batch[i].role, "edited"}
        /\ batch' = [batch EXCEPT ![i] = note]
    /\ UNCHANGED <<commits, taken, ended, removed>>

Commit ==
    /\ ended = ""
    /\ \E i \in Waiting \ taken :
        /\ batch[i].box # "none"
        /\ commits' = [commits EXCEPT ![i] = @ + 1]
        /\ taken' = taken \union {i}
    /\ UNCHANGED <<batch, ended, removed>>

\* The save is over: what it took leaves, and the batch with its last image.
Close ==
    /\ taken # {} /\ taken' = {}
    /\ batch' = [i \in Waiting \ taken |-> batch[i]]
    /\ ended' = IF Waiting \subseteq taken THEN "saved" ELSE ended
    /\ UNCHANGED <<commits, removed>>

\* The save, or the process, is cut short.
Cut ==
    /\ taken' = {} /\ removed' = {}
    /\ UNCHANGED <<batch, commits, ended>>

Discard ==
    /\ Waiting # {} /\ taken = {}
    /\ batch' = Nothing /\ ended' = "discarded"
    /\ UNCHANGED <<commits, taken, removed>>

CleanUp ==
    /\ Waiting # {} /\ taken = {}
    /\ batch' = Nothing /\ ended' = "cleaned"
    /\ removed' \in {{}, {batch}}
    /\ UNCHANGED <<commits, taken>>

Return ==
    /\ Waiting = {} /\ ended = "cleaned"
    /\ \E old \in removed : batch' = old \/ Proposes(old, batch')
    /\ removed' = {}
    /\ UNCHANGED <<commits, taken, ended>>

Next == Upload \/ Propose \/ Review \/ Commit \/ Close \/ Cut \/ Discard \/ CleanUp \/ Return

Spec == Init /\ [][Next]_vars
=============================================================================
