--------------------------- MODULE MCStudioIngest ---------------------------
(* The Studio with two ingest connections, in two parts: two pages beside  *)
(* the sockets, and three pages while the sockets rest. Three are needed   *)
(* for the leave of a page to come when its session is over and the Studio *)
(* belongs to another.                                                     *)
EXTENDS StudioIngest

CONSTANT LastPage   \* the page that only the second part loads

VARIABLE part

MCInit == Init /\ part \in {"sockets", "pages"}

MCNext ==
    \/ /\ StudioNext /\ UNCHANGED <<ingestVars, part>>
       /\ part = "sockets" => page'[LastPage] = "away"
    \/ part = "sockets" /\ Ingest!IngestNext /\ UNCHANGED <<studioVars, part>>

MCSpec == MCInit /\ [][MCNext]_<<vars, part>> /\ StudioFairness
=============================================================================
