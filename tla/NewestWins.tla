---------------------------- MODULE NewestWins ----------------------------
(***************************************************************************)
(* What the frame path promises to the analysis side, with no thread, slot *)
(* or lock in sight: frames are numbered as they are decoded, a frame that *)
(* is on its way may be given up only because a newer one is on its way    *)
(* too, and the frames that arrive do so oldest first and once each.       *)
(***************************************************************************)
EXTENDS Integers

VARIABLES produced,   \* number of the newest frame, -1 before the first
          pending,    \* numbers of the frames that are on their way
          delivered,  \* number of the last frame handed over, -1 before the first
          closed      \* the channel is shut: what is pending may be discarded

vars == <<produced, pending, delivered, closed>>

Init ==
    /\ produced = -1
    /\ pending = {}
    /\ delivered = -1
    /\ closed = FALSE

\* A new frame enters. It may push out one of those that wait.
Produce ==
    /\ produced' = produced + 1
    /\ \/ pending' = pending \union {produced + 1}
       \/ \E old \in pending : pending' = (pending \ {old}) \union {produced + 1}
    /\ UNCHANGED <<delivered, closed>>

\* A frame is overtaken on the way: only when a newer one is pending.
Overtake ==
    /\ \E old, new \in pending : old < new /\ pending' = pending \ {old}
    /\ UNCHANGED <<produced, delivered, closed>>

\* The oldest pending frame is handed over, and it is newer than the last one.
Deliver ==
    /\ \E f \in pending :
          /\ \A g \in pending : f <= g
          /\ delivered < f
          /\ delivered' = f
          /\ pending' = pending \ {f}
    /\ UNCHANGED <<produced, closed>>

Close ==
    /\ closed' = TRUE
    /\ UNCHANGED <<produced, pending, delivered>>

Discard ==
    /\ closed
    /\ \E f \in pending : pending' = pending \ {f}
    /\ UNCHANGED <<produced, delivered, closed>>

Next == Produce \/ Overtake \/ Deliver \/ Close \/ Discard

Spec == Init /\ [][Next]_vars
=============================================================================
