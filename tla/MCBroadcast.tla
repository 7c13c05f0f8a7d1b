---------------------------- MODULE MCBroadcast ----------------------------
(* Broadcast with two clients; the wait with and without its timeout. *)
EXTENDS Broadcast
=============================================================================
