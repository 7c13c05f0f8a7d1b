------------------------------ MODULE MCStudio ------------------------------
(* StudioLifecycle alone. *)
EXTENDS StudioLifecycle
=============================================================================
