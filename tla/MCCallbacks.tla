----------------------------- MODULE MCCallbacks -----------------------------
(* Instance of Callbacks. *)
EXTENDS Callbacks
=============================================================================
