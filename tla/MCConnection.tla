---------------------------- MODULE MCConnection ----------------------------
(* Instance of Connection. *)
EXTENDS Connection
=============================================================================
