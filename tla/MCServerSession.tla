--------------------------- MODULE MCServerSession ---------------------------
(* Instance of ServerSession. *)
EXTENDS ServerSession
=============================================================================
