----------------------------- MODULE MCRemoteCall -----------------------------
(* Instances of RemoteCall for TLC. *)
EXTENDS RemoteCall, TLC

CONSTANTS t1, t2, c1, c2, r1, r2, r3

\* Callers and connections are interchangeable, and so are heap cells.
Symmetric == Permutations(Callers) \cup Permutations(Conns) \cup Permutations(Requests)

=============================================================================
