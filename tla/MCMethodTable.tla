---------------------------- MODULE MCMethodTable ----------------------------
(* Instances of MethodTable for TLC. *)
EXTENDS MethodTable, TLC

CONSTANTS k1, k2, a, b

Symmetric == Permutations(Clients)

=============================================================================
