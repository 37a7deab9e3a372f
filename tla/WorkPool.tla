------------------------------- MODULE WorkPool -------------------------------
(***************************************************************************)
(* What the callback dispatcher promises: a callback that was submitted is  *)
(* run at most once, and no more than PoolSize callbacks run at a time.     *)
(***************************************************************************)
EXTENDS Naturals, FiniteSets

CONSTANTS Requests, PoolSize

VARIABLES submitted, active, done

vars == <<submitted, active, done>>

Init == submitted = {} /\ active = {} /\ done = {}

Submit(r) ==
    /\ r \notin submitted
    /\ submitted' = submitted \cup {r}
    /\ UNCHANGED <<active, done>>

Start(r) ==
    /\ r \in submitted \ (active \cup done)
    /\ Cardinality(active) < PoolSize
    /\ active' = active \cup {r}
    /\ UNCHANGED <<submitted, done>>

End(r) ==
    /\ r \in active
    /\ active' = active \ {r}
    /\ done' = done \cup {r}
    /\ UNCHANGED submitted

Next == \E r \in Requests : Submit(r) \/ Start(r) \/ End(r)

Spec == Init /\ [][Next]_vars

=============================================================================
