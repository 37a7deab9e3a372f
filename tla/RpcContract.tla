----------------------------- MODULE RpcContract -----------------------------
(***************************************************************************)
(* What the client promises the threads that call remote methods.  A call   *)
(* is issued under a fresh message id, the remote side answers a message at *)
(* most once, and a call ends with the answer to its own message, with the  *)
(* exception raised for it, with a time-out or with an error.               *)
(***************************************************************************)
EXTENDS Naturals

CONSTANTS Callers, MaxId

VARIABLES
    issued,    \* the message ids in use so far
    pending,   \* the id of each thread's open call, 0 if there is none
    answer,    \* what the remote side answered to each message
    result     \* what each thread's latest call returned

vars == <<issued, pending, answer, result>>

Init ==
    /\ issued = {}
    /\ pending = [t \in Callers |-> 0]
    /\ answer = [i \in 1..MaxId |-> "none"]
    /\ result = [t \in Callers |-> [status |-> "none", id |-> 0, value |-> 0]]

Issue(t) ==
    /\ pending[t] = 0
    /\ \E i \in (1..MaxId) \ issued :
          /\ issued' = issued \cup {i}
          /\ pending' = [pending EXCEPT ![t] = i]
    /\ UNCHANGED <<answer, result>>

Answer(i, kind) ==
    /\ i \in issued
    /\ answer[i] = "none"
    /\ answer' = [answer EXCEPT ![i] = kind]
    /\ UNCHANGED <<issued, pending, result>>

\* The call ends with an outcome of which the value is 0 or the answer's.
End(t, status, id, value) ==
    /\ pending' = [pending EXCEPT ![t] = 0]
    /\ result' = [result EXCEPT ![t] = [status |-> status, id |-> id, value |-> value]]
    /\ UNCHANGED <<issued, answer>>

ReturnValue(t) ==
    /\ pending[t] # 0
    /\ answer[pending[t]] = "reply"
    /\ End(t, "value", pending[t], pending[t])

ReturnException(t) ==
    /\ pending[t] # 0
    /\ answer[pending[t]] = "exception"
    /\ End(t, "exception", pending[t], 0)

GiveUp(t) ==
    /\ pending[t] # 0
    /\ End(t, "timeout", pending[t], 0)

\* Also before an id was issued.
Refuse(t) == End(t, "error", 0, 0)

Next ==
    \/ \E t \in Callers : \/ Issue(t) \/ ReturnValue(t) \/ ReturnException(t)
                          \/ GiveUp(t) \/ Refuse(t)
    \/ \E i \in 1..MaxId, kind \in {"reply", "exception", "corrupt"} : Answer(i, kind)

Spec == Init /\ [][Next]_vars

=============================================================================
