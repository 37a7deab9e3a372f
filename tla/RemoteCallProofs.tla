--------------------------- MODULE RemoteCallProofs ---------------------------
(***************************************************************************)
(* Proofs about RemoteCall: IInv is inductive, and with it the types of the *)
(* variables and three safety properties hold for all values of the         *)
(* constants.                                                               *)
(*                                                                          *)
(* One lemma per action shows that the action preserves IInv.  Lemmas about *)
(* kinds of steps (OutOfCall, Advance, Move, CallersFrame, WireFrame) state  *)
(* once what all steps of the kind leave true; an action's lemma adds the   *)
(* conjuncts that the action itself touches.                                *)
(***************************************************************************)
EXTENDS RemoteCall, TLAPS

\* A step that leaves a group of variables alone keeps the group's types.
LEMMA TypeFrame ==
  ASSUME TypeOK
  PROVE  /\ UNCHANGED callerVars => CallerTypes'
         /\ UNCHANGED requestVars => RequestTypes'
         /\ UNCHANGED lockVars => LockTypes'
         /\ UNCHANGED tableVars => TableTypes'
         /\ UNCHANGED listenerVars => ListenerTypes'
         /\ UNCHANGED wireVars => WireTypes'
<1>1. UNCHANGED callerVars => CallerTypes'
  BY DEF TypeOK, CallerTypes, callerVars
<1>2. UNCHANGED requestVars => RequestTypes'
  BY DEF TypeOK, RequestTypes, requestVars
<1>3. UNCHANGED lockVars => LockTypes'
  BY DEF TypeOK, LockTypes, lockVars
<1>4. UNCHANGED tableVars => TableTypes'
  BY DEF TypeOK, TableTypes, tableVars
<1>5. UNCHANGED listenerVars => ListenerTypes'
  BY DEF TypeOK, ListenerTypes, listenerVars
<1>6. UNCHANGED wireVars => WireTypes'
  BY DEF TypeOK, WireTypes, wireVars
<1> QED BY <1>1, <1>2, <1>3, <1>4, <1>5, <1>6

\* The step concerns no thread but t.
Others(t) == \A u \in Callers \ {t} : pc'[u] = pc[u] /\ call'[u] = call[u]

\* What a step of thread t keeps when t is outside the part of the call that
\* owns a request afterwards: it begins, refuses, fails to send or returns.
\* The tables, the wires and the requests of the other calls stay as they are.
LEMMA OutOfCall ==
  ASSUME IInv, NEW t \in Callers, Others(t),
         pc[t] \in {"idle", "lookup", "send", "finish"},
         pc'[t] \in {"idle", "lookup"},
         pc'[t] = "lookup" => call'[t].conn \in Conns,
         \A r \in live : request'[r] = request[r],
         \A u \in Callers \ {t} : InCall(u) => Req(u) \in live',
         NoDanglingEntry',
         UNCHANGED <<tableVars, listenerVars, wireVars, messagesMutex>>
  PROVE  /\ OwnRequest' /\ SentIds' /\ EntryKnown' /\ EntryOfSent' /\ EntryOfCall'
         /\ EntryById' /\ ListenerHolds' /\ CallerHolds'
<1> USE DEF IInv, Others, Conn, Req, Id, InCall, Steps, tableVars
<1>1. OwnRequest'
  BY SMTT(10) DEF OwnRequest
<1>2. SentIds'
  BY SMTT(10) DEF SentIds, OwnRequest, IsSent, wireVars, listenerVars
<1>3. EntryKnown' 
  BY SMTT(10) DEF EntryKnown, Others
<1>4. EntryOfSent' 
  BY SMTT(10) DEF EntryOfSent, IsSent, SentIds, OwnRequest, wireVars
<1>5. EntryOfCall' 
  BY SMTT(10) DEF EntryOfCall, OwnRequest
<1>6. EntryById' 
  BY SMTT(10) DEF EntryById, OwnRequest
<1>7. ListenerHolds' 
  BY SMTT(10) DEF ListenerHolds, NoDanglingEntry, listenerVars
<1>8. CallerHolds' 
  BY SMTT(10) DEF CallerHolds, OwnRequest
<1> QED BY <1>1, <1>2, <1>3, <1>4, <1>5, <1>6, <1>7, <1>8

\* Return keeps the types of the caller's variables and ends t's call only.
LEMMA ReturnTypes ==
  ASSUME TypeOK, NEW t \in Callers, NEW s \in {"none", "value", "exception", "timeout", "error"},
         NEW i \in 0..MaxId, NEW v \in 0..MaxId, Return(t, s, i, v)
  PROVE  CallerTypes' /\ instancesMutex' \in Callers \cup {None} /\ pc'[t] = "idle" /\ Others(t)
<1>1. pc' \in [Callers -> Steps] /\ pc'[t] = "idle" /\ \A u \in Callers \ {t} : pc'[u] = pc[u]
  BY SMTT(10) DEF TypeOK, CallerTypes, Return, Goto, Steps
<1>2. call' \in [Callers -> CallType] /\ \A u \in Callers \ {t} : call'[u] = call[u]
  BY SMTT(10) DEF TypeOK, CallerTypes, Return, NoCall, NewCall, CallType
<1>3. result' \in [Callers -> [status : {"none", "value", "exception", "timeout", "error"},
                               id : 0..MaxId, value : 0..MaxId]]
  BY SMTT(10) DEF TypeOK, CallerTypes, Return
<1>4. phase' \in [Conns -> {"new", "syncing", "ready", "failed"}]
  BY SMTT(10) DEF TypeOK, CallerTypes, Return
<1>5. instancesMutex' \in Callers \cup {None}
  BY SMTT(10) DEF TypeOK, LockTypes, Return
<1> QED BY <1>1, <1>2, <1>3, <1>4, <1>5 DEF CallerTypes, Others

\* A NymphRequest that was just allocated has the type of a request.
LEMMA NewRequestType ==
  ASSUME NEW t \in Callers, NEW i \in 0..MaxId, NEW exc \in BOOLEAN
  PROVE  NewRequest(i, t, exc) \in RequestType
BY ConstantsAssumption DEF NewRequest, RequestType

-----------------------------------------------------------------------------
(* Steps that begin a call, or end one without an answer. *)

\* callMethod and callMethodId take instancesMutex and the connection.
LEMMA BeginCallInv == ASSUME IInv, NEW t \in Callers, BeginCall(t) PROVE IInv'
<1> USE DEF IInv, BeginCall
<1>1. PICK c \in Conns, a \in Apis \ {"sync"} :
         call' = [call EXCEPT ![t] = NewCall(a, c)]
  OBVIOUS
<1>2. call' \in [Callers -> CallType] /\ call'[t].conn \in Conns
      /\ \A u \in Callers \ {t} : call'[u] = call[u]
  BY <1>1, ConstantsAssumption, SMTT(10) DEF TypeOK, CallerTypes, NewCall, CallType
<1>3. pc' \in [Callers -> Steps] /\ pc[t] = "idle" /\ pc'[t] = "lookup"
      /\ \A u \in Callers \ {t} : pc'[u] = pc[u]
  BY SMTT(10) DEF TypeOK, CallerTypes, Goto, Steps
<1>4. TypeOK'
  <2>1. CallerTypes'
    BY <1>2, <1>3 DEF TypeOK, CallerTypes
  <2>2. LockTypes'
    BY DEF TypeOK, LockTypes
  <2> QED BY <2>1, <2>2, TypeFrame DEF TypeOK
<1>5. NoDanglingEntry' /\ Others(t) /\ \A u \in Callers : InCall(u) => Req(u) \in live'
  BY <1>2, <1>3 DEF NoDanglingEntry, OwnRequest, Others, requestVars, tableVars
<1> QED BY <1>2, <1>3, <1>4, <1>5, OutOfCall DEF requestVars

\* connect calls sync.
LEMMA BeginSyncInv == ASSUME IInv, NEW t \in Callers, BeginSync(t) PROVE IInv'
<1> USE DEF IInv, BeginSync
<1>1. PICK c \in Conns :
         /\ phase' = [phase EXCEPT ![c] = "syncing"]
         /\ call' = [call EXCEPT ![t] = NewCall("sync", c)]
  OBVIOUS
<1>2. call' \in [Callers -> CallType] /\ call'[t].conn \in Conns
      /\ \A u \in Callers \ {t} : call'[u] = call[u]
  BY <1>1, ConstantsAssumption, SMTT(10) DEF TypeOK, CallerTypes, NewCall, CallType
<1>3. pc' \in [Callers -> Steps] /\ pc[t] = "idle" /\ pc'[t] = "lookup"
      /\ \A u \in Callers \ {t} : pc'[u] = pc[u]
  BY SMTT(10) DEF TypeOK, CallerTypes, Goto, Steps
<1>4. TypeOK'
  <2>1. CallerTypes'
    BY <1>1, <1>2, <1>3 DEF TypeOK, CallerTypes
  <2> QED BY <2>1, TypeFrame DEF TypeOK
<1>5. NoDanglingEntry' /\ Others(t) /\ \A u \in Callers : InCall(u) => Req(u) \in live'
  BY <1>2, <1>3 DEF NoDanglingEntry, OwnRequest, Others, requestVars, tableVars
<1> QED BY <1>2, <1>3, <1>4, <1>5, OutOfCall DEF requestVars, lockVars

\* A call whose method is not in the synchronised table ends.
LEMMA MethodNotFoundInv == ASSUME IInv, NEW t \in Callers, MethodNotFound(t) PROVE IInv'
<1> USE DEF IInv, MethodNotFound
<1>1. CallerTypes' /\ instancesMutex' \in Callers \cup {None} /\ pc'[t] = "idle" /\ Others(t)
  BY ConstantsAssumption, ReturnTypes
<1>2. TypeOK'
  BY <1>1, TypeFrame DEF TypeOK, LockTypes
<1>3. NoDanglingEntry' /\ \A u \in Callers : InCall(u) => Req(u) \in live'
  BY DEF NoDanglingEntry, OwnRequest, requestVars, tableVars
<1> QED BY <1>1, <1>2, <1>3, OutOfCall DEF requestVars

\* A call with wrong arguments ends and leaves a locked request behind.
LEMMA ArgumentMismatchInv == ASSUME IInv, NEW t \in Callers, ArgumentMismatch(t) PROVE IInv'
<1> USE DEF IInv, ArgumentMismatch
<1>1. CallerTypes' /\ instancesMutex' \in Callers \cup {None} /\ pc'[t] = "idle" /\ Others(t)
  BY ConstantsAssumption, ReturnTypes
<1>2. PICK r \in Requests \ live, exc \in BOOLEAN :
         live' = live \cup {r} /\ request' = [request EXCEPT ![r] = NewRequest(0, t, exc)]
  BY DEF InitialException
<1>3. NewRequest(0, t, exc) \in RequestType
  BY ConstantsAssumption, NewRequestType
<1>4. RequestTypes' /\ \A s \in live : request'[s] = request[s]
  BY <1>2, <1>3 DEF TypeOK, RequestTypes
<1>5. TypeOK'
  BY <1>1, <1>4, TypeFrame DEF TypeOK, LockTypes
<1>6. NoDanglingEntry' /\ \A u \in Callers : InCall(u) => Req(u) \in live'
  BY <1>2 DEF NoDanglingEntry, OwnRequest, tableVars
<1> QED BY <1>1, <1>4, <1>5, <1>6, OutOfCall

\* A call whose message cannot be sent ends; its request and entry stay.
LEMMA SendFailsInv == ASSUME IInv, NEW t \in Callers, SendFails(t) PROVE IInv'
<1> USE DEF IInv, SendFails
<1>1. CallerTypes' /\ instancesMutex' \in Callers \cup {None} /\ pc'[t] = "idle" /\ Others(t)
  BY ConstantsAssumption, ReturnTypes
<1>2. LockTypes'
  BY <1>1 DEF TypeOK, LockTypes
<1>3. TypeOK'
  BY <1>1, <1>2, TypeFrame DEF TypeOK
<1>4. NoDanglingEntry' /\ \A u \in Callers : InCall(u) => Req(u) \in live'
  BY DEF NoDanglingEntry, OwnRequest, requestVars, tableVars
<1> QED BY <1>1, <1>3, <1>4, OutOfCall DEF requestVars

\* A timed-out call returns; its request stays allocated.
LEMMA ReturnTimeoutInv == ASSUME IInv, NEW t \in Callers, ReturnTimeout(t) PROVE IInv'
<1> USE DEF IInv, ReturnTimeout
<1>1. Id(t) \in 0..MaxId
  BY DEF OwnRequest, InCall, Steps, Ids
<1>2. CallerTypes' /\ instancesMutex' \in Callers \cup {None} /\ pc'[t] = "idle" /\ Others(t)
  BY <1>1, ConstantsAssumption, ReturnTypes
<1>3. TypeOK'
  BY <1>2, TypeFrame DEF TypeOK, LockTypes
<1>4. NoDanglingEntry' /\ \A u \in Callers : InCall(u) => Req(u) \in live'
  BY DEF NoDanglingEntry, OwnRequest, requestVars, tableVars
<1> QED BY <1>2, <1>3, <1>4, OutOfCall DEF requestVars

\* An answered call returns and deletes its request.  No entry points to it:
\* EntryOfCall has no entry for a call that is past removeMessage.
LEMMA ReturnAnswerInv == ASSUME IInv, NEW t \in Callers, ReturnAnswer(t) PROVE IInv'
<1> USE DEF IInv, ReturnAnswer
<1>1. InCall(t) /\ Id(t) \in 0..MaxId /\ Req(t) \in live
  BY DEF OwnRequest, InCall, Steps, Ids
<1>2. request[Req(t)].response \in 0..MaxId
  BY <1>1 DEF TypeOK, RequestTypes, RequestType
<1>3. CallerTypes' /\ instancesMutex' \in Callers \cup {None} /\ pc'[t] = "idle" /\ Others(t)
  BY <1>1, <1>2, ConstantsAssumption, ReturnTypes
<1>4. RequestTypes'
  BY DEF TypeOK, RequestTypes
<1>5. TypeOK'
  BY <1>3, <1>4, TypeFrame DEF TypeOK, LockTypes
<1>6. NoDanglingEntry'
  BY <1>1 DEF NoDanglingEntry, EntryOfCall, tableVars
<1>7. \A u \in Callers \ {t} : InCall(u) => Req(u) \in live'
  BY <1>1 DEF OwnRequest
<1> QED BY <1>3, <1>5, <1>6, <1>7, OutOfCall

-----------------------------------------------------------------------------
(* The first step that owns a request. *)

\* The new request gets an id that no entry, no message on the wire and no
\* other call has.
LEMMA ComposeInv == ASSUME IInv, NEW t \in Callers, Compose(t) PROVE IInv'
<1> USE DEF IInv, Compose
<1>1. PICK r \in Requests \ live, exc \in BOOLEAN :
         /\ live' = live \cup {r}
         /\ request' = [request EXCEPT ![r] = NewRequest(nextId, t, exc)]
         /\ call' = [call EXCEPT ![t].req = r]
         /\ call[t].api # "callMethodId" => ~ exc
  BY DEF InitialException
<1> DEFINE new == NewRequest(nextId, t, exc)
<1>2. new \in RequestType
  BY NewRequestType DEF Ids
<1>3. /\ new.messageId = nextId /\ new.mutex = t /\ new.response = 0 /\ new.waiter = None
      /\ call[t].api # "callMethodId" => ~ new.exception
  BY <1>1 DEF NewRequest
<1> HIDE DEF new
<1>4. RequestTypes' /\ request'[r] = new /\ \A s \in Requests \ {r} : request'[s] = request[s]
  <2>1. request' = [request EXCEPT ![r] = new]
    BY <1>1 DEF new
  <2> QED BY <1>1, <1>2, <2>1 DEF TypeOK, RequestTypes
<1>5. /\ call' \in [Callers -> CallType]
      /\ call'[t].conn = Conn(t) /\ call'[t].req = r /\ call'[t].api = call[t].api
      /\ \A u \in Callers \ {t} : call'[u] = call[u]
  <2> DEFINE mine == [call[t] EXCEPT !.req = r]
  <2>0. call[t] \in CallType
    BY DEF TypeOK, CallerTypes
  <2>1. mine \in CallType
    BY <2>0 DEF CallType
  <2>3. mine.conn = call[t].conn /\ mine.req = r /\ mine.api = call[t].api
    BY <2>0 DEF CallType
  <2>2. call' = [call EXCEPT ![t] = mine]
    BY <1>1
  <2> HIDE DEF mine
  <2> QED BY <2>1, <2>2, <2>3 DEF TypeOK, CallerTypes, Conn
<1>6. pc' \in [Callers -> Steps] /\ pc[t] = "lookup" /\ pc'[t] = "register"
      /\ \A u \in Callers \ {t} : pc'[u] = pc[u]
  BY SMTT(10) DEF TypeOK, CallerTypes, Goto, Steps
<1>7. TypeOK'
  <2>1. CallerTypes'
    BY <1>5, <1>6 DEF TypeOK, CallerTypes
  <2>2. LockTypes'
    BY DEF TypeOK, LockTypes
  <2>3. TableTypes'
    BY ConstantsAssumption DEF TypeOK, TableTypes, Ids
  <2> QED BY <1>4, <2>1, <2>2, <2>3, TypeFrame DEF TypeOK
<1>8. nextId' = nextId + 1 /\ nextId \in Nat /\ UNCHANGED <<messages, listeners>>
  BY DEF TypeOK, TableTypes
<1>20. /\ InCall(t)' /\ ~ InCall(t) /\ ~ IsSent(t)' /\ Req(t)' = r /\ r \in live' /\ Id(t)' = nextId /\ Conn(t)' = Conn(t)
  BY <1>1, <1>3, <1>4, <1>5, <1>6 DEF InCall, IsSent, Steps, Req, Id, Conn
<1>21. ASSUME NEW u \in Callers \ {t}
       PROVE  /\ pc'[u] = pc[u] /\ (InCall(u)' <=> InCall(u)) /\ (IsSent(u)' <=> IsSent(u)) /\ Conn(u)' = Conn(u) /\ Req(u)' = Req(u)
              /\ InCall(u) => /\ Req(u) # r /\ Req(u) \in live' /\ request'[Req(u)] = request[Req(u)]
                              /\ Id(u)' = Id(u)
  BY <1>1, <1>4, <1>5, <1>6, <1>21 DEF InCall, IsSent, Steps, Req, Id, Conn, OwnRequest, TypeOK, RequestTypes
<1>9. OwnRequest'
  <2>1. \A u \in Callers : pc'[u] # "idle" => Conn(u)' \in Conns
    BY <1>6, <1>20, <1>21 DEF OwnRequest
  <2>2. \A u \in Callers : InCall(u)' => Req(u)' \in live' /\ Id(u)' \in Ids /\ Id(u)' < nextId'
    BY <1>8, <1>20, <1>21 DEF OwnRequest, TypeOK, TableTypes, Ids
  <2>3. \A u, v \in Callers : InCall(u)' /\ InCall(v)' /\ u # v =>
          Req(u)' # Req(v)' /\ Id(u)' # Id(v)'
    <3>1. \A u \in Callers \ {t} : InCall(u)' => Req(u)' # r /\ Id(u)' # nextId
      BY <1>8, <1>21 DEF OwnRequest, Ids
    <3> QED BY <1>20, <1>21, <3>1 DEF OwnRequest
  <2> QED BY <2>1, <2>2, <2>3 DEF OwnRequest
<1>10. SentIds'
  <2>1. \A i \in sent : i < nextId' /\ i # nextId
    BY <1>8 DEF SentIds, TypeOK, WireTypes, Ids
  <2>2. \A u \in Callers : InCall(u)' /\ Id(u)' \in sent => IsSent(u)'
    BY <1>20, <1>21, <2>1 DEF SentIds
  <2> QED BY <2>1, <2>2 DEF SentIds, wireVars, listenerVars
<1>11. NoDanglingEntry' /\ EntryKnown'
  BY <1>1, <1>6, <1>8, <1>21 DEF NoDanglingEntry, EntryKnown, TypeOK, TableTypes, Ids
<1>12. EntryOfSent'
  BY <1>1, <1>4, <1>5, <1>6, <1>8, SMTT(10)
     DEF EntryOfSent, OwnRequest, TypeOK, RequestTypes, InCall, Steps, IsSent, Conn, Req, Id, wireVars
<1>13. EntryOfCall'
  BY <1>1, <1>4, <1>5, <1>6, <1>8, ConstantsAssumption, SMTT(10)
     DEF EntryOfCall, NoDanglingEntry, OwnRequest, TypeOK, RequestTypes, InCall, Steps, Conn, Req, Id
<1>14. EntryById'
  <2>1. \A d \in Conns : messages[d][nextId] = None
    BY <1>8 DEF EntryKnown, TypeOK, TableTypes, OwnRequest, Ids
  <2> QED BY <1>8, <1>20, <1>21, <2>1 DEF EntryById
<1>15. ListenerHolds'
  BY <1>1, <1>4, <1>8, SMTT(10)
     DEF ListenerHolds, NoDanglingEntry, TypeOK, RequestTypes, listenerVars
<1>16. CallerHolds'
  <2>1. /\ request'[Req(t)'].mutex = t /\ request'[Req(t)'].response = 0
        /\ call'[t].api # "callMethodId" => ~ request'[Req(t)'].exception
    BY <1>3, <1>4, <1>5, <1>20
  <2>2. ASSUME NEW u \in Callers \ {t}, InCall(u)
        PROVE  call'[u] = call[u] /\ request'[Req(u)'] = request[Req(u)]
    BY <1>5, <1>21, <2>2
  <2>3. \A u \in Callers : pc'[u] \in {"register", "insert", "send", "tryWait", "waiting"} =>
                              u = t \/ InCall(u)
    BY <1>6 DEF InCall, Steps
  <2> QED BY <1>6, <2>1, <2>2, <2>3 DEF CallerHolds
<1> QED BY <1>7, <1>9, <1>10, <1>11, <1>12, <1>13, <1>14, <1>15, <1>16

-----------------------------------------------------------------------------
(* Steps of an open call. *)

\* A step of an open call that changes neither its connection nor its request
\* nor its id, and leaves the other threads alone.
LEMMA Advance ==
  ASSUME IInv, NEW t \in Callers, Others(t), InCall(t), InCall(t)',
         call'[t].conn = call[t].conn, call'[t].req = call[t].req,
         UNCHANGED <<live, nextId>>,
         \A r \in live : request'[r].messageId = request[r].messageId
  PROVE  /\ OwnRequest'
         /\ \A u \in Callers : (InCall(u)' <=> InCall(u)) /\ Conn(u)' = Conn(u) /\ Req(u)' = Req(u)
         /\ \A u \in Callers : InCall(u) => Id(u)' = Id(u)
         /\ \A u \in Callers \ {t} : pc'[u] = pc[u] /\ (IsSent(u)' <=> IsSent(u))
<1>1. \A u \in Callers \ {t} : /\ pc'[u] = pc[u] /\ (InCall(u)' <=> InCall(u))
                               /\ (IsSent(u)' <=> IsSent(u)) /\ call'[u] = call[u]
  BY DEF Others, InCall, IsSent
<1>2. \A u \in Callers : (InCall(u)' <=> InCall(u)) /\ Conn(u)' = Conn(u) /\ Req(u)' = Req(u)
  BY <1>1 DEF Conn, Req
<1>3. \A u \in Callers : InCall(u) => Id(u)' = Id(u)
  <2>1. \A u \in Callers : InCall(u) => Req(u) \in live
    BY DEF IInv, OwnRequest
  <2> QED BY <1>2, <2>1 DEF Id
<1>4. pc[t] # "idle" /\ pc'[t] # "idle"
  BY DEF InCall
<1>5. OwnRequest'
  BY <1>1, <1>2, <1>3, <1>4 DEF IInv, OwnRequest
<1> QED BY <1>1, <1>2, <1>3, <1>5

\* A step like the one of Advance that also leaves the tables, the wires and
\* the listeners' frames alone.
LEMMA Move ==
  ASSUME IInv, NEW t \in Callers, Others(t), InCall(t), InCall(t)',
         call'[t].conn = call[t].conn, call'[t].req = call[t].req,
         UNCHANGED <<live, nextId, listeners, messages, lstep, lframe, toServer, toClient, sent>>,
         \A r \in live : request'[r].messageId = request[r].messageId,
         IsSent(t) => IsSent(t)', Id(t) \in sent => IsSent(t),
         pc'[t] # "register", pc'[t] = "insert" => pc[t] = "register" /\ Conn(t) \in listeners,
         pc'[t] \in {"insert", "finish"} => \A c \in Conns, i \in Ids : messages[c][i] # Req(t)
  PROVE  /\ OwnRequest' /\ SentIds' /\ NoDanglingEntry'
         /\ EntryKnown' /\ EntryOfSent' /\ EntryOfCall' /\ EntryById'
         /\ \A u \in Callers : (InCall(u)' <=> InCall(u)) /\ Conn(u)' = Conn(u) /\ Req(u)' = Req(u)
<1> USE DEF IInv
<1>1. /\ OwnRequest'
      /\ \A u \in Callers : (InCall(u)' <=> InCall(u)) /\ Conn(u)' = Conn(u) /\ Req(u)' = Req(u)
      /\ \A u \in Callers : InCall(u) => Id(u)' = Id(u)
      /\ \A u \in Callers \ {t} : pc'[u] = pc[u] /\ (IsSent(u)' <=> IsSent(u))
  BY Advance
<1>2. SentIds'
  BY <1>1 DEF SentIds
<1>3. NoDanglingEntry' /\ EntryKnown'
  BY <1>1 DEF NoDanglingEntry, EntryKnown
<1>4. EntryOfSent'
  <2> SUFFICES ASSUME NEW c \in Conns, NEW i \in Ids, messages[c][i] # None, i \in sent
               PROVE  \E u \in Callers : /\ IsSent(u)' /\ pc'[u] # "finish" /\ Conn(u)' = c
                                         /\ Id(u)' = i /\ Req(u)' = messages[c][i]
    BY DEF EntryOfSent
  <2>1. PICK u \in Callers : /\ IsSent(u) /\ pc[u] # "finish" /\ Conn(u) = c
                             /\ Id(u) = i /\ Req(u) = messages[c][i]
    BY DEF EntryOfSent
  <2>2. InCall(u)
    BY <2>1 DEF IsSent, InCall, Steps
  <2>3. IsSent(u)' /\ pc'[u] # "finish"
    BY <1>1, <2>1
  <2> QED BY <1>1, <2>1, <2>2, <2>3
<1>5. EntryOfCall'
  <2>1. InCall(t) /\ InCall(t)' => \A c \in Conns, i \in Ids : messages[c][i] = Req(t) =>
            pc'[t] \in {"send", "tryWait", "waiting", "remove", "erase"}
    BY DEF InCall, Steps
  <2> QED BY <1>1, <2>1 DEF EntryOfCall
<1>6. EntryById'
  BY <1>1 DEF EntryById
<1> QED BY <1>1, <1>2, <1>3, <1>4, <1>5, <1>6

\* addMessage looks for the connection's listener.
LEMMA RegisterInv == ASSUME IInv, NEW t \in Callers, Register(t) PROVE IInv'
<1> USE DEF IInv, Register
<1>1. TypeOK'
  <2>1. CallerTypes' /\ LockTypes'
    BY DEF TypeOK, CallerTypes, LockTypes, Goto, Steps
  <2> QED BY <2>1, TypeFrame DEF TypeOK
<1>2. /\ pc[t] = "register" /\ pc'[t] \in {"insert", "send"} /\ Others(t)
      /\ pc'[t] = "insert" => Conn(t) \in listeners
      /\ InCall(t) /\ InCall(t)' /\ ~ IsSent(t)
  BY DEF TypeOK, CallerTypes, Goto, Others, InCall, IsSent, Steps
<1>3. UNCHANGED <<call, live, request, listeners, messages, nextId, lstep, lframe, lreq,
                  toServer, toClient, sent, messagesMutex>>
  BY DEF requestVars, tableVars, listenerVars, wireVars
<1> HIDE DEF Register
<1>4. Id(t) \notin sent
  BY <1>2 DEF SentIds
<1>5. \A c \in Conns, i \in Ids : messages[c][i] # Req(t)
  BY <1>2 DEF EntryOfCall
<1>6. /\ OwnRequest' /\ SentIds' /\ NoDanglingEntry'
      /\ EntryKnown' /\ EntryOfSent' /\ EntryOfCall' /\ EntryById'
  BY <1>2, <1>3, <1>4, <1>5, Move
<1>7. ListenerHolds'
  BY <1>3 DEF ListenerHolds
<1>8. CallerHolds'
  BY <1>2, <1>3 DEF CallerHolds, Others, Req
<1> QED BY <1>1, <1>6, <1>7, <1>8

\* tryWait returns.
LEMMA WakeUpInv == ASSUME IInv, NEW t \in Callers, WakeUp(t) PROVE IInv'
<1> USE DEF IInv, WakeUp
<1>1. TypeOK'
  <2>1. CallerTypes'
    BY DEF TypeOK, CallerTypes, Goto, Steps
  <2> QED BY <2>1, TypeFrame DEF TypeOK
<1>2. /\ pc[t] = "waiting" /\ pc'[t] = "remove" /\ Others(t)
      /\ InCall(t) /\ InCall(t)' /\ IsSent(t) /\ IsSent(t)'
  BY DEF TypeOK, CallerTypes, Goto, Others, InCall, IsSent, Steps
<1>3. UNCHANGED <<call, live, request, listeners, messages, nextId, lstep, lframe, lreq,
                  toServer, toClient, sent, messagesMutex>>
  BY DEF requestVars, lockVars, tableVars, listenerVars, wireVars
<1> HIDE DEF WakeUp
<1>4. /\ OwnRequest' /\ SentIds' /\ NoDanglingEntry'
      /\ EntryKnown' /\ EntryOfSent' /\ EntryOfCall' /\ EntryById'
  BY <1>2, <1>3, Move
<1>5. ListenerHolds'
  BY <1>3 DEF ListenerHolds
<1>6. CallerHolds'
  BY <1>2, <1>3 DEF CallerHolds, Others, Req
<1> QED BY <1>1, <1>4, <1>5, <1>6

\* removeMessage looks for the connection's listener.
LEMMA RemoveInv == ASSUME IInv, NEW t \in Callers, Remove(t) PROVE IInv'
<1> USE DEF IInv, Remove
<1>1. TypeOK'
  <2>1. CallerTypes' /\ LockTypes'
    BY DEF TypeOK, CallerTypes, LockTypes, Goto, Steps
  <2> QED BY <2>1, TypeFrame DEF TypeOK
<1>2. /\ pc[t] = "remove" /\ pc'[t] \in {"erase", "finish"} /\ Others(t)
      /\ pc'[t] = "finish" => Conn(t) \notin listeners
      /\ InCall(t) /\ InCall(t)' /\ IsSent(t) /\ IsSent(t)'
  BY DEF TypeOK, CallerTypes, Goto, Others, InCall, IsSent, Steps
<1>3. UNCHANGED <<call, live, request, listeners, messages, nextId, lstep, lframe, lreq,
                  toServer, toClient, sent, messagesMutex>>
  BY DEF requestVars, tableVars, listenerVars, wireVars
<1> HIDE DEF Remove
<1>4. pc'[t] = "finish" => \A c \in Conns, i \in Ids : messages[c][i] # Req(t)
  <2>1. Req(t) # None
    BY <1>2, ConstantsAssumption DEF OwnRequest, TypeOK, RequestTypes
  <2> QED BY <1>2, <2>1 DEF EntryOfCall, EntryKnown
<1>5. /\ OwnRequest' /\ SentIds' /\ NoDanglingEntry'
      /\ EntryKnown' /\ EntryOfSent' /\ EntryOfCall' /\ EntryById'
  BY <1>2, <1>3, <1>4, Move
<1>6. ListenerHolds'
  BY <1>3 DEF ListenerHolds
<1>7. CallerHolds'
  BY <1>2, <1>3 DEF CallerHolds, Others, Req
<1> QED BY <1>1, <1>5, <1>6, <1>7

\* tryWait gives up the request's mutex.  No listener holds that mutex: its
\* owner was the caller.
LEMMA TryWaitInv == ASSUME IInv, NEW t \in Callers, TryWait(t) PROVE IInv'
<1> USE DEF IInv, TryWait
<1>1. /\ pc[t] = "tryWait" /\ pc'[t] = "waiting" /\ Others(t)
      /\ InCall(t) /\ InCall(t)' /\ IsSent(t) /\ IsSent(t)'
  BY DEF TypeOK, CallerTypes, Goto, Others, InCall, IsSent, Steps
<1> DEFINE mine == [request[Req(t)] EXCEPT !.mutex = None, !.waiter = t]
<1>2. Req(t) \in live /\ Req(t) \in Requests /\ request[Req(t)] \in RequestType
  BY <1>1 DEF OwnRequest, TypeOK, RequestTypes
<1>3. /\ mine \in RequestType /\ mine.messageId = request[Req(t)].messageId
      /\ mine.response = request[Req(t)].response /\ mine.exception = request[Req(t)].exception
  BY <1>2 DEF RequestType
<1>4. request' = [request EXCEPT ![Req(t)] = mine]
  OBVIOUS
<1> HIDE DEF mine
<1>5. /\ RequestTypes' /\ request'[Req(t)] = mine
      /\ \A r \in Requests \ {Req(t)} : request'[r] = request[r]
  BY <1>2, <1>3, <1>4 DEF TypeOK, RequestTypes
<1>6. TypeOK'
  <2>1. CallerTypes'
    BY DEF TypeOK, CallerTypes, Goto, Steps
  <2> QED BY <1>5, <2>1, TypeFrame DEF TypeOK
<1>7. UNCHANGED <<call, live, listeners, messages, nextId, lstep, lframe, lreq,
                  toServer, toClient, sent, messagesMutex>>
  BY DEF lockVars, tableVars, listenerVars, wireVars
<1> HIDE DEF TryWait
<1>8. \A r \in live : request'[r].messageId = request[r].messageId
  BY <1>3, <1>5 DEF TypeOK, RequestTypes
<1>9. /\ OwnRequest' /\ SentIds' /\ NoDanglingEntry'
      /\ EntryKnown' /\ EntryOfSent' /\ EntryOfCall' /\ EntryById'
      /\ \A u \in Callers : (InCall(u)' <=> InCall(u)) /\ Conn(u)' = Conn(u) /\ Req(u)' = Req(u)
  BY <1>1, <1>7, <1>8, Move
<1>10. ListenerHolds'
  <2>1. request[Req(t)].mutex = t
    BY <1>1 DEF CallerHolds
  <2>2. \A c \in Conns : lstep[c] = "deliver" => lreq[c] \in Requests \ {Req(t)}
    BY <2>1, ConstantsAssumption DEF ListenerHolds, NoDanglingEntry, TypeOK, RequestTypes
  <2> QED BY <1>5, <1>7, <2>2 DEF ListenerHolds
<1>11. CallerHolds'
  <2>1. \A u \in Callers \ {t} : InCall(u) => request'[Req(u)] = request[Req(u)]
    BY <1>1, <1>5 DEF OwnRequest, TypeOK, RequestTypes
  <2>2. \A u \in Callers : pc[u] \in {"register", "insert", "send", "tryWait", "waiting"} => InCall(u)
    BY DEF InCall, Steps
  <2> QED BY <1>1, <1>3, <1>5, <1>7, <1>9, <2>1, <2>2 DEF CallerHolds, Others
<1> QED BY <1>6, <1>9, <1>10, <1>11

\* The wait times out.
LEMMA TimeOutInv == ASSUME IInv, NEW t \in Callers, TimeOut(t) PROVE IInv'
<1> USE DEF IInv, TimeOut
<1>1. /\ pc[t] = "waiting" /\ pc' = pc /\ InCall(t) /\ InCall(t)' /\ IsSent(t) /\ IsSent(t)'
  BY DEF InCall, IsSent, Steps
<1> DEFINE mine == [request[Req(t)] EXCEPT !.waiter = None]
           late == [call[t] EXCEPT !.timedOut = TRUE]
<1>2. /\ Req(t) \in live /\ Req(t) \in Requests /\ request[Req(t)] \in RequestType
      /\ call[t] \in CallType
  BY <1>1 DEF OwnRequest, TypeOK, RequestTypes, CallerTypes
<1>3. /\ mine \in RequestType /\ mine.messageId = request[Req(t)].messageId
      /\ mine.mutex = request[Req(t)].mutex /\ mine.waiter = None
  BY <1>2 DEF RequestType
<1>4. late \in CallType /\ late.conn = call[t].conn /\ late.req = call[t].req
  BY <1>2 DEF CallType
<1>5. request' = [request EXCEPT ![Req(t)] = mine] /\ call' = [call EXCEPT ![t] = late]
  OBVIOUS
<1> HIDE DEF mine, late
<1>6. /\ RequestTypes' /\ request'[Req(t)] = mine
      /\ \A r \in Requests \ {Req(t)} : request'[r] = request[r]
  BY <1>2, <1>3, <1>5 DEF TypeOK, RequestTypes
<1>7. /\ CallerTypes' /\ Others(t)
      /\ call'[t].conn = call[t].conn /\ call'[t].req = call[t].req
  <2>1. call' \in [Callers -> CallType]
    BY <1>4, <1>5 DEF TypeOK, CallerTypes
  <2>2. call'[t] = late /\ \A u \in Callers \ {t} : call'[u] = call[u]
    BY <1>5 DEF TypeOK, CallerTypes
  <2>3. CallerTypes'
    BY <1>1, <2>1 DEF TypeOK, CallerTypes
  <2> QED BY <1>1, <1>4, <2>2, <2>3 DEF Others
<1>8. TypeOK'
  BY <1>6, <1>7, TypeFrame DEF TypeOK
<1>9. UNCHANGED <<live, listeners, messages, nextId, lstep, lframe, lreq,
                  toServer, toClient, sent, messagesMutex>>
  BY DEF lockVars, tableVars, listenerVars, wireVars
<1> HIDE DEF TimeOut
<1>10. \A r \in live : request'[r].messageId = request[r].messageId
  BY <1>3, <1>6 DEF TypeOK, RequestTypes
<1>11. /\ OwnRequest' /\ SentIds' /\ NoDanglingEntry'
       /\ EntryKnown' /\ EntryOfSent' /\ EntryOfCall' /\ EntryById'
       /\ \A u \in Callers : (InCall(u)' <=> InCall(u)) /\ Conn(u)' = Conn(u) /\ Req(u)' = Req(u)
  BY <1>1, <1>7, <1>9, <1>10, Move
<1>12. ListenerHolds'
  <2>1. \A r \in Requests : request'[r].mutex = request[r].mutex
    BY <1>3, <1>6
  <2>2. \A c \in Conns : lstep[c] = "deliver" => lreq[c] \in Requests
    BY DEF ListenerHolds, NoDanglingEntry, TypeOK, RequestTypes
  <2> QED BY <1>9, <2>1, <2>2 DEF ListenerHolds
<1>13. CallerHolds'
  <2>1. \A u \in Callers \ {t} : InCall(u) => request'[Req(u)] = request[Req(u)]
    BY <1>1, <1>6 DEF OwnRequest, TypeOK, RequestTypes
  <2>2. \A u \in Callers : pc[u] \in {"register", "insert", "send", "tryWait", "waiting"} => InCall(u)
    BY DEF InCall, Steps
  <2>3. request'[Req(t)'].waiter # t
    BY <1>3, <1>6, <1>11, ConstantsAssumption
  <2> QED BY <1>1, <1>7, <1>11, <2>1, <2>2, <2>3 DEF CallerHolds, Others
<1> QED BY <1>8, <1>11, <1>12, <1>13

\* The entry is made before the message is sent, under an id of its own.
LEMMA InsertInv == ASSUME IInv, NEW t \in Callers, Insert(t) PROVE IInv'
<1> USE DEF IInv, Insert
<1>1. /\ pc[t] = "insert" /\ pc'[t] = "send" /\ Others(t)
      /\ InCall(t) /\ InCall(t)' /\ ~ IsSent(t) /\ ~ IsSent(t)'
  BY DEF TypeOK, CallerTypes, Goto, Others, InCall, IsSent, Steps
<1>2. UNCHANGED <<call, live, request, listeners, nextId, lstep, lframe, lreq,
                  toServer, toClient, sent, messagesMutex>>
  BY DEF requestVars, listenerVars, wireVars
<1>3. /\ Req(t) \in live /\ Req(t) \in Requests /\ Req(t) # None
      /\ Conn(t) \in Conns /\ Id(t) \in Ids /\ Id(t) < nextId /\ Id(t) \notin sent
  BY <1>1, ConstantsAssumption DEF OwnRequest, SentIds, TypeOK, RequestTypes, InCall
<1>4. /\ messages' = [messages EXCEPT ![Conn(t)][Id(t)] = Req(t)]
      /\ messages'[Conn(t)][Id(t)] = Req(t)
      /\ \A c \in Conns, i \in Ids : c # Conn(t) \/ i # Id(t) => messages'[c][i] = messages[c][i]
      /\ messages' \in [Conns -> [Ids -> Requests \cup {None}]]
  <2>1. messages[Conn(t)][Id(t)] = None
    BY <1>1, <1>3 DEF EntryById, EntryOfCall
  <2> QED BY <1>3, <2>1 DEF TypeOK, TableTypes
<1>5. TypeOK'
  <2>1. CallerTypes' /\ LockTypes' /\ TableTypes'
    BY <1>4 DEF TypeOK, CallerTypes, LockTypes, TableTypes, Goto, Steps
  <2> QED BY <2>1, TypeFrame DEF TypeOK
<1>6. /\ OwnRequest'
      /\ \A u \in Callers : (InCall(u)' <=> InCall(u)) /\ Conn(u)' = Conn(u) /\ Req(u)' = Req(u)
      /\ \A u \in Callers : InCall(u) => Id(u)' = Id(u)
      /\ \A u \in Callers \ {t} : pc'[u] = pc[u] /\ (IsSent(u)' <=> IsSent(u))
  BY <1>1, <1>2, Advance
<1>7. Conn(t) \in listeners
  BY <1>1 DEF EntryKnown
<1> HIDE DEF Insert
<1>8. SentIds'
  BY <1>1, <1>2, <1>3, <1>6 DEF SentIds
<1>9. NoDanglingEntry' /\ EntryKnown'
  BY <1>1, <1>2, <1>3, <1>4, <1>6, <1>7 DEF NoDanglingEntry, EntryKnown
<1>10. EntryOfSent'
  <2> SUFFICES ASSUME NEW c \in Conns, NEW i \in Ids, messages'[c][i] # None, i \in sent
               PROVE  \E u \in Callers : /\ IsSent(u)' /\ pc'[u] # "finish" /\ Conn(u)' = c
                                         /\ Id(u)' = i /\ Req(u)' = messages'[c][i]
    BY <1>2 DEF EntryOfSent
  <2>1. messages'[c][i] = messages[c][i]
    BY <1>3, <1>4
  <2>2. PICK u \in Callers : /\ IsSent(u) /\ pc[u] # "finish" /\ Conn(u) = c
                             /\ Id(u) = i /\ Req(u) = messages[c][i]
    BY <2>1 DEF EntryOfSent
  <2>3. InCall(u)
    BY <2>2 DEF IsSent, InCall, Steps
  <2>4. u # t
    BY <1>1, <2>2
  <2> QED BY <1>6, <2>1, <2>2, <2>3, <2>4
<1>11. EntryOfCall'
  <2> SUFFICES ASSUME NEW u \in Callers, NEW c \in Conns, NEW i \in Ids,
                      InCall(u)', messages'[c][i] = Req(u)'
               PROVE  /\ pc'[u] \in {"send", "tryWait", "waiting", "remove", "erase"}
                      /\ Conn(u)' = c /\ Id(u)' = i
    BY DEF EntryOfCall
  <2>1. CASE c = Conn(t) /\ i = Id(t)
    <3>1. u = t
      BY <1>1, <1>4, <1>6, <2>1 DEF OwnRequest
    <3> QED BY <1>1, <1>6, <2>1, <3>1
  <2>2. CASE ~ (c = Conn(t) /\ i = Id(t))
    <3>1. messages[c][i] = Req(u) /\ InCall(u)
      BY <1>4, <1>6, <2>2
    <3>2. u # t
      BY <1>1, <3>1 DEF EntryOfCall
    <3> QED BY <1>6, <3>1, <3>2 DEF EntryOfCall
  <2> QED BY <2>1, <2>2
<1>12. EntryById'
  <2>1. \A u \in Callers \ {t} : InCall(u) => Id(u) # Id(t) /\ Id(u) \in Ids
    BY <1>1 DEF OwnRequest
  <2>2. \A c \in Conns \ {Conn(t)} : messages[c][Id(t)] = None
    BY <1>1, <1>3 DEF EntryById
  <2> QED BY <1>1, <1>3, <1>4, <1>6, <2>1, <2>2 DEF EntryById
<1>13. ListenerHolds'
  <2>1. \A c \in Conns : lstep[c] \in {"lock", "deliver"} =>
            lframe[c].to \in Ids /\ messages'[c][lframe[c].to] = messages[c][lframe[c].to]
    BY <1>3, <1>4 DEF ListenerHolds, SentIds
  <2> QED BY <1>2, <2>1 DEF ListenerHolds
<1>14. CallerHolds'
  BY <1>1, <1>2 DEF CallerHolds, Others, Req
<1> QED BY <1>5, <1>6, <1>8, <1>9, <1>10, <1>11, <1>12, <1>13, <1>14

\* The entry goes while no listener is between its find and its delivery:
\* removeMessage waits for messagesMutex.
LEMMA EraseInv == ASSUME IInv, NEW t \in Callers, Erase(t) PROVE IInv'
<1> USE DEF IInv, Erase
<1>1. /\ pc[t] = "erase" /\ pc'[t] = "finish" /\ Others(t)
      /\ InCall(t) /\ InCall(t)' /\ IsSent(t) /\ IsSent(t)'
  BY DEF TypeOK, CallerTypes, Goto, Others, InCall, IsSent, Steps
<1>2. UNCHANGED <<call, live, request, listeners, nextId, lstep, lframe, lreq,
                  toServer, toClient, sent, messagesMutex>>
  BY DEF requestVars, listenerVars, wireVars
<1>3. /\ Req(t) \in live /\ Req(t) \in Requests /\ Req(t) # None
      /\ Conn(t) \in Conns /\ Id(t) \in Ids
  BY <1>1, ConstantsAssumption DEF OwnRequest, TypeOK, RequestTypes, InCall
<1>4. /\ messages'[Conn(t)][Id(t)] = None
      /\ \A c \in Conns, i \in Ids : c # Conn(t) \/ i # Id(t) => messages'[c][i] = messages[c][i]
      /\ messages' \in [Conns -> [Ids -> Requests \cup {None}]]
  BY <1>1, <1>3 DEF TypeOK, TableTypes
<1>5. TypeOK'
  <2>1. CallerTypes' /\ LockTypes' /\ TableTypes'
    BY <1>4 DEF TypeOK, CallerTypes, LockTypes, TableTypes, Goto, Steps
  <2> QED BY <2>1, TypeFrame DEF TypeOK
<1>6. /\ OwnRequest'
      /\ \A u \in Callers : (InCall(u)' <=> InCall(u)) /\ Conn(u)' = Conn(u) /\ Req(u)' = Req(u)
      /\ \A u \in Callers : InCall(u) => Id(u)' = Id(u)
      /\ \A u \in Callers \ {t} : pc'[u] = pc[u] /\ (IsSent(u)' <=> IsSent(u))
  BY <1>1, <1>2, Advance
<1>7. messagesMutex[Conn(t)] = None
  OBVIOUS
<1> HIDE DEF Erase
<1>8. SentIds'
  BY <1>1, <1>2, <1>6 DEF SentIds
<1>9. NoDanglingEntry' /\ EntryKnown'
  BY <1>1, <1>2, <1>4, <1>6 DEF NoDanglingEntry, EntryKnown
<1>10. EntryOfSent'
  <2> SUFFICES ASSUME NEW c \in Conns, NEW i \in Ids, messages'[c][i] # None, i \in sent
               PROVE  \E u \in Callers : /\ IsSent(u)' /\ pc'[u] # "finish" /\ Conn(u)' = c
                                         /\ Id(u)' = i /\ Req(u)' = messages'[c][i]
    BY <1>2 DEF EntryOfSent
  <2>1. messages'[c][i] = messages[c][i] /\ (c # Conn(t) \/ i # Id(t))
    BY <1>4
  <2>2. PICK u \in Callers : /\ IsSent(u) /\ pc[u] # "finish" /\ Conn(u) = c
                             /\ Id(u) = i /\ Req(u) = messages[c][i]
    BY <2>1 DEF EntryOfSent
  <2>3. InCall(u)
    BY <2>2 DEF IsSent, InCall, Steps
  <2>4. u # t
    BY <2>1, <2>2
  <2> QED BY <1>6, <2>1, <2>2, <2>3, <2>4
<1>11. EntryOfCall'
  <2> SUFFICES ASSUME NEW u \in Callers, NEW c \in Conns, NEW i \in Ids,
                      InCall(u)', messages'[c][i] = Req(u)'
               PROVE  /\ pc'[u] \in {"send", "tryWait", "waiting", "remove", "erase"}
                      /\ Conn(u)' = c /\ Id(u)' = i
    BY DEF EntryOfCall
  <2>1. Req(u)' # None /\ InCall(u)
    BY <1>6, ConstantsAssumption DEF OwnRequest, TypeOK, RequestTypes
  <2>2. messages[c][i] = Req(u) /\ (c # Conn(t) \/ i # Id(t))
    BY <1>4, <1>6, <2>1
  <2>3. u # t
    BY <2>1, <2>2 DEF EntryOfCall
  <2> QED BY <1>6, <2>1, <2>2, <2>3 DEF EntryOfCall
<1>12. EntryById'
  <2>1. \A u \in Callers : InCall(u) => Id(u) \in Ids
    BY DEF OwnRequest
  <2> QED BY <1>4, <1>6, <2>1 DEF EntryById
<1>13. ListenerHolds'
  <2>1. \A c \in Conns : lstep[c] \in {"lock", "deliver"} =>
            lframe[c].to \in Ids /\ messages'[c][lframe[c].to] = messages[c][lframe[c].to]
    BY <1>4, <1>7, ConstantsAssumption DEF ListenerHolds
  <2> QED BY <1>2, <2>1 DEF ListenerHolds
<1>14. CallerHolds'
  BY <1>1, <1>2 DEF CallerHolds, Others, Req
<1> QED BY <1>5, <1>6, <1>8, <1>9, <1>10, <1>11, <1>12, <1>13, <1>14

\* With the send the entry becomes one that an answer may reach, and by
\* EntryById it is the sender's own.
LEMMA SendInv == ASSUME IInv, NEW t \in Callers, Send(t) PROVE IInv'
<1> USE DEF IInv, Send
<1>1. /\ pc[t] = "send" /\ pc'[t] = "tryWait" /\ Others(t)
      /\ InCall(t) /\ InCall(t)' /\ ~ IsSent(t) /\ IsSent(t)'
  BY DEF TypeOK, CallerTypes, Goto, Others, InCall, IsSent, Steps
<1>2. UNCHANGED <<call, live, request, listeners, messages, nextId, lstep, lframe, lreq,
                  toClient, messagesMutex>>
  BY DEF requestVars, tableVars, listenerVars
<1>3. Conn(t) \in Conns /\ Id(t) \in Ids /\ Id(t) < nextId
  BY <1>1 DEF OwnRequest, InCall
<1>4. /\ toServer'[Conn(t)] = Append(toServer[Conn(t)], Id(t))
      /\ \A c \in Conns \ {Conn(t)} : toServer'[c] = toServer[c]
      /\ toServer' \in [Conns -> Seq(Ids)]
  BY <1>3 DEF TypeOK, WireTypes
<1>5. sent' = sent \cup {Id(t)}
  OBVIOUS
<1>6. TypeOK'
  <2>1. CallerTypes' /\ LockTypes'
    BY DEF TypeOK, CallerTypes, LockTypes, Goto, Steps
  <2>2. WireTypes'
    BY <1>3, <1>4 DEF TypeOK, WireTypes
  <2> QED BY <2>1, <2>2, TypeFrame DEF TypeOK
<1>7. /\ OwnRequest'
      /\ \A u \in Callers : (InCall(u)' <=> InCall(u)) /\ Conn(u)' = Conn(u) /\ Req(u)' = Req(u)
      /\ \A u \in Callers : InCall(u) => Id(u)' = Id(u)
      /\ \A u \in Callers \ {t} : pc'[u] = pc[u] /\ (IsSent(u)' <=> IsSent(u))
  BY <1>1, <1>2, Advance
<1> HIDE DEF Send
<1>8. SentIds'
  <2>1. \A c \in Conns : \A k \in 1..Len(toServer'[c]) : toServer'[c][k] \in sent'
    <3>1. toServer[Conn(t)] \in Seq(Ids)
      BY <1>3 DEF TypeOK, WireTypes
    <3>2. \A k \in 1..Len(toServer'[Conn(t)]) : toServer'[Conn(t)][k] \in sent'
      BY <1>3, <1>4, <1>5, <3>1 DEF SentIds
    <3> QED BY <1>4, <1>5, <3>2 DEF SentIds
  <2>2. \A u \in Callers : InCall(u)' /\ Id(u)' \in sent' => IsSent(u)'
    <3>1. \A u \in Callers \ {t} : InCall(u) => Id(u) # Id(t)
      BY <1>1 DEF OwnRequest
    <3> QED BY <1>1, <1>5, <1>7, <3>1 DEF SentIds
  <2> QED BY <1>2, <1>3, <1>5, <2>1, <2>2 DEF SentIds
<1>9. NoDanglingEntry' /\ EntryKnown'
  BY <1>1, <1>2, <1>7 DEF NoDanglingEntry, EntryKnown
<1>10. EntryOfSent'
  <2> SUFFICES ASSUME NEW c \in Conns, NEW i \in Ids, messages[c][i] # None, i \in sent'
               PROVE  \E u \in Callers : /\ IsSent(u)' /\ pc'[u] # "finish" /\ Conn(u)' = c
                                         /\ Id(u)' = i /\ Req(u)' = messages[c][i]
    BY <1>2 DEF EntryOfSent
  <2>1. CASE i \in sent
    <3>1. PICK u \in Callers : /\ IsSent(u) /\ pc[u] # "finish" /\ Conn(u) = c
                               /\ Id(u) = i /\ Req(u) = messages[c][i]
      BY <2>1 DEF EntryOfSent
    <3>2. InCall(u) /\ u # t
      BY <1>1, <3>1 DEF IsSent, InCall, Steps
    <3> QED BY <1>7, <3>1, <3>2
  <2>2. CASE i = Id(t)
    <3>1. c = Conn(t) /\ messages[c][i] = Req(t)
      BY <1>1, <2>2 DEF EntryById
    <3> QED BY <1>1, <1>7, <2>2, <3>1
  <2> QED BY <1>5, <2>1, <2>2
<1>11. EntryOfCall'
  BY <1>1, <1>2, <1>7 DEF EntryOfCall
<1>12. EntryById'
  BY <1>2, <1>7 DEF EntryById
<1>13. ListenerHolds'
  BY <1>2 DEF ListenerHolds
<1>14. CallerHolds'
  BY <1>1, <1>2 DEF CallerHolds, Others, Req
<1> QED BY <1>6, <1>7, <1>8, <1>9, <1>10, <1>11, <1>12, <1>13, <1>14

-----------------------------------------------------------------------------
(* Steps of the listeners and the sessions. *)

\* A step of a listener or a session leaves calls and entries as they are, as
\* long as the ids of the live requests stay.
LEMMA CallersFrame ==
  ASSUME IInv, UNCHANGED <<callerVars, tableVars, live, sent>>,
         \A r \in live : request'[r].messageId = request[r].messageId
  PROVE  /\ OwnRequest' /\ NoDanglingEntry' /\ EntryKnown' /\ EntryOfSent' /\ EntryOfCall' /\ EntryById'
         /\ \A t \in Callers : /\ (InCall(t)' <=> InCall(t)) /\ (IsSent(t)' <=> IsSent(t))
                               /\ Conn(t)' = Conn(t) /\ Req(t)' = Req(t)
                               /\ InCall(t) => Id(t)' = Id(t)
<1>1. UNCHANGED <<pc, call, listeners, messages, nextId>>
  BY DEF callerVars, tableVars
<1>2. \A t \in Callers : /\ (InCall(t)' <=> InCall(t)) /\ (IsSent(t)' <=> IsSent(t))
                         /\ Conn(t)' = Conn(t) /\ Req(t)' = Req(t)
  BY <1>1 DEF InCall, IsSent, Conn, Req
<1>3. \A t \in Callers : InCall(t) => Id(t)' = Id(t)
  <2>1. \A t \in Callers : InCall(t) => Req(t) \in live
    BY DEF IInv, OwnRequest
  <2> QED BY <1>2, <2>1 DEF Id
<1>4. OwnRequest'
  BY <1>1, <1>2, <1>3 DEF IInv, OwnRequest
<1>5. NoDanglingEntry' /\ EntryKnown' /\ EntryOfCall' /\ EntryById'
  BY <1>1, <1>2, <1>3 DEF IInv, NoDanglingEntry, EntryKnown, EntryOfCall, EntryById
<1>6. EntryOfSent'
  <2> SUFFICES ASSUME NEW c \in Conns, NEW i \in Ids, messages[c][i] # None, i \in sent
               PROVE  \E u \in Callers : /\ IsSent(u)' /\ pc'[u] # "finish" /\ Conn(u)' = c
                                         /\ Id(u)' = i /\ Req(u)' = messages[c][i]
    BY <1>1 DEF EntryOfSent
  <2>1. PICK u \in Callers : /\ IsSent(u) /\ pc[u] # "finish" /\ Conn(u) = c
                             /\ Id(u) = i /\ Req(u) = messages[c][i]
    BY DEF IInv, EntryOfSent
  <2>2. InCall(u)
    BY <2>1 DEF IsSent, InCall, Steps
  <2> QED BY <1>1, <1>2, <1>3, <2>1, <2>2
<1> QED BY <1>2, <1>3, <1>4, <1>5, <1>6

\* Nothing was put on the wires or into a listener's hands.
LEMMA SentFrame ==
  ASSUME IInv, UNCHANGED <<nextId, sent, toServer, toClient>>,
         \A t \in Callers : /\ (InCall(t)' <=> InCall(t)) /\ (IsSent(t)' <=> IsSent(t))
                            /\ InCall(t) => Id(t)' = Id(t),
         \A c \in Conns : lstep'[c] # "poll" => lstep[c] # "poll" /\ lframe'[c] = lframe[c]
  PROVE  SentIds'
<1>1. \A t \in Callers : InCall(t) /\ Id(t) \in sent => IsSent(t)
  BY DEF IInv, SentIds
<1>2. \A t \in Callers : InCall(t)' /\ Id(t)' \in sent' => IsSent(t)'
  BY <1>1
<1>3. /\ \A i \in sent : i < nextId
      /\ \A c \in Conns : lstep[c] # "poll" => lframe[c].to \in sent
      /\ \A c \in Conns : \A k \in 1..Len(toServer[c]) : toServer[c][k] \in sent
      /\ \A c \in Conns : \A k \in 1..Len(toClient[c]) : toClient[c][k].to \in sent
  BY DEF IInv, SentIds
<1> QED BY <1>2, <1>3 DEF SentIds

\* A step that changes the wires only, and puts on them only answers and
\* callbacks to messages that were sent.
LEMMA WireFrame ==
  ASSUME IInv, UNCHANGED <<callerVars, requestVars, tableVars, lockVars, listenerVars, sent>>,
         \A c \in Conns : \A k \in 1..Len(toServer'[c]) : toServer'[c][k] \in sent,
         \A c \in Conns : \A k \in 1..Len(toClient'[c]) : toClient'[c][k].to \in sent,
         WireTypes'
  PROVE  IInv'
<1>1. TypeOK'
  BY TypeFrame DEF IInv, TypeOK
<1>2. UNCHANGED <<pc, call, live, request, messagesMutex, messages, nextId, lstep, lframe, lreq>>
  BY DEF callerVars, requestVars, tableVars, lockVars, listenerVars
<1>3. /\ OwnRequest' /\ NoDanglingEntry' /\ EntryKnown' /\ EntryOfSent' /\ EntryOfCall' /\ EntryById'
      /\ \A t \in Callers : /\ (InCall(t)' <=> InCall(t)) /\ (IsSent(t)' <=> IsSent(t))
                            /\ Req(t)' = Req(t)
                            /\ InCall(t) => Id(t)' = Id(t)
  BY <1>2, CallersFrame
<1>4. SentIds'
  <2>1. \A t \in Callers : InCall(t) /\ Id(t) \in sent => IsSent(t)
    BY DEF IInv, SentIds
  <2>2. \A t \in Callers : InCall(t)' /\ Id(t)' \in sent' => IsSent(t)'
    BY <1>3, <2>1
  <2>3. /\ \A i \in sent : i < nextId
        /\ \A c \in Conns : lstep[c] # "poll" => lframe[c].to \in sent
    BY DEF IInv, SentIds
  <2> QED BY <1>2, <2>2, <2>3 DEF SentIds
<1>5. ListenerHolds'
  BY <1>2 DEF IInv, ListenerHolds
<1>6. CallerHolds'
  BY <1>2 DEF IInv, CallerHolds, Req
<1> QED BY <1>1, <1>3, <1>4, <1>5, <1>6 DEF IInv

\* The elements of a queue after its first one was taken.
LEMMA TailOfSeq ==
  ASSUME NEW S, NEW s \in Seq(S), s # <<>>
  PROVE  /\ Tail(s) \in Seq(S) /\ Head(s) \in S /\ Head(s) = s[1] /\ 1 \in 1..Len(s)
         /\ \A k \in 1..Len(Tail(s)) : k + 1 \in 1..Len(s) /\ Tail(s)[k] = s[k + 1]
OBVIOUS

\* The elements of a queue after one was added.
LEMMA AppendToSeq ==
  ASSUME NEW S, NEW s \in Seq(S), NEW e \in S
  PROVE  /\ Append(s, e) \in Seq(S)
         /\ \A k \in 1..Len(Append(s, e)) :
               Append(s, e)[k] = e \/ (k \in 1..Len(s) /\ Append(s, e)[k] = s[k])
OBVIOUS

\* What may be on the wire to the client.
Frames == [kind : {"reply", "exception", "corrupt", "callback"}, to : Ids]

\* The frame a listener takes off the wire answers a message that was sent.
LEMMA ReceivedFacts ==
  ASSUME IInv, NEW c \in Conns, Received(c)
  PROVE  /\ lstep[c] = "poll" /\ Head(toClient[c]) \in Frames /\ Head(toClient[c]).to \in sent
         /\ toClient' \in [Conns -> Seq(Frames)]
         /\ \A d \in Conns : \A k \in 1..Len(toClient'[d]) : toClient'[d][k].to \in sent
<1>1. toClient \in [Conns -> Seq(Frames)]
  BY DEF IInv, TypeOK, WireTypes, Frames
<1>2. /\ lstep[c] = "poll" /\ toClient[c] \in Seq(Frames) /\ toClient[c] # <<>>
      /\ toClient'[c] = Tail(toClient[c]) /\ toClient' = [toClient EXCEPT ![c] = Tail(toClient[c])]
      /\ \A d \in Conns \ {c} : toClient'[d] = toClient[d]
  BY <1>1 DEF Received
<1> HIDE DEF Frames
<1>3. /\ Tail(toClient[c]) \in Seq(Frames) /\ Head(toClient[c]) \in Frames
      /\ Head(toClient[c]) = toClient[c][1] /\ 1 \in 1..Len(toClient[c])
      /\ \A k \in 1..Len(Tail(toClient[c])) : /\ k + 1 \in 1..Len(toClient[c])
                                              /\ Tail(toClient[c])[k] = toClient[c][k + 1]
  BY <1>2, TailOfSeq
<1>4. \A d \in Conns : \A k \in 1..Len(toClient[d]) : toClient[d][k].to \in sent
  BY DEF IInv, SentIds
<1>5. toClient' \in [Conns -> Seq(Frames)]
  BY <1>1, <1>2, <1>3
<1>6. ASSUME NEW d \in Conns, NEW k \in 1..Len(toClient'[d])
      PROVE  toClient'[d][k].to \in sent
  <2>1. CASE d = c
    BY <1>2, <1>3, <1>4, <2>1
  <2>2. CASE d # c
    BY <1>2, <1>4, <2>2
  <2> QED BY <2>1, <2>2
<1> QED BY <1>2, <1>3, <1>4, <1>5, <1>6

\* The session puts a frame for message f.to on the wire to the client.
LEMMA AppendedFrame ==
  ASSUME IInv, NEW c \in Conns, NEW f \in Frames, f.to \in sent,
         toClient' = [toClient EXCEPT ![c] = Append(@, f)]
  PROVE  /\ toClient' \in [Conns -> Seq(Frames)]
         /\ \A d \in Conns : \A k \in 1..Len(toClient'[d]) : toClient'[d][k].to \in sent
<1>1. toClient \in [Conns -> Seq(Frames)]
  BY DEF IInv, TypeOK, WireTypes, Frames
<1>2. \A d \in Conns : \A k \in 1..Len(toClient[d]) : toClient[d][k].to \in sent
  BY DEF IInv, SentIds
<1> HIDE DEF Frames
<1>3. /\ Append(toClient[c], f) \in Seq(Frames)
      /\ \A k \in 1..Len(Append(toClient[c], f)) :
            \/ Append(toClient[c], f)[k] = f
            \/ k \in 1..Len(toClient[c]) /\ Append(toClient[c], f)[k] = toClient[c][k]
  BY <1>1, AppendToSeq
<1>4. /\ toClient'[c] = Append(toClient[c], f)
      /\ \A d \in Conns \ {c} : toClient'[d] = toClient[d]
  BY <1>1
<1>5. toClient' \in [Conns -> Seq(Frames)]
  BY <1>1, <1>3
<1>6. ASSUME NEW d \in Conns, NEW k \in 1..Len(toClient'[d])
      PROVE  toClient'[d][k].to \in sent
  <2>1. CASE d = c
    BY <1>2, <1>3, <1>4, <2>1
  <2>2. CASE d # c
    BY <1>2, <1>4, <2>2
  <2> QED BY <2>1, <2>2
<1> QED BY <1>5, <1>6

\* The session takes a message off the wire from the client.
LEMMA TakenMessage ==
  ASSUME IInv, NEW c \in Conns, toServer[c] # <<>>,
         toServer' = [toServer EXCEPT ![c] = Tail(@)]
  PROVE  /\ Head(toServer[c]) \in Ids /\ Head(toServer[c]) \in sent
         /\ toServer' \in [Conns -> Seq(Ids)]
         /\ \A d \in Conns : \A k \in 1..Len(toServer'[d]) : toServer'[d][k] \in sent
<1>1. toServer \in [Conns -> Seq(Ids)]
  BY DEF IInv, TypeOK, WireTypes
<1>2. \A d \in Conns : \A k \in 1..Len(toServer[d]) : toServer[d][k] \in sent
  BY DEF IInv, SentIds
<1>3. /\ Tail(toServer[c]) \in Seq(Ids) /\ Head(toServer[c]) \in Ids
      /\ Head(toServer[c]) = toServer[c][1] /\ 1 \in 1..Len(toServer[c])
      /\ \A k \in 1..Len(Tail(toServer[c])) : /\ k + 1 \in 1..Len(toServer[c])
                                              /\ Tail(toServer[c])[k] = toServer[c][k + 1]
  BY <1>1, TailOfSeq
<1>4. /\ toServer'[c] = Tail(toServer[c])
      /\ \A d \in Conns \ {c} : toServer'[d] = toServer[d]
  BY <1>1
<1>5. toServer' \in [Conns -> Seq(Ids)]
  BY <1>1, <1>3
<1>6. ASSUME NEW d \in Conns, NEW k \in 1..Len(toServer'[d])
      PROVE  toServer'[d][k] \in sent
  <2>1. CASE d = c
    BY <1>2, <1>3, <1>4, <2>1
  <2>2. CASE d # c
    BY <1>2, <1>4, <2>2
  <2> QED BY <2>1, <2>2
<1> QED BY <1>2, <1>3, <1>5, <1>6

\* The listener drops a message that does not parse.
LEMMA ListenerDiscardInv == ASSUME IInv, NEW c \in Conns, ListenerDiscard(c) PROVE IInv'
<1>1. /\ toClient' \in [Conns -> Seq(Frames)]
      /\ \A d \in Conns : \A k \in 1..Len(toClient'[d]) : toClient'[d][k].to \in sent
  BY ReceivedFacts DEF ListenerDiscard
<1>2. UNCHANGED <<callerVars, requestVars, tableVars, lockVars, listenerVars, sent,
                  toServer, answer, calledBack, dispatched>>
  BY DEF ListenerDiscard
<1>3. WireTypes'
  BY <1>1, <1>2 DEF IInv, TypeOK, WireTypes, Frames
<1> QED BY <1>1, <1>2, <1>3, WireFrame DEF IInv, SentIds

\* The listener gives a callback to the Dispatcher.
LEMMA ListenerDispatchInv == ASSUME IInv, NEW c \in Conns, ListenerDispatch(c) PROVE IInv'
<1>1. /\ toClient' \in [Conns -> Seq(Frames)] /\ Head(toClient[c]) \in Frames
      /\ \A d \in Conns : \A k \in 1..Len(toClient'[d]) : toClient'[d][k].to \in sent
  BY ReceivedFacts DEF ListenerDispatch
<1>2. /\ UNCHANGED <<callerVars, requestVars, tableVars, lockVars, listenerVars, sent,
                     toServer, answer, calledBack>>
      /\ dispatched' = dispatched \cup {Head(toClient[c]).to}
  BY DEF ListenerDispatch
<1>3. WireTypes'
  BY <1>1, <1>2 DEF IInv, TypeOK, WireTypes, Frames
<1> QED BY <1>1, <1>2, <1>3, WireFrame DEF IInv, SentIds

\* A handler sends its callback.
LEMMA SessionCallbackInv == ASSUME IInv, NEW c \in Conns, SessionCallback(c) PROVE IInv'
<1> DEFINE i == Head(toServer[c])
           f == [kind |-> "callback", to |-> i]
<1>1. /\ UNCHANGED <<callerVars, requestVars, tableVars, lockVars, listenerVars, sent,
                     toServer, answer, dispatched>>
      /\ toClient' = [toClient EXCEPT ![c] = Append(@, f)]
      /\ calledBack' = calledBack \cup {i} /\ toServer[c] # <<>>
  BY DEF SessionCallback, Put
<1>2. i \in Ids /\ i \in sent /\ f \in Frames /\ f.to = i
  BY <1>1, TailOfSeq DEF IInv, TypeOK, WireTypes, SentIds, Frames
<1> HIDE DEF i, f
<1>3. /\ toClient \in [Conns -> Seq(Frames)]
      /\ \A d \in Conns : \A k \in 1..Len(toClient[d]) : toClient[d][k].to \in sent
  BY DEF IInv, TypeOK, WireTypes, SentIds, Frames
<1>4. /\ toClient' \in [Conns -> Seq(Frames)]
      /\ \A d \in Conns : \A k \in 1..Len(toClient'[d]) : toClient'[d][k].to \in sent
  BY <1>1, <1>2, <1>3, AppendedFrame
<1>5. WireTypes'
  BY <1>1, <1>2, <1>4 DEF IInv, TypeOK, WireTypes, Frames
<1> QED BY <1>1, <1>4, <1>5, WireFrame DEF IInv, SentIds

\* The session answers a message.
LEMMA SessionAnswerInv == ASSUME IInv, NEW c \in Conns, SessionAnswer(c) PROVE IInv'
<1> DEFINE i == Head(toServer[c])
<1>1. PICK kind \in {"reply", "exception", "corrupt"} :
         /\ toClient' = [toClient EXCEPT ![c] = Append(@, [kind |-> kind, to |-> i])]
         /\ answer' = [answer EXCEPT ![i] = kind]
  BY DEF SessionAnswer, Put
<1>2. /\ UNCHANGED <<callerVars, requestVars, tableVars, lockVars, listenerVars, sent,
                     calledBack, dispatched>>
      /\ toServer' = [toServer EXCEPT ![c] = Tail(@)] /\ toServer[c] # <<>>
  BY DEF SessionAnswer
<1> DEFINE f == [kind |-> kind, to |-> i]
<1>3. /\ i \in Ids /\ i \in sent /\ f \in Frames /\ f.to = i
      /\ toServer' \in [Conns -> Seq(Ids)]
      /\ \A d \in Conns : \A k \in 1..Len(toServer'[d]) : toServer'[d][k] \in sent
  BY <1>2, TakenMessage DEF Frames
<1>4. toClient' = [toClient EXCEPT ![c] = Append(@, f)]
  BY <1>1
<1> HIDE DEF i, f
<1>5. /\ toClient' \in [Conns -> Seq(Frames)]
      /\ \A d \in Conns : \A k \in 1..Len(toClient'[d]) : toClient'[d][k].to \in sent
  BY <1>3, <1>4, AppendedFrame
<1>6. WireTypes'
  BY <1>1, <1>2, <1>3, <1>5 DEF IInv, TypeOK, WireTypes, Frames
<1> QED BY <1>2, <1>3, <1>5, <1>6, WireFrame

\* The session does not answer a message.
LEMMA SessionSkipInv == ASSUME IInv, NEW c \in Conns, SessionSkip(c) PROVE IInv'
<1>1. /\ UNCHANGED <<callerVars, requestVars, tableVars, lockVars, listenerVars, sent,
                     toClient, answer, calledBack, dispatched>>
      /\ toServer' = [toServer EXCEPT ![c] = Tail(@)] /\ toServer[c] # <<>>
  BY DEF SessionSkip
<1>2. /\ toServer' \in [Conns -> Seq(Ids)]
      /\ \A d \in Conns : \A k \in 1..Len(toServer'[d]) : toServer'[d][k] \in sent
  BY <1>1, TakenMessage
<1>3. WireTypes'
  BY <1>1, <1>2 DEF IInv, TypeOK, WireTypes
<1> QED BY <1>1, <1>2, <1>3, WireFrame DEF IInv, SentIds

\* The listener takes an answer.
LEMMA ListenerAcceptInv == ASSUME IInv, NEW c \in Conns, ListenerAccept(c) PROVE IInv'
<1>1. /\ toClient' \in [Conns -> Seq(Frames)] /\ Head(toClient[c]) \in Frames
      /\ Head(toClient[c]).to \in sent /\ lstep[c] = "poll"
      /\ \A d \in Conns : \A k \in 1..Len(toClient'[d]) : toClient'[d][k].to \in sent
  BY ReceivedFacts DEF ListenerAccept
<1>2. /\ UNCHANGED <<callerVars, requestVars, tableVars, lockVars, lreq, sent,
                     toServer, answer, calledBack, dispatched>>
      /\ lframe' = [lframe EXCEPT ![c] = Head(toClient[c])]
      /\ lstep' = [lstep EXCEPT ![c] = "find"]
      /\ Head(toClient[c]).kind \in {"reply", "exception"}
  BY DEF ListenerAccept, LGoto
<1>3. TypeOK'
  <2>1. WireTypes'
    BY <1>1, <1>2 DEF IInv, TypeOK, WireTypes, Frames
  <2>2. Head(toClient[c]) \in [kind : {"none", "reply", "exception"}, to : 0..MaxId]
    BY <1>1, <1>2 DEF Frames, Ids
  <2>3. ListenerTypes'
    BY <1>2, <2>2 DEF IInv, TypeOK, ListenerTypes
  <2> QED BY <1>2, <2>1, <2>3, TypeFrame DEF IInv, TypeOK
<1>4. UNCHANGED <<pc, call, live, request, messagesMutex, messages>>
  BY <1>2 DEF callerVars, requestVars, tableVars, lockVars
<1>5. /\ OwnRequest' /\ NoDanglingEntry' /\ EntryKnown' /\ EntryOfSent' /\ EntryOfCall' /\ EntryById'
      /\ \A t \in Callers : /\ (InCall(t)' <=> InCall(t)) /\ (IsSent(t)' <=> IsSent(t))
                            /\ Req(t)' = Req(t)
                            /\ InCall(t) => Id(t)' = Id(t)
  BY <1>2, <1>4, CallersFrame
<1>6. /\ lstep'[c] = "find" /\ lframe'[c].to \in Ids /\ lframe'[c].to \in sent
      /\ \A d \in Conns \ {c} : lstep'[d] = lstep[d] /\ lframe'[d] = lframe[d]
  BY <1>1, <1>2 DEF IInv, TypeOK, ListenerTypes, Frames
<1>7. SentIds'
  <2>1. \A d \in Conns : lstep'[d] # "poll" => lframe'[d].to \in sent
    BY <1>6 DEF IInv, SentIds
  <2>2. UNCHANGED <<nextId, toServer, sent>>
    BY <1>2 DEF tableVars
  <2>3. \A t \in Callers : InCall(t)' /\ Id(t)' \in sent => IsSent(t)'
    <3>1. \A t \in Callers : InCall(t) /\ Id(t) \in sent => IsSent(t)
      BY DEF IInv, SentIds
    <3> QED BY <1>5, <3>1
  <2>4. /\ \A i \in sent : i < nextId
        /\ \A d \in Conns : \A k \in 1..Len(toServer[d]) : toServer[d][k] \in sent
    BY DEF IInv, SentIds
  <2> QED BY <1>1, <2>1, <2>2, <2>3, <2>4 DEF SentIds
<1>8. ListenerHolds'
  BY <1>2, <1>4, <1>6 DEF IInv, ListenerHolds
<1>9. CallerHolds'
  BY <1>4 DEF IInv, CallerHolds, Req
<1> QED BY <1>3, <1>5, <1>7, <1>8, <1>9 DEF IInv

\* No call waits for the answer.
LEMMA ListenerNotFoundInv == ASSUME IInv, NEW c \in Conns, ListenerNotFound(c) PROVE IInv'
<1>1. /\ UNCHANGED <<callerVars, requestVars, tableVars, lockVars, lreq, wireVars>>
      /\ lframe' = [lframe EXCEPT ![c] = NoFrame]
      /\ lstep' = [lstep EXCEPT ![c] = "poll"]
  BY DEF ListenerNotFound, LGoto
<1>2. TypeOK'
  <2>0. NoFrame \in [kind : {"none", "reply", "exception"}, to : 0..MaxId]
    BY ConstantsAssumption DEF NoFrame
  <2>1. ListenerTypes'
    BY <1>1, <2>0 DEF IInv, TypeOK, ListenerTypes
  <2> QED BY <1>1, <2>1, TypeFrame DEF IInv, TypeOK
<1>3. UNCHANGED <<pc, call, live, request, messagesMutex, messages, nextId, sent, toServer, toClient>>
  BY <1>1 DEF callerVars, requestVars, tableVars, lockVars, wireVars
<1>4. /\ OwnRequest' /\ NoDanglingEntry' /\ EntryKnown' /\ EntryOfSent' /\ EntryOfCall' /\ EntryById'
      /\ \A t \in Callers : /\ (InCall(t)' <=> InCall(t)) /\ (IsSent(t)' <=> IsSent(t))
                            /\ Req(t)' = Req(t)
                            /\ InCall(t) => Id(t)' = Id(t)
  BY <1>1, <1>3, CallersFrame
<1>5. /\ lstep'[c] = "poll"
      /\ \A d \in Conns \ {c} : lstep'[d] = lstep[d] /\ lframe'[d] = lframe[d]
  BY <1>1 DEF IInv, TypeOK, ListenerTypes
<1>6. SentIds'
  BY <1>3, <1>4, <1>5, SentFrame
<1>7. ListenerHolds'
  BY <1>1, <1>3, <1>5 DEF IInv, ListenerHolds
<1>8. CallerHolds'
  BY <1>3 DEF IInv, CallerHolds, Req
<1> QED BY <1>2, <1>4, <1>6, <1>7, <1>8 DEF IInv

\* The listener finds the request and keeps messagesMutex.
LEMMA ListenerFindInv == ASSUME IInv, NEW c \in Conns, ListenerFind(c) PROVE IInv'
<1>1. /\ UNCHANGED <<callerVars, requestVars, instancesMutex, methodsMutex,
                     listenersMutex, tableVars, lframe, wireVars>>
      /\ messagesMutex' = [messagesMutex EXCEPT ![c] = c]
      /\ lreq' = [lreq EXCEPT ![c] = messages[c][lframe[c].to]]
      /\ lstep' = [lstep EXCEPT ![c] = "lock"]
      /\ lstep[c] = "find" /\ messages[c][lframe[c].to] # None
  BY DEF ListenerFind, LGoto
<1>2. lframe[c].to \in Ids /\ messages[c][lframe[c].to] \in Requests
  BY <1>1 DEF IInv, ListenerHolds, TypeOK, TableTypes
<1>3. TypeOK'
  <2>1. ListenerTypes' /\ LockTypes'
    BY <1>1, <1>2 DEF IInv, TypeOK, ListenerTypes, LockTypes
  <2> QED BY <1>1, <2>1, TypeFrame DEF IInv, TypeOK
<1>4. UNCHANGED <<pc, call, live, request, messages, nextId, sent, toServer, toClient>>
  BY <1>1 DEF callerVars, requestVars, tableVars, wireVars
<1>5. /\ OwnRequest' /\ NoDanglingEntry' /\ EntryKnown' /\ EntryOfSent' /\ EntryOfCall' /\ EntryById'
      /\ \A t \in Callers : /\ (InCall(t)' <=> InCall(t)) /\ (IsSent(t)' <=> IsSent(t))
                            /\ Req(t)' = Req(t)
                            /\ InCall(t) => Id(t)' = Id(t)
  BY <1>1, <1>4, CallersFrame
<1>6. /\ lstep'[c] = "lock" /\ lreq'[c] = messages[c][lframe[c].to] /\ messagesMutex'[c] = c
      /\ \A d \in Conns \ {c} : /\ lstep'[d] = lstep[d] /\ lreq'[d] = lreq[d]
                                /\ messagesMutex'[d] = messagesMutex[d]
  BY <1>1 DEF IInv, TypeOK, ListenerTypes, LockTypes
<1>7. SentIds'
  <2>1. \A d \in Conns : lstep'[d] = lstep[d] \/ (d = c /\ lstep[d] # "poll")
    BY <1>1, <1>6
  <2> QED BY <1>1, <1>4, <1>5, <2>1, SentFrame
<1>8. ListenerHolds'
  BY <1>1, <1>2, <1>4, <1>6 DEF IInv, ListenerHolds
<1>9. CallerHolds'
  BY <1>4 DEF IInv, CallerHolds, Req
<1> QED BY <1>3, <1>5, <1>7, <1>8, <1>9 DEF IInv

\* The listener locks the request: the caller that waits for it has released
\* its mutex, and no other listener has found it.
LEMMA ListenerLockInv == ASSUME IInv, NEW c \in Conns, ListenerLock(c) PROVE IInv'
<1> DEFINE r == lreq[c]
           mine == [request[r] EXCEPT !.mutex = c]
<1>1. /\ UNCHANGED <<callerVars, live, lockVars, tableVars, lframe, lreq, wireVars>>
      /\ request' = [request EXCEPT ![r] = mine]
      /\ lstep' = [lstep EXCEPT ![c] = "deliver"]
      /\ lstep[c] = "lock" /\ request[r].mutex = None
  BY DEF ListenerLock, LGoto
<1>2. r \in live /\ r \in Requests /\ request[r] \in RequestType
  BY <1>1 DEF IInv, ListenerHolds, NoDanglingEntry, TypeOK, RequestTypes
<1>3. /\ mine \in RequestType /\ mine.messageId = request[r].messageId /\ mine.mutex = c
      /\ mine.response = request[r].response /\ mine.exception = request[r].exception
      /\ mine.waiter = request[r].waiter
  BY <1>2 DEF RequestType
<1> HIDE DEF mine, r
<1>4. /\ RequestTypes' /\ request'[r] = mine
      /\ \A s \in Requests \ {r} : request'[s] = request[s]
  BY <1>1, <1>2, <1>3 DEF IInv, TypeOK, RequestTypes
<1>5. TypeOK'
  <2>1. ListenerTypes'
    BY <1>1 DEF IInv, TypeOK, ListenerTypes
  <2> QED BY <1>1, <1>4, <2>1, TypeFrame DEF IInv, TypeOK
<1>6. UNCHANGED <<pc, call, live, messages, nextId, sent, toServer, toClient, messagesMutex>>
  BY <1>1 DEF callerVars, tableVars, lockVars, wireVars
<1>7. /\ OwnRequest' /\ NoDanglingEntry' /\ EntryKnown' /\ EntryOfSent' /\ EntryOfCall' /\ EntryById'
      /\ \A t \in Callers : /\ (InCall(t)' <=> InCall(t)) /\ (IsSent(t)' <=> IsSent(t))
                            /\ Req(t)' = Req(t)
                            /\ InCall(t) => Id(t)' = Id(t)
  <2>1. \A s \in live : request'[s].messageId = request[s].messageId
    BY <1>3, <1>4 DEF IInv, TypeOK, RequestTypes
  <2> QED BY <1>1, <1>6, <2>1, CallersFrame
<1>8. /\ lstep'[c] = "deliver"
      /\ \A d \in Conns \ {c} : lstep'[d] = lstep[d]
  BY <1>1 DEF IInv, TypeOK, ListenerTypes
<1>9. SentIds'
  <2>1. \A d \in Conns : lstep'[d] = lstep[d] \/ (d = c /\ lstep[d] # "poll")
    BY <1>1, <1>8
  <2> QED BY <1>1, <1>6, <1>7, <2>1, SentFrame
<1>10. ListenerHolds'
  <2>1. \A d \in Conns \ {c} : lstep[d] = "deliver" => lreq[d] \in Requests \ {r}
    BY <1>1, ConstantsAssumption DEF IInv, ListenerHolds, NoDanglingEntry, TypeOK, RequestTypes
  <2> QED BY <1>1, <1>3, <1>4, <1>6, <1>8, <2>1 DEF IInv, ListenerHolds, r
<1>11. CallerHolds'
  <2>1. \A t \in Callers : pc[t] \in {"register", "insert", "send", "tryWait", "waiting"} =>
              Req(t) \in Requests
    BY DEF IInv, OwnRequest, InCall, Steps, TypeOK, RequestTypes
  <2>2. \A t \in Callers : pc[t] \in {"register", "insert", "send", "tryWait"} => Req(t) # r
    BY <1>1, ConstantsAssumption DEF IInv, CallerHolds
  <2>3. \A s \in Requests : /\ request'[s].response = request[s].response
                            /\ request'[s].exception = request[s].exception
                            /\ request'[s].waiter = request[s].waiter
    BY <1>3, <1>4
  <2> QED BY <1>4, <1>6, <1>7, <2>1, <2>2, <2>3 DEF IInv, CallerHolds
<1> QED BY <1>5, <1>7, <1>9, <1>10, <1>11 DEF IInv

\* The answer is stored and the caller is signalled.
LEMMA ListenerDeliverInv == ASSUME IInv, NEW c \in Conns, ListenerDeliver(c) PROVE IInv'
<1> DEFINE r == lreq[c]
           mine == Answered(request[r], lframe[c])
<1>1. /\ UNCHANGED <<callerVars, live, instancesMutex, methodsMutex, listenersMutex,
                     tableVars, wireVars>>
      /\ request' = [request EXCEPT ![r] = mine]
      /\ messagesMutex' = [messagesMutex EXCEPT ![c] = None]
      /\ lframe' = [lframe EXCEPT ![c] = NoFrame]
      /\ lreq' = [lreq EXCEPT ![c] = None]
      /\ lstep' = [lstep EXCEPT ![c] = "poll"]
      /\ lstep[c] = "deliver"
  BY DEF ListenerDeliver, LGoto
<1>2. /\ r \in live /\ r \in Requests /\ request[r] \in RequestType
      /\ request[r].mutex = c /\ lframe[c].to \in 0..MaxId
  BY <1>1 DEF IInv, ListenerHolds, NoDanglingEntry, TypeOK, RequestTypes, Ids
<1>3. /\ mine \in RequestType /\ mine.messageId = request[r].messageId /\ mine.waiter = None
  <2> DEFINE old == request[r]
             val == IF lframe[c].kind = "reply" THEN lframe[c].to ELSE 0
             exc == lframe[c].kind = "exception" \/ old.exception
  <2>1. mine = [old EXCEPT !.response = val, !.exception = exc, !.mutex = None, !.waiter = None]
    BY DEF Answered
  <2>2. exc \in BOOLEAN
    <3>1. old.exception \in BOOLEAN
      BY <1>2 DEF RequestType
    <3> QED BY <3>1
  <2>3. val \in 0..MaxId
    BY <1>2, ConstantsAssumption
  <2> HIDE DEF val, exc, mine
  <2> QED BY <1>2, <2>1, <2>2, <2>3 DEF RequestType
<1> HIDE DEF mine, r
<1>4. /\ RequestTypes' /\ request'[r] = mine
      /\ \A s \in Requests \ {r} : request'[s] = request[s]
  BY <1>1, <1>2, <1>3 DEF IInv, TypeOK, RequestTypes
<1>5. TypeOK'
  <2>0. NoFrame \in [kind : {"none", "reply", "exception"}, to : 0..MaxId]
    BY ConstantsAssumption DEF NoFrame
  <2>1. ListenerTypes' /\ LockTypes'
    BY <1>1, <2>0 DEF IInv, TypeOK, ListenerTypes, LockTypes
  <2> QED BY <1>1, <1>4, <2>1, TypeFrame DEF IInv, TypeOK
<1>6. UNCHANGED <<pc, call, live, messages, nextId, sent, toServer, toClient>>
  BY <1>1 DEF callerVars, tableVars, wireVars
<1>7. /\ OwnRequest' /\ NoDanglingEntry' /\ EntryKnown' /\ EntryOfSent' /\ EntryOfCall' /\ EntryById'
      /\ \A t \in Callers : /\ (InCall(t)' <=> InCall(t)) /\ (IsSent(t)' <=> IsSent(t))
                            /\ Req(t)' = Req(t)
                            /\ InCall(t) => Id(t)' = Id(t)
  <2>1. \A s \in live : request'[s].messageId = request[s].messageId
    BY <1>3, <1>4 DEF IInv, TypeOK, RequestTypes
  <2> QED BY <1>1, <1>6, <2>1, CallersFrame
<1>8. /\ lstep'[c] = "poll"
      /\ \A d \in Conns \ {c} : /\ lstep'[d] = lstep[d] /\ lframe'[d] = lframe[d]
                                /\ lreq'[d] = lreq[d] /\ messagesMutex'[d] = messagesMutex[d]
  BY <1>1 DEF IInv, TypeOK, ListenerTypes, LockTypes
<1>9. SentIds'
  BY <1>6, <1>7, <1>8, SentFrame
<1>10. ListenerHolds'
  <2>1. \A d \in Conns \ {c} : lstep[d] = "deliver" => lreq[d] \in Requests \ {r}
    BY <1>2 DEF IInv, ListenerHolds, NoDanglingEntry, TypeOK, RequestTypes
  <2> QED BY <1>4, <1>6, <1>8, <2>1 DEF IInv, ListenerHolds
<1>11. CallerHolds'
  <2>1. \A t \in Callers : pc[t] \in {"register", "insert", "send", "tryWait", "waiting"} =>
              Req(t) \in Requests
    BY DEF IInv, OwnRequest, InCall, Steps, TypeOK, RequestTypes
  <2>2. \A t \in Callers : pc[t] \in {"register", "insert", "send", "tryWait"} => Req(t) # r
    BY <1>2, ConstantsAssumption DEF IInv, CallerHolds
  <2>3. \A t \in Callers : request'[r].waiter # t
    BY <1>3, <1>4, ConstantsAssumption
  <2> QED BY <1>4, <1>6, <1>7, <2>1, <2>2, <2>3 DEF IInv, CallerHolds
<1> QED BY <1>5, <1>7, <1>9, <1>10, <1>11 DEF IInv

-----------------------------------------------------------------------------
(* The theorems. *)

\* In the initial state no call is open, no message sent and every table empty.
LEMMA InitInv == Init => IInv
<1> SUFFICES ASSUME Init PROVE IInv
  OBVIOUS
<1>1. TypeOK
  <2>1. CallerTypes
    BY ConstantsAssumption DEF Init, CallerTypes, CallType, NoCall, NewCall, Steps
  <2>2. RequestTypes
    <3>1. NewRequest(0, None, FALSE) \in RequestType
      BY ConstantsAssumption DEF NewRequest, RequestType
    <3> QED BY <3>1 DEF Init, RequestTypes
  <2>3. LockTypes /\ TableTypes
    BY ConstantsAssumption DEF Init, LockTypes, TableTypes
  <2>4. ListenerTypes /\ WireTypes
    BY ConstantsAssumption DEF Init, ListenerTypes, WireTypes, NoFrame
  <2> QED BY <2>1, <2>2, <2>3, <2>4 DEF TypeOK
<1>2. /\ \A t \in Callers : pc[t] = "idle" /\ ~ InCall(t)
      /\ \A c \in Conns : lstep[c] = "poll" /\ toServer[c] = <<>> /\ toClient[c] = <<>>
      /\ \A c \in Conns, i \in Ids : messages[c][i] = None
      /\ sent = {}
  BY DEF Init, InCall
<1>3. OwnRequest /\ SentIds
  BY <1>2 DEF OwnRequest, SentIds
<1>4. NoDanglingEntry /\ EntryKnown /\ EntryOfSent /\ EntryOfCall /\ EntryById
  BY <1>2 DEF NoDanglingEntry, EntryKnown, EntryOfSent, EntryOfCall, EntryById
<1>5. ListenerHolds /\ CallerHolds
  BY <1>2 DEF ListenerHolds, CallerHolds
<1> QED BY <1>1, <1>3, <1>4, <1>5 DEF IInv

\* Nothing changes.
LEMMA StutterInv == ASSUME IInv, UNCHANGED vars PROVE IInv'
<1>1. UNCHANGED <<callerVars, requestVars, tableVars, lockVars, listenerVars, wireVars>>
  BY DEF vars
<1>2. UNCHANGED <<sent, toServer, toClient>> /\ WireTypes'
  BY <1>1, TypeFrame DEF IInv, wireVars
<1> QED BY <1>1, <1>2, WireFrame DEF IInv, SentIds

\* Every reachable state satisfies the inductive invariant, whatever the numbers
\* of threads, connections, heap cells and message ids, whichever entry points
\* they use, and whether or not sending fails.
THEOREM Inductive == Spec => []IInv
<1>1. ASSUME IInv, [Next]_vars PROVE IInv'
  <2>1. ASSUME NEW t \in Callers, BeginCall(t) \/ BeginSync(t) PROVE IInv'
    BY <1>1, <2>1, BeginCallInv, BeginSyncInv
  <2>2. ASSUME NEW t \in Callers, CallStep(t) PROVE IInv'
    BY <1>1, <2>2, MethodNotFoundInv, ArgumentMismatchInv, ComposeInv, RegisterInv, InsertInv,
       SendInv, SendFailsInv, TryWaitInv, TimeOutInv, WakeUpInv, RemoveInv, EraseInv,
       ReturnTimeoutInv, ReturnAnswerInv DEF CallStep
  <2>3. ASSUME NEW c \in Conns, ListenerStep(c) PROVE IInv'
    BY <1>1, <2>3, ListenerDiscardInv, ListenerDispatchInv, ListenerAcceptInv,
       ListenerNotFoundInv, ListenerFindInv, ListenerLockInv, ListenerDeliverInv DEF ListenerStep
  <2>4. ASSUME NEW c \in Conns, SessionStep(c) PROVE IInv'
    BY <1>1, <2>4, SessionCallbackInv, SessionAnswerInv, SessionSkipInv DEF SessionStep
  <2>5. CASE UNCHANGED vars
    BY <1>1, <2>5, StutterInv
  <2> QED BY <1>1, <2>1, <2>2, <2>3, <2>4, <2>5 DEF Next
<1> QED BY <1>1, InitInv, PTL DEF Spec

\* The variables keep their types.
THEOREM TypesHold == Spec => []TypeOK
<1>1. IInv => TypeOK
  BY DEF IInv
<1> QED BY <1>1, Inductive, PTL

\* From find to delivery the listener works on the request of a call that is
\* open, was sent on this connection and waits for this message: the request is
\* neither deleted nor leaked nor another call's (nymph_socket_listener.cpp
\* 158-184 against remote_server.cpp 227-261).
THEOREM AnswersReachOpenCalls == Spec => []DeliveryToOpenCall
<1>1. IInv => DeliveryToOpenCall
  <2> SUFFICES ASSUME IInv, NEW c \in Conns, lstep[c] \in {"lock", "deliver"}
               PROVE  \E t \in Callers : /\ IsSent(t) /\ pc[t] # "finish" /\ Conn(t) = c
                                         /\ Req(t) = lreq[c] /\ lreq[c] \in live
                                         /\ Id(t) = lframe[c].to
    BY DEF DeliveryToOpenCall
  <2> DEFINE i == lframe[c].to
  <2>1. i \in Ids /\ i \in sent /\ lreq[c] # None /\ lreq[c] = messages[c][i]
    BY DEF IInv, ListenerHolds, SentIds
  <2>2. PICK t \in Callers : /\ IsSent(t) /\ pc[t] # "finish" /\ Conn(t) = c
                             /\ Id(t) = i /\ Req(t) = messages[c][i]
    BY <2>1 DEF IInv, EntryOfSent
  <2> QED BY <2>1, <2>2 DEF IInv, NoDanglingEntry
<1> QED BY <1>1, Inductive, PTL

\* No entry of a listener's table outlives the request it points to, although
\* requests are deleted without the listener's knowledge and leaked ones keep
\* their entries.
THEOREM NoEntryDangles == Spec => []NoDanglingEntry
<1>1. IInv => NoDanglingEntry
  BY DEF IInv
<1> QED BY <1>1, Inductive, PTL

\* No caller is queued on its condition with an answer already delivered: the
\* mutex that callMethod locks before addMessage closes the window between the
\* send and tryWait.
THEOREM NoWakeupIsLost == Spec => []NoLostWakeup
<1>1. IInv => NoLostWakeup
  BY DEF IInv, CallerHolds, NoLostWakeup
<1> QED BY <1>1, Inductive, PTL

=============================================================================
