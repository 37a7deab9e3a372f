--------------------------- MODULE RpcContractProofs ---------------------------
(***************************************************************************)
(* Proofs about the answers in RemoteCall, on top of RemoteCallProofs: an   *)
(* answer is preceded by its callback, no entry of a listener is left over  *)
(* while sending works, and the call path implements RpcContract.           *)
(*                                                                          *)
(* AInv follows an answer from the session to the caller: a message is      *)
(* answered at most once, the frames on the wire and in the listener's      *)
(* hands are what was answered, a callback is ahead of its answer, and what *)
(* a signalled caller finds in its request is the answer to its message.    *)
(***************************************************************************)
EXTENDS RemoteCallProofs

\* The wait of t's call is over and was not timed out.
Signalled(t) ==
    /\ pc[t] \in {"waiting", "remove", "erase", "finish"}
    /\ pc[t] = "waiting" => request[Req(t)].waiter = None
    /\ ~ call[t].timedOut

\* A message travels to the session once and is not answered before it arrives.
AnsweredOnce ==
    /\ \A c, d \in Conns : \A k \in 1..Len(toServer[c]), l \in 1..Len(toServer[d]) :
          toServer[c][k] = toServer[d][l] => c = d /\ k = l
    /\ \A c \in Conns : \A k \in 1..Len(toServer[c]) : answer[toServer[c][k]] = "none"
    /\ \A i \in Ids \ sent : answer[i] = "none"

\* The frames on their way to the callers are what the session answered.
FramesAreAnswers ==
    /\ \A c \in Conns : \A k \in 1..Len(toClient[c]) :
          toClient[c][k].kind # "callback" => answer[toClient[c][k].to] = toClient[c][k].kind
    /\ \A c \in Conns : lstep[c] # "poll" =>
          /\ lframe[c].kind \in {"reply", "exception"}
          /\ answer[lframe[c].to] = lframe[c].kind

CallbackFrame(i) == [kind |-> "callback", to |-> i]

\* A callback that the Dispatcher does not have yet is on the wire, ahead of the
\* answer of its message.
CallbackAhead ==
    /\ calledBack \subseteq sent
    /\ \A c \in Conns : \A k \in 1..Len(toServer[c]) :
          toServer[c][k] \in calledBack \ dispatched =>
             \E j \in 1..Len(toClient[c]) : toClient[c][j] = CallbackFrame(toServer[c][k])
    /\ \A c \in Conns : \A k \in 1..Len(toClient[c]) :
          toClient[c][k].kind # "callback" /\ toClient[c][k].to \in calledBack \ dispatched =>
             \E j \in 1..Len(toClient[c]) :
                j < k /\ toClient[c][j] = CallbackFrame(toClient[c][k].to)
    /\ \A c \in Conns : lstep[c] # "poll" => lframe[c].to \notin calledBack \ dispatched

\* What a signalled caller will return is the answer to its own message.
OutcomeIsAnswer ==
    \A t \in Callers : Signalled(t) =>
        /\ answer[Id(t)] \in {"reply", "exception"}
        /\ Id(t) \notin calledBack \ dispatched
        /\ call[t].api # "callMethodId" =>
              /\ request[Req(t)].exception = (answer[Id(t)] = "exception")
              /\ answer[Id(t)] = "reply" => request[Req(t)].response = Id(t)

ResultIsAnswer ==
    \A t \in Callers : result[t].status \in {"value", "exception"} =>
        /\ result[t].id \in Ids /\ answer[result[t].id] # "none"
        /\ result[t].id \notin calledBack \ dispatched

\* Only the call's own thread waits on a request.
OwnWaiter == \A t \in Callers : pc[t] = "waiting" => request[Req(t)].waiter \in {None, t}

\* A thread in a call came in by one of the entry points.
KnownApi == \A t \in Callers : pc[t] # "idle" => call[t].api \in Apis

AInv == /\ AnsweredOnce /\ FramesAreAnswers /\ CallbackAhead
        /\ OutcomeIsAnswer /\ ResultIsAnswer /\ OwnWaiter /\ KnownApi

-----------------------------------------------------------------------------
(* Steps of the callers. *)

\* A caller's step concerns its own thread and the request of its own call; it
\* leaves the listeners' threads and what was answered alone.
LEMMA CallerSteps ==
  ASSUME IInv, NEW t \in Callers, BeginCall(t) \/ BeginSync(t) \/ CallStep(t)
  PROVE  /\ Others(t) /\ UNCHANGED listenerVars
         /\ UNCHANGED <<toClient, answer, calledBack, dispatched>>
         /\ ~ Send(t) => UNCHANGED <<toServer, sent>>
         /\ \A r \in live : (InCall(t) /\ r = Req(t)) \/ request'[r] = request[r]
         /\ \A u \in Callers \ {t} : result'[u] = result[u]
<1> DEFINE Facts == /\ Others(t) /\ UNCHANGED listenerVars
                    /\ UNCHANGED <<toClient, answer, calledBack, dispatched>>
                    /\ ~ Send(t) => UNCHANGED <<toServer, sent>>
                    /\ \A r \in live : (InCall(t) /\ r = Req(t)) \/ request'[r] = request[r]
                    /\ \A u \in Callers \ {t} : result'[u] = result[u]
<1>0. /\ pc \in [Callers -> Steps] /\ call \in [Callers -> CallType] /\ DOMAIN result = Callers
      /\ DOMAIN request = Requests /\ live \subseteq Requests
  BY DEF IInv, TypeOK, CallerTypes, RequestTypes
<1>1. CASE BeginCall(t)
  BY <1>0, <1>1 DEF BeginCall, Goto, Others, requestVars, wireVars
<1>2. CASE BeginSync(t)
  BY <1>0, <1>2 DEF BeginSync, Goto, Others, requestVars, wireVars
<1>3. CASE MethodNotFound(t) \/ SendFails(t) \/ ReturnTimeout(t) \/ ReturnAnswer(t)
  BY <1>0, <1>3 DEF MethodNotFound, SendFails, ReturnTimeout, ReturnAnswer, Return, Goto,
                    Others, requestVars, wireVars
<1>4. CASE ArgumentMismatch(t)
  BY <1>0, <1>4 DEF ArgumentMismatch, Return, Goto, Others, wireVars
<1>5. CASE Compose(t)
  BY <1>0, <1>5 DEF Compose, Goto, Others, wireVars
<1>6. CASE Register(t) \/ Insert(t) \/ Remove(t) \/ Erase(t) \/ WakeUp(t)
  BY <1>0, <1>6 DEF Register, Insert, Remove, Erase, WakeUp, Goto, Others, requestVars, wireVars
<1>7. CASE Send(t)
  BY <1>0, <1>7 DEF Send, Goto, Others, requestVars
<1>8. CASE TryWait(t) \/ TimeOut(t)
  <2>1. InCall(t)
    BY <1>8 DEF TryWait, TimeOut, InCall, Steps
  <2> QED BY <1>0, <1>8, <2>1 DEF TryWait, TimeOut, Goto, Others, wireVars
<1> QED BY <1>1, <1>2, <1>3, <1>4, <1>5, <1>6, <1>7, <1>8 DEF CallStep

\* The calls of the other threads go on as they were.
LEMMA OtherCalls ==
  ASSUME IInv, NEW t \in Callers, BeginCall(t) \/ BeginSync(t) \/ CallStep(t),
         NEW u \in Callers \ {t}
  PROVE  /\ (InCall(u)' <=> InCall(u)) /\ Req(u)' = Req(u) /\ call'[u] = call[u]
         /\ pc'[u] = pc[u] /\ result'[u] = result[u]
         /\ InCall(u) => request'[Req(u)] = request[Req(u)] /\ Id(u)' = Id(u)
<1>1. /\ Others(t)
      /\ \A r \in live : (InCall(t) /\ r = Req(t)) \/ request'[r] = request[r]
      /\ result'[u] = result[u]
  BY CallerSteps
<1>2. (InCall(u)' <=> InCall(u)) /\ Req(u)' = Req(u) /\ call'[u] = call[u] /\ pc'[u] = pc[u]
  BY <1>1 DEF Others, InCall, Req
<1>3. InCall(u) => Req(u) \in live /\ (InCall(t) => Req(u) # Req(t))
  BY DEF IInv, OwnRequest
<1> QED BY <1>1, <1>2, <1>3 DEF Id

\* A caller's own step never makes it signalled.
LEMMA NotSignalledByItself ==
  ASSUME IInv, NEW t \in Callers, BeginCall(t) \/ BeginSync(t) \/ CallStep(t), Signalled(t)'
  PROVE  Signalled(t) /\ call'[t] = call[t] /\ request' = request
<1>0. pc \in [Callers -> Steps] /\ call \in [Callers -> CallType]
  BY DEF IInv, TypeOK, CallerTypes
<1>1. CASE BeginCall(t) \/ BeginSync(t) \/ Compose(t) \/ Register(t) \/ Insert(t) \/ Send(t)
  BY <1>0, <1>1 DEF BeginCall, BeginSync, Compose, Register, Insert, Send, Goto, Signalled
<1>2. CASE \/ MethodNotFound(t) \/ SendFails(t) \/ ArgumentMismatch(t)
           \/ ReturnTimeout(t) \/ ReturnAnswer(t)
  BY <1>0, <1>2 DEF MethodNotFound, SendFails, ArgumentMismatch, ReturnTimeout, ReturnAnswer,
                    Return, Goto, Signalled
<1>3. CASE WakeUp(t) \/ Remove(t) \/ Erase(t)
  BY <1>0, <1>3 DEF WakeUp, Remove, Erase, Goto, Signalled, requestVars
<1>4. CASE TryWait(t)
  <2>1. Req(t) \in Requests /\ InCall(t)
    BY <1>4 DEF TryWait, InCall, Steps, IInv, OwnRequest, TypeOK, RequestTypes
  <2>2. pc'[t] = "waiting" /\ Req(t)' = Req(t)
    BY <1>0, <1>4 DEF TryWait, Goto, Req
  <2>3. request'[Req(t)].waiter = t
    BY <1>4, <2>1 DEF TryWait, IInv, TypeOK, RequestTypes, RequestType
  <2> QED BY <2>2, <2>3, ConstantsAssumption DEF Signalled
<1>5. CASE TimeOut(t)
  <2>1. call'[t].timedOut
    BY <1>0, <1>5 DEF TimeOut, CallType
  <2> QED BY <2>1 DEF Signalled
<1> QED BY <1>1, <1>2, <1>3, <1>4, <1>5 DEF CallStep

-----------------------------------------------------------------------------
(* What the steps do to the answers. *)

\* Answers, callbacks and dispatches are not taken back, and a callback is sent
\* before its message is answered.
Settles ==
    /\ \A i \in Ids : answer[i] # "none" => answer'[i] = answer[i]
    /\ \A i \in calledBack' : i \in calledBack \/ answer[i] = "none"
    /\ dispatched \subseteq dispatched'

\* Outcomes stay what they are while answers settle, if the step signals nobody.
LEMMA OutcomesStay ==
  ASSUME IInv, AInv, Settles,
         \A t \in Callers : Signalled(t)' =>
            /\ Signalled(t) /\ call'[t].api = call[t].api /\ Id(t)' = Id(t)
            /\ request'[Req(t)'].exception = request[Req(t)].exception
            /\ request'[Req(t)'].response = request[Req(t)].response
  PROVE  OutcomeIsAnswer'
<1> SUFFICES ASSUME NEW t \in Callers, Signalled(t)'
             PROVE  /\ answer'[Id(t)'] \in {"reply", "exception"}
                    /\ Id(t)' \notin calledBack' \ dispatched'
                    /\ call'[t].api # "callMethodId" =>
                       /\ request'[Req(t)'].exception = (answer'[Id(t)'] = "exception")
                       /\ answer'[Id(t)'] = "reply" => request'[Req(t)'].response = Id(t)'
  BY DEF OutcomeIsAnswer
<1>1. Signalled(t) /\ Id(t)' = Id(t)
  OBVIOUS
<1>2. Id(t) \in Ids
  BY <1>1 DEF Signalled, IInv, OwnRequest, InCall, Steps
<1>3. answer[Id(t)] \in {"reply", "exception"} /\ Id(t) \notin calledBack \ dispatched
  BY <1>1 DEF AInv, OutcomeIsAnswer
<1>4. answer'[Id(t)] = answer[Id(t)] /\ Id(t) \notin calledBack' \ dispatched'
  BY <1>2, <1>3 DEF Settles
<1> QED BY <1>1, <1>3, <1>4 DEF AInv, OutcomeIsAnswer

\* A result stays what was answered.
LEMMA ResultStays ==
  ASSUME IInv, AInv, Settles, NEW t \in Callers, result'[t] = result[t],
         result'[t].status \in {"value", "exception"}
  PROVE  /\ result'[t].id \in Ids /\ answer'[result'[t].id] # "none"
         /\ result'[t].id \notin calledBack' \ dispatched'
BY DEF AInv, ResultIsAnswer, Settles

\* While nothing is put on the wires or taken off them.
LEMMA WiresStay ==
  ASSUME AInv, UNCHANGED <<toServer, toClient, sent, answer, calledBack, dispatched>>,
         \A c \in Conns : lstep'[c] # "poll" => lstep[c] # "poll" /\ lframe'[c] = lframe[c]
  PROVE  AnsweredOnce' /\ FramesAreAnswers' /\ CallbackAhead' /\ Settles
BY DEF AInv, AnsweredOnce, FramesAreAnswers, CallbackAhead, CallbackFrame, Settles

-----------------------------------------------------------------------------
(* A caller's step preserves AInv. *)

LEMMA ReturnedAnswer ==
  ASSUME IInv, AInv, NEW t \in Callers, BeginCall(t) \/ BeginSync(t) \/ CallStep(t),
         result'[t].status \in {"value", "exception"}
  PROVE  \/ result'[t] = result[t]
         \/ Signalled(t) /\ result'[t].id = Id(t)
<1>0. DOMAIN result = Callers
  BY DEF IInv, TypeOK, CallerTypes
<1>1. CASE ReturnAnswer(t)
  BY <1>0, <1>1 DEF ReturnAnswer, Return, Signalled
<1>2. CASE MethodNotFound(t) \/ SendFails(t) \/ ArgumentMismatch(t) \/ ReturnTimeout(t)
  BY <1>0, <1>2 DEF MethodNotFound, SendFails, ArgumentMismatch, ReturnTimeout, Return
<1> QED BY <1>1, <1>2 DEF BeginCall, BeginSync, CallStep, Compose, Register, Insert, Send,
           TryWait, TimeOut, WakeUp, Remove, Erase

LEMMA CallerOutcomes ==
  ASSUME IInv, AInv, NEW t \in Callers, BeginCall(t) \/ BeginSync(t) \/ CallStep(t)
  PROVE  OutcomeIsAnswer' /\ ResultIsAnswer' /\ Settles
<1>1. Settles
  BY CallerSteps DEF Settles
<1>2. OutcomeIsAnswer'
  <2>1. ASSUME NEW u \in Callers, Signalled(u)'
        PROVE  /\ Signalled(u) /\ call'[u].api = call[u].api /\ Id(u)' = Id(u)
               /\ request'[Req(u)'].exception = request[Req(u)].exception
               /\ request'[Req(u)'].response = request[Req(u)].response
    <3>1. CASE u = t
      BY <2>1, <3>1, NotSignalledByItself DEF Id, Req
    <3>2. CASE u # t
      <4>1. /\ (InCall(u)' <=> InCall(u)) /\ Req(u)' = Req(u) /\ call'[u] = call[u]
            /\ pc'[u] = pc[u]
            /\ InCall(u) => request'[Req(u)] = request[Req(u)] /\ Id(u)' = Id(u)
        BY <3>2, OtherCalls
      <4>2. InCall(u)
        BY <2>1, <4>1 DEF Signalled, InCall, Steps
      <4> QED BY <2>1, <4>1, <4>2 DEF Signalled
    <3> QED BY <3>1, <3>2
  <2> QED BY <1>1, <2>1, OutcomesStay
<1>3. ASSUME NEW u \in Callers, result'[u].status \in {"value", "exception"}
      PROVE  /\ result'[u].id \in Ids /\ answer'[result'[u].id] # "none"
             /\ result'[u].id \notin calledBack' \ dispatched'
  <2>1. CASE result'[u] = result[u]
    BY <1>1, <1>3, <2>1, ResultStays
  <2>2. CASE u = t /\ Signalled(t) /\ result'[t].id = Id(t)
    <3>1. Id(t) \in Ids
      BY <2>2 DEF Signalled, IInv, OwnRequest, InCall, Steps
    <3>2. UNCHANGED <<answer, calledBack, dispatched>>
      BY CallerSteps
    <3> QED BY <2>2, <3>1, <3>2 DEF AInv, OutcomeIsAnswer
  <2> QED BY <1>3, <2>1, <2>2, CallerSteps, ReturnedAnswer
<1> QED BY <1>1, <1>2, <1>3 DEF ResultIsAnswer

\* The places of a queue after one element was added.
LEMMA AppendPlaces ==
  ASSUME NEW S, NEW s \in Seq(S), NEW e \in S
  PROVE  /\ Append(s, e) \in Seq(S)
         /\ Len(Append(s, e)) = Len(s) + 1 /\ Append(s, e)[Len(s) + 1] = e
         /\ \A k \in 1..Len(s) : Append(s, e)[k] = s[k]
         /\ \A k \in 1..Len(Append(s, e)) : k \in 1..Len(s) \/ k = Len(s) + 1
OBVIOUS

\* The message that is sent has not been sent before.
LEMMA SendAnswers ==
  ASSUME IInv, AInv, NEW t \in Callers, Send(t)
  PROVE  AnsweredOnce' /\ FramesAreAnswers' /\ CallbackAhead'
<1> DEFINE d == Conn(t)
           i == Id(t)
<1>1. /\ UNCHANGED <<toClient, answer, calledBack, dispatched, lstep, lframe>>
      /\ toServer' = [toServer EXCEPT ![d] = Append(toServer[d], i)]
      /\ sent' = sent \cup {i}
  BY DEF Send, listenerVars
<1>2. d \in Conns /\ i \in Ids /\ i \notin sent
  BY DEF Send, IInv, OwnRequest, SentIds, InCall, IsSent, Steps
<1>3. toServer \in [Conns -> Seq(Ids)] /\ calledBack \subseteq Ids
  BY DEF IInv, TypeOK, WireTypes
<1>4. /\ Len(toServer'[d]) = Len(toServer[d]) + 1 /\ toServer'[d][Len(toServer[d]) + 1] = i
      /\ \A k \in 1..Len(toServer[d]) : toServer'[d][k] = toServer[d][k]
      /\ \A k \in 1..Len(toServer'[d]) : k \in 1..Len(toServer[d]) \/ k = Len(toServer[d]) + 1
  BY <1>1, <1>2, <1>3, AppendPlaces
<1>5. \A e \in Conns \ {d} : toServer'[e] = toServer[e]
  BY <1>1, <1>3
<1>6. \A e \in Conns : \A k \in 1..Len(toServer[e]) : toServer[e][k] \in sent
  BY DEF IInv, SentIds
<1>7. \A e \in Conns : \A k \in 1..Len(toServer'[e]) :
         \/ e = d /\ k = Len(toServer[d]) + 1 /\ toServer'[e][k] = i
         \/ k \in 1..Len(toServer[e]) /\ toServer'[e][k] = toServer[e][k]
  BY <1>4, <1>5
<1> HIDE DEF d, i
<1>8. AnsweredOnce'
  <2>1. \A e, f \in Conns : \A k \in 1..Len(toServer'[e]), l \in 1..Len(toServer'[f]) :
          toServer'[e][k] = toServer'[f][l] => e = f /\ k = l
    BY <1>2, <1>6, <1>7 DEF AInv, AnsweredOnce
  <2>2. \A e \in Conns : \A k \in 1..Len(toServer'[e]) : answer'[toServer'[e][k]] = "none"
    BY <1>1, <1>2, <1>7 DEF AInv, AnsweredOnce
  <2>3. \A j \in Ids \ sent' : answer'[j] = "none"
    BY <1>1 DEF AInv, AnsweredOnce
  <2> QED BY <2>1, <2>2, <2>3 DEF AnsweredOnce
<1>9. FramesAreAnswers'
  BY <1>1 DEF AInv, FramesAreAnswers
<1>10. CallbackAhead'
  <2>1. \A e \in Conns : \A k \in 1..Len(toServer'[e]) :
           toServer'[e][k] \in calledBack \ dispatched =>
              \E j \in 1..Len(toClient[e]) : toClient[e][j] = CallbackFrame(toServer'[e][k])
    BY <1>2, <1>7 DEF AInv, CallbackAhead
  <2> QED BY <1>1, <2>1 DEF AInv, CallbackAhead, CallbackFrame
<1> QED BY <1>8, <1>9, <1>10

LEMMA CallerWaiter ==
  ASSUME IInv, AInv, NEW t \in Callers, BeginCall(t) \/ BeginSync(t) \/ CallStep(t)
  PROVE  OwnWaiter'
<1>0. pc \in [Callers -> Steps] /\ call \in [Callers -> CallType]
  BY DEF IInv, TypeOK, CallerTypes
<1>1. ASSUME NEW u \in Callers \ {t}, pc'[u] = "waiting"
      PROVE  request'[Req(u)'].waiter \in {None, u}
  <2>1. pc[u] = "waiting" /\ InCall(u)
    BY <1>1, OtherCalls DEF InCall, Steps
  <2> QED BY <2>1, OtherCalls DEF AInv, OwnWaiter
<1>2. ASSUME pc'[t] = "waiting"
      PROVE  request'[Req(t)'].waiter \in {None, t}
  <2>1. TryWait(t) \/ TimeOut(t)
    BY <1>0, <1>2 DEF BeginCall, BeginSync, CallStep, MethodNotFound, ArgumentMismatch, Compose,
         Register, Insert, Send, SendFails, WakeUp, Remove, Erase, ReturnTimeout, ReturnAnswer,
         Return, Goto
  <2>2. Req(t) \in Requests /\ request[Req(t)] \in RequestType
    BY <2>1 DEF TryWait, TimeOut, InCall, Steps, IInv, OwnRequest, TypeOK, RequestTypes
  <2>3. CASE TryWait(t)
    <3>1. Req(t)' = Req(t)
      BY <2>3 DEF TryWait, Req
    <3>2. request'[Req(t)].waiter = t
      BY <2>2, <2>3 DEF TryWait, IInv, TypeOK, RequestTypes, RequestType
    <3> QED BY <3>1, <3>2
  <2>4. CASE TimeOut(t)
    <3>1. Req(t)' = Req(t)
      BY <1>0, <2>4 DEF TimeOut, Req, CallType
    <3>2. request'[Req(t)].waiter = None
      BY <2>2, <2>4 DEF TimeOut, IInv, TypeOK, RequestTypes, RequestType
    <3> QED BY <3>1, <3>2
  <2> QED BY <2>1, <2>3, <2>4
<1> QED BY <1>1, <1>2 DEF OwnWaiter

LEMMA CallerApi ==
  ASSUME IInv, AInv, NEW t \in Callers, BeginCall(t) \/ BeginSync(t) \/ CallStep(t)
  PROVE  KnownApi'
<1>0. pc \in [Callers -> Steps] /\ call \in [Callers -> CallType]
  BY DEF IInv, TypeOK, CallerTypes
<1>1. ASSUME pc'[t] # "idle"
      PROVE  call'[t].api \in Apis
  <2>1. CASE BeginCall(t) \/ BeginSync(t)
    BY <1>0, <2>1 DEF BeginCall, BeginSync, NewCall
  <2>2. CASE Compose(t) \/ TimeOut(t)
    BY <1>0, <2>2 DEF Compose, TimeOut, CallType, AInv, KnownApi
  <2>3. CASE \/ Register(t) \/ Insert(t) \/ Send(t) \/ TryWait(t) \/ WakeUp(t)
             \/ Remove(t) \/ Erase(t)
    BY <1>0, <2>3 DEF Register, Insert, Send, TryWait, WakeUp, Remove, Erase, AInv, KnownApi
  <2> QED BY <1>0, <1>1, <2>1, <2>2, <2>3 DEF CallStep, MethodNotFound, ArgumentMismatch,
             SendFails, ReturnTimeout, ReturnAnswer, Return, Goto
<1> QED BY <1>1, OtherCalls DEF AInv, KnownApi

\* A step of a caller leaves the answers what they are.
LEMMA CallerAnswers ==
  ASSUME IInv, AInv, NEW t \in Callers, BeginCall(t) \/ BeginSync(t) \/ CallStep(t)
  PROVE  AInv'
<1>1. OutcomeIsAnswer' /\ ResultIsAnswer' /\ OwnWaiter' /\ KnownApi'
  BY CallerOutcomes, CallerWaiter, CallerApi
<1>2. CASE Send(t)
  BY <1>1, <1>2, SendAnswers DEF AInv
<1>3. CASE ~ Send(t)
  <2>1. UNCHANGED <<toServer, toClient, sent, answer, calledBack, dispatched, lstep, lframe>>
    BY <1>3, CallerSteps DEF listenerVars
  <2> QED BY <1>1, <2>1, WiresStay DEF AInv
<1> QED BY <1>2, <1>3

-----------------------------------------------------------------------------
(* A listener's step preserves AInv. *)

\* The places of a queue after its head was taken.
LEMMA TailPlaces ==
  ASSUME NEW S, NEW s \in Seq(S), s # <<>>
  PROVE  /\ Tail(s) \in Seq(S) /\ Head(s) = s[1] /\ 1 \in 1..Len(s)
         /\ \A k \in 1..Len(Tail(s)) : k + 1 \in 1..Len(s) /\ Tail(s)[k] = s[k + 1]
         /\ \A k \in 1..Len(s) : k # 1 => k - 1 \in 1..Len(Tail(s)) /\ Tail(s)[k - 1] = s[k]
OBVIOUS

\* What remains on the wire when the listener has taken a frame that is not a
\* callback, or has dispatched it.
LEMMA FrameTaken ==
  ASSUME IInv, AInv, NEW c \in Conns, Received(c),
         UNCHANGED <<toServer, sent, answer, calledBack>>, dispatched \subseteq dispatched',
         Head(toClient[c]).kind = "callback" => Head(toClient[c]).to \in dispatched'
  PROVE  /\ Settles /\ AnsweredOnce' /\ calledBack' \subseteq sent'
         /\ \A d \in Conns : \A k \in 1..Len(toClient'[d]) :
               toClient'[d][k].kind # "callback" => answer'[toClient'[d][k].to] = toClient'[d][k].kind
         /\ \A d \in Conns : \A k \in 1..Len(toServer'[d]) :
               toServer'[d][k] \in calledBack' \ dispatched' =>
                  \E j \in 1..Len(toClient'[d]) : toClient'[d][j] = CallbackFrame(toServer'[d][k])
         /\ \A d \in Conns : \A k \in 1..Len(toClient'[d]) :
               toClient'[d][k].kind # "callback" /\ toClient'[d][k].to \in calledBack' \ dispatched' =>
                  \E j \in 1..Len(toClient'[d]) :
                     j < k /\ toClient'[d][j] = CallbackFrame(toClient'[d][k].to)
<1>0. toClient \in [Conns -> Seq(Frames)] /\ toClient[c] # <<>>
      /\ toClient' = [toClient EXCEPT ![c] = Tail(toClient[c])]
  BY DEF IInv, TypeOK, WireTypes, Frames, Received
<1>1. /\ Head(toClient[c]) = toClient[c][1]
      /\ \A k \in 1..Len(toClient'[c]) : /\ k + 1 \in 1..Len(toClient[c])
                                         /\ toClient'[c][k] = toClient[c][k + 1]
      /\ \A k \in 1..Len(toClient[c]) : k # 1 => /\ k - 1 \in 1..Len(toClient'[c])
                                                 /\ toClient'[c][k - 1] = toClient[c][k]
  <2>1. toClient[c] \in Seq(Frames) /\ toClient'[c] = Tail(toClient[c])
    BY <1>0
  <2> QED BY <1>0, <2>1, TailPlaces
<1>2. \A d \in Conns \ {c} : toClient'[d] = toClient[d]
  BY <1>0
<1>3. Settles /\ AnsweredOnce' /\ calledBack' \subseteq sent'
  <2>1. Settles
    BY DEF Settles
  <2>2. AnsweredOnce'
    BY DEF AInv, AnsweredOnce
  <2>3. calledBack' \subseteq sent'
    BY DEF AInv, CallbackAhead
  <2> QED BY <2>1, <2>2, <2>3
<1>4. ASSUME NEW d \in Conns, NEW k \in 1..Len(toClient'[d]), toClient'[d][k].kind # "callback"
      PROVE  answer'[toClient'[d][k].to] = toClient'[d][k].kind
  BY <1>1, <1>2, <1>4 DEF AInv, FramesAreAnswers
<1>5. ASSUME NEW d \in Conns, NEW i \in calledBack' \ dispatched', NEW j \in 1..Len(toClient[d]),
             toClient[d][j] = CallbackFrame(i)
      PROVE  \/ d # c /\ j \in 1..Len(toClient'[d]) /\ toClient'[d][j] = CallbackFrame(i)
             \/ d = c /\ j # 1 /\ j - 1 \in 1..Len(toClient'[d])
                      /\ toClient'[d][j - 1] = CallbackFrame(i)
  <2>1. CASE d # c
    BY <1>2, <1>5, <2>1
  <2>2. CASE d = c
    <3>1. j # 1
      BY <1>1, <1>5, <2>2 DEF CallbackFrame
    <3> QED BY <1>1, <1>5, <2>2, <3>1
  <2> QED BY <2>1, <2>2
<1>6. ASSUME NEW d \in Conns, NEW k \in 1..Len(toServer'[d]),
             toServer'[d][k] \in calledBack' \ dispatched'
      PROVE  \E j \in 1..Len(toClient'[d]) : toClient'[d][j] = CallbackFrame(toServer'[d][k])
  <2>1. PICK j \in 1..Len(toClient[d]) : toClient[d][j] = CallbackFrame(toServer[d][k])
    BY <1>6 DEF AInv, CallbackAhead
  <2> QED BY <1>5, <1>6, <2>1
<1>7. ASSUME NEW d \in Conns, NEW k \in 1..Len(toClient'[d]), toClient'[d][k].kind # "callback",
             toClient'[d][k].to \in calledBack' \ dispatched'
      PROVE  \E j \in 1..Len(toClient'[d]) :
                j < k /\ toClient'[d][j] = CallbackFrame(toClient'[d][k].to)
  <2> DEFINE i == toClient'[d][k].to
  <2>1. CASE d # c
    BY <1>2, <1>7, <2>1 DEF AInv, CallbackAhead
  <2>2. CASE d = c
    <3>1. /\ k + 1 \in 1..Len(toClient[c]) /\ toClient[c][k + 1].to = i
          /\ toClient[c][k + 1].kind # "callback"
      BY <1>1, <1>7, <2>2
    <3>2. i \in calledBack \ dispatched
      BY <1>7
    <3>3. PICK j \in 1..Len(toClient[c]) : j < k + 1 /\ toClient[c][j] = CallbackFrame(i)
      BY <3>1, <3>2 DEF AInv, CallbackAhead
    <3>4. j # 1 /\ j - 1 \in 1..Len(toClient'[d]) /\ toClient'[d][j - 1] = CallbackFrame(i)
      BY <1>5, <1>7, <2>2, <3>3
    <3>5. j - 1 < k
      BY <3>3
    <3> QED BY <3>4, <3>5
  <2> QED BY <2>1, <2>2
<1> QED BY <1>3, <1>4, <1>6, <1>7

\* A listener that takes an answer off the wire has dispatched its callback.
LEMMA ListenerTakes ==
  ASSUME IInv, AInv, NEW c \in Conns,
         ListenerDiscard(c) \/ ListenerDispatch(c) \/ ListenerAccept(c)
  PROVE  AnsweredOnce' /\ FramesAreAnswers' /\ CallbackAhead' /\ Settles
<1> DEFINE f == Head(toClient[c])
<1>1. /\ Received(c) /\ UNCHANGED <<toServer, sent, answer, calledBack>>
      /\ dispatched \subseteq dispatched' /\ (f.kind = "callback" => f.to \in dispatched')
  BY DEF ListenerDiscard, ListenerDispatch, ListenerAccept
<1>2. ASSUME NEW d \in Conns, lstep'[d] # "poll"
      PROVE  /\ lframe'[d].kind \in {"reply", "exception"}
             /\ answer'[lframe'[d].to] = lframe'[d].kind
             /\ lframe'[d].to \notin calledBack' \ dispatched'
  <2>1. CASE lstep'[d] = lstep[d] /\ lframe'[d] = lframe[d]
    BY <1>1, <1>2, <2>1 DEF AInv, FramesAreAnswers, CallbackAhead
  <2>2. CASE d = c /\ lframe'[c] = f /\ f.kind \in {"reply", "exception"}
    <3>1. f = toClient[c][1] /\ 1 \in 1..Len(toClient[c])
      <4>1. toClient[c] \in Seq(Frames) /\ toClient[c] # <<>>
        BY <1>1 DEF Received, IInv, TypeOK, WireTypes, Frames
      <4> QED BY <4>1, TailPlaces
    <3>2. answer[f.to] = f.kind /\ f.to \notin calledBack \ dispatched
      BY <2>2, <3>1 DEF AInv, FramesAreAnswers, CallbackAhead
    <3> QED BY <1>1, <2>2, <3>2
  <2>3. \/ UNCHANGED <<lstep, lframe>>
        \/ /\ lframe' = [lframe EXCEPT ![c] = f] /\ f.kind \in {"reply", "exception"}
           /\ lstep' = [lstep EXCEPT ![c] = "find"]
    BY DEF ListenerDiscard, ListenerDispatch, ListenerAccept, LGoto, listenerVars
  <2> QED BY <2>1, <2>2, <2>3 DEF IInv, TypeOK, ListenerTypes
<1> HIDE DEF f
<1>3. Settles /\ AnsweredOnce'
  BY <1>1, FrameTaken DEF f
<1>4. FramesAreAnswers'
  <2>1. \A d \in Conns : \A k \in 1..Len(toClient'[d]) :
           toClient'[d][k].kind # "callback" => answer'[toClient'[d][k].to] = toClient'[d][k].kind
    BY <1>1, FrameTaken DEF f
  <2> QED BY <1>2, <2>1 DEF FramesAreAnswers
<1>5. CallbackAhead'
  <2>1. /\ calledBack' \subseteq sent'
        /\ \A d \in Conns : \A k \in 1..Len(toServer'[d]) :
               toServer'[d][k] \in calledBack' \ dispatched' =>
                  \E j \in 1..Len(toClient'[d]) : toClient'[d][j] = CallbackFrame(toServer'[d][k])
        /\ \A d \in Conns : \A k \in 1..Len(toClient'[d]) :
               toClient'[d][k].kind # "callback" /\ toClient'[d][k].to \in calledBack' \ dispatched' =>
                  \E j \in 1..Len(toClient'[d]) :
                     j < k /\ toClient'[d][j] = CallbackFrame(toClient'[d][k].to)
    BY <1>1, FrameTaken DEF f
  <2> QED BY <1>2, <2>1 DEF CallbackAhead, CallbackFrame
<1> QED BY <1>3, <1>4, <1>5

\* What the callers see of a step that signals nobody and leaves their threads
\* alone.
LEMMA BystanderOutcomes ==
  ASSUME IInv, AInv, Settles, UNCHANGED <<pc, call, result>>,
         \A r \in live : /\ request'[r].messageId = request[r].messageId
                         /\ request'[r].response = request[r].response
                         /\ request'[r].exception = request[r].exception
                         /\ request'[r].waiter = request[r].waiter
  PROVE  OutcomeIsAnswer' /\ ResultIsAnswer' /\ OwnWaiter' /\ KnownApi'
<1>1. ASSUME NEW t \in Callers, InCall(t)
      PROVE  /\ Req(t)' = Req(t) /\ Id(t)' = Id(t) /\ (Signalled(t)' <=> Signalled(t))
             /\ request'[Req(t)].response = request[Req(t)].response
             /\ request'[Req(t)].exception = request[Req(t)].exception
             /\ request'[Req(t)].waiter = request[Req(t)].waiter
  <2>1. Req(t) \in live
    BY <1>1 DEF IInv, OwnRequest
  <2> QED BY <2>1 DEF Req, Id, Signalled
<1>2. ASSUME NEW t \in Callers, pc[t] \in {"waiting", "remove", "erase", "finish"}
      PROVE  InCall(t)
  BY <1>2 DEF InCall, Steps
<1>3. OutcomeIsAnswer'
  <2>1. ASSUME NEW t \in Callers, Signalled(t)'
        PROVE  /\ Signalled(t) /\ call'[t].api = call[t].api /\ Id(t)' = Id(t)
               /\ request'[Req(t)'].exception = request[Req(t)].exception
               /\ request'[Req(t)'].response = request[Req(t)].response
    <3>1. InCall(t)
      BY <1>2, <2>1 DEF Signalled
    <3> QED BY <1>1, <2>1, <3>1
  <2> QED BY <2>1, OutcomesStay
<1>4. ResultIsAnswer'
  BY ResultStays DEF ResultIsAnswer
<1>5. OwnWaiter'
  BY <1>1, <1>2 DEF AInv, OwnWaiter
<1>6. KnownApi'
  BY DEF AInv, KnownApi
<1> QED BY <1>3, <1>4, <1>5, <1>6

\* The answer that is delivered is the one to the message of the call.
LEMMA DeliverOutcomes ==
  ASSUME IInv, AInv, NEW c \in Conns, ListenerDeliver(c)
  PROVE  AInv'
<1> DEFINE r == lreq[c]
           f == lframe[c]
           mine == Answered(request[r], f)
<1>1. /\ UNCHANGED <<pc, call, result, live, toServer, toClient, sent, answer, calledBack, dispatched>>
      /\ request' = [request EXCEPT ![r] = mine]
      /\ lframe' = [lframe EXCEPT ![c] = NoFrame]
      /\ lstep' = [lstep EXCEPT ![c] = "poll"]
      /\ lstep[c] = "deliver"
  BY DEF ListenerDeliver, LGoto, callerVars, wireVars
<1>2. /\ r \in live /\ request[r] \in RequestType /\ f.to \in Ids
      /\ request \in [Requests -> RequestType] /\ live \subseteq Requests
      /\ r = messages[c][f.to] /\ r # None /\ f.to \in sent
  BY <1>1 DEF IInv, ListenerHolds, NoDanglingEntry, TypeOK, RequestTypes, SentIds
<1>3. /\ f.kind \in {"reply", "exception"} /\ answer[f.to] = f.kind
      /\ f.to \notin calledBack \ dispatched
  BY <1>1 DEF AInv, FramesAreAnswers, CallbackAhead
<1>4. /\ mine.messageId = request[r].messageId /\ mine.waiter = None
      /\ mine.response = IF f.kind = "reply" THEN f.to ELSE 0
      /\ mine.exception = (f.kind = "exception" \/ request[r].exception)
  BY <1>2 DEF Answered, RequestType
<1>5. request'[r] = mine /\ \A s \in live \ {r} : request'[s] = request[s]
  BY <1>1, <1>2
<1>6. AnsweredOnce' /\ FramesAreAnswers' /\ CallbackAhead' /\ Settles
  <2>1. \A d \in Conns : lstep'[d] # "poll" => lstep[d] # "poll" /\ lframe'[d] = lframe[d]
    BY <1>1 DEF IInv, TypeOK, ListenerTypes
  <2> QED BY <1>1, <2>1, WiresStay
<1> HIDE DEF r, f, mine
<1>7. ASSUME NEW u \in Callers, InCall(u)
      PROVE  /\ Req(u) \in live /\ Req(u)' = Req(u) /\ Id(u)' = Id(u)
             /\ Req(u) = r => Id(u) = f.to
  <2>1. Req(u) \in live /\ Req(u)' = Req(u)
    BY <1>1, <1>7 DEF IInv, OwnRequest, Req
  <2>2. Req(u) = r => Id(u) = f.to
    BY <1>2, <1>7 DEF IInv, EntryOfCall
  <2> QED BY <1>4, <1>5, <2>1, <2>2 DEF Id
<1>8. ASSUME NEW u \in Callers, pc[u] \in {"waiting", "remove", "erase", "finish"}
      PROVE  InCall(u)
  BY <1>8 DEF InCall, Steps
<1>9. OutcomeIsAnswer'
  <2> SUFFICES ASSUME NEW u \in Callers, Signalled(u)'
               PROVE  /\ answer'[Id(u)'] \in {"reply", "exception"}
                      /\ Id(u)' \notin calledBack' \ dispatched'
                      /\ call'[u].api # "callMethodId" =>
                         /\ request'[Req(u)'].exception = (answer'[Id(u)'] = "exception")
                         /\ answer'[Id(u)'] = "reply" => request'[Req(u)'].response = Id(u)'
    BY DEF OutcomeIsAnswer
  <2>1. pc[u] \in {"waiting", "remove", "erase", "finish"} /\ InCall(u) /\ ~ call[u].timedOut
    BY <1>1, <1>8 DEF Signalled
  <2>2. CASE Req(u) # r
    <3>1. request'[Req(u)'] = request[Req(u)]
      BY <1>5, <1>7, <2>1, <2>2
    <3>2. Signalled(u)
      BY <1>1, <1>7, <2>1, <3>1 DEF Signalled
    <3> QED BY <1>1, <1>7, <2>1, <3>1, <3>2 DEF AInv, OutcomeIsAnswer
  <2>3. CASE Req(u) = r
    <3>1. Id(u)' = f.to /\ Id(u) = f.to /\ request'[Req(u)'] = mine
      BY <1>5, <1>7, <2>1, <2>3
    <3>2. ASSUME call[u].api # "callMethodId"
          PROVE  request[r].exception => f.kind = "exception"
      <4>1. CASE Signalled(u)
        BY <1>3, <2>3, <3>1, <3>2, <4>1 DEF AInv, OutcomeIsAnswer
      <4>2. CASE ~ Signalled(u)
        <5>1. pc[u] = "waiting" /\ request[Req(u)].waiter = u
          BY <2>1, <4>2 DEF Signalled, AInv, OwnWaiter
        <5> QED BY <2>3, <3>2, <5>1 DEF IInv, CallerHolds
      <4> QED BY <4>1, <4>2
    <3>3. call[u].api # "callMethodId" => mine.exception = (f.kind = "exception")
      <4>1. request[r].exception \in BOOLEAN
        BY <1>2 DEF RequestType
      <4> QED BY <1>4, <3>2, <4>1
    <3> QED BY <1>1, <1>3, <1>4, <3>1, <3>3
  <2> QED BY <2>2, <2>3
<1>10. ResultIsAnswer'
  BY <1>1, <1>6, ResultStays DEF ResultIsAnswer
<1>11. OwnWaiter'
  <2>1. ASSUME NEW u \in Callers, pc'[u] = "waiting"
        PROVE  request'[Req(u)'].waiter \in {None, u}
    <3>1. InCall(u) /\ pc[u] = "waiting"
      BY <1>1, <1>8, <2>1
    <3> QED BY <1>4, <1>5, <1>7, <3>1 DEF AInv, OwnWaiter
  <2> QED BY <2>1 DEF OwnWaiter
<1>12. KnownApi'
  BY <1>1 DEF AInv, KnownApi
<1> QED BY <1>6, <1>9, <1>10, <1>11, <1>12 DEF AInv

\* A listener's step leaves the answers what they are.
LEMMA ListenerAnswers ==
  ASSUME IInv, AInv, NEW c \in Conns, ListenerStep(c)
  PROVE  AInv'
<1>1. CASE ListenerDiscard(c) \/ ListenerDispatch(c) \/ ListenerAccept(c)
  <2>1. UNCHANGED <<pc, call, result, request>>
    BY <1>1 DEF ListenerDiscard, ListenerDispatch, ListenerAccept, callerVars, requestVars
  <2> QED BY <1>1, <2>1, ListenerTakes, BystanderOutcomes DEF AInv
<1>2. CASE ListenerNotFound(c) \/ ListenerFind(c) \/ ListenerLock(c)
  <2>1. UNCHANGED <<pc, call, result, toServer, toClient, sent, answer, calledBack, dispatched>>
    BY <1>2 DEF ListenerNotFound, ListenerFind, ListenerLock, callerVars, wireVars
  <2>2. \A d \in Conns : lstep'[d] # "poll" => lstep[d] # "poll" /\ lframe'[d] = lframe[d]
    BY <1>2 DEF ListenerNotFound, ListenerFind, ListenerLock, LGoto, IInv, TypeOK, ListenerTypes
  <2>3. ASSUME NEW r \in live
        PROVE  /\ request'[r].messageId = request[r].messageId
               /\ request'[r].response = request[r].response
               /\ request'[r].exception = request[r].exception
               /\ request'[r].waiter = request[r].waiter
    <3>1. CASE UNCHANGED request
      BY <3>1
    <3>2. CASE ListenerLock(c)
      <4>1. request[r] \in RequestType /\ r \in Requests /\ DOMAIN request = Requests
        BY DEF IInv, TypeOK, RequestTypes
      <4> QED BY <3>2, <4>1 DEF ListenerLock, RequestType
    <3> QED BY <1>2, <3>1, <3>2 DEF ListenerNotFound, ListenerFind, requestVars
  <2> QED BY <2>1, <2>2, <2>3, WiresStay, BystanderOutcomes DEF AInv
<1> QED BY <1>1, <1>2, DeliverOutcomes DEF ListenerStep

-----------------------------------------------------------------------------
(* A step of the remote session preserves AInv. *)

\* What remains on the wire when the session has taken its next message.
LEMMA MessageTaken ==
  ASSUME IInv, AInv, NEW c \in Conns, toServer[c] # <<>>,
         toServer' = [toServer EXCEPT ![c] = Tail(@)]
  PROVE  /\ Head(toServer[c]) \in Ids /\ Head(toServer[c]) \in sent
         /\ 1 \in 1..Len(toServer[c]) /\ toServer[c][1] = Head(toServer[c])
         /\ \A d \in Conns : \A k \in 1..Len(toServer'[d]) :
               /\ toServer'[d][k] # Head(toServer[c])
               /\ \/ d # c /\ k \in 1..Len(toServer[d]) /\ toServer'[d][k] = toServer[d][k]
                  \/ d = c /\ k + 1 \in 1..Len(toServer[d]) /\ toServer'[d][k] = toServer[d][k + 1]
<1>1. toServer \in [Conns -> Seq(Ids)]
  BY DEF IInv, TypeOK, WireTypes
<1>2. /\ Head(toServer[c]) = toServer[c][1] /\ 1 \in 1..Len(toServer[c])
      /\ \A k \in 1..Len(Tail(toServer[c])) : /\ k + 1 \in 1..Len(toServer[c])
                                              /\ Tail(toServer[c])[k] = toServer[c][k + 1]
  BY <1>1, TailPlaces
<1>3. /\ toServer'[c] = Tail(toServer[c])
      /\ \A d \in Conns \ {c} : toServer'[d] = toServer[d]
  BY <1>1
<1>4. \A d \in Conns : \A k \in 1..Len(toServer'[d]) :
         \/ d # c /\ k \in 1..Len(toServer[d]) /\ toServer'[d][k] = toServer[d][k]
         \/ d = c /\ k + 1 \in 1..Len(toServer[d]) /\ toServer'[d][k] = toServer[d][k + 1]
  BY <1>2, <1>3
<1>5. ASSUME NEW d \in Conns, NEW k \in 1..Len(toServer'[d])
      PROVE  toServer'[d][k] # Head(toServer[c])
  <2>1. k + 1 # 1
    OBVIOUS
  <2> QED BY <1>2, <1>4, <2>1 DEF AInv, AnsweredOnce
<1>6. Head(toServer[c]) \in Ids /\ Head(toServer[c]) \in sent
  BY <1>1, <1>2 DEF IInv, SentIds
<1> QED BY <1>2, <1>4, <1>5, <1>6

\* The places of the wire to the client after a frame was put on it.
LEMMA FramePut ==
  ASSUME IInv, NEW c \in Conns, NEW f \in Frames, Put(c, f)
  PROVE  /\ Len(toClient[c]) + 1 \in 1..Len(toClient'[c])
         /\ toClient'[c][Len(toClient[c]) + 1] = f
         /\ \A d \in Conns : \A k \in 1..Len(toClient[d]) :
               k \in 1..Len(toClient'[d]) /\ toClient'[d][k] = toClient[d][k]
         /\ \A d \in Conns : \A k \in 1..Len(toClient'[d]) :
               \/ k \in 1..Len(toClient[d])
               \/ d = c /\ k = Len(toClient[c]) + 1
<1>1. toClient \in [Conns -> Seq(Frames)]
  BY DEF IInv, TypeOK, WireTypes, Frames
<1>2. toClient'[c] = Append(toClient[c], f) /\ \A d \in Conns \ {c} : toClient'[d] = toClient[d]
  BY <1>1 DEF Put
<1>3. toClient[c] \in Seq(Frames)
  BY <1>1
<1>4. /\ Len(toClient'[c]) = Len(toClient[c]) + 1 /\ toClient'[c][Len(toClient[c]) + 1] = f
      /\ \A k \in 1..Len(toClient[c]) : toClient'[c][k] = toClient[c][k]
      /\ \A k \in 1..Len(toClient'[c]) : k \in 1..Len(toClient[c]) \/ k = Len(toClient[c]) + 1
  BY <1>2, <1>3, AppendPlaces
<1>5. Len(toClient[c]) \in Nat
  BY <1>3
<1> QED BY <1>2, <1>4, <1>5

\* Every element of the wires is a message or a frame.
LEMMA OnTheWires ==
  ASSUME IInv, NEW d \in Conns
  PROVE  /\ \A k \in 1..Len(toServer[d]) : toServer[d][k] \in Ids
         /\ \A k \in 1..Len(toClient[d]) : toClient[d][k] \in Frames
<1>1. toServer[d] \in Seq(Ids) /\ toClient[d] \in Seq(Frames)
  BY DEF IInv, TypeOK, WireTypes, Frames
<1> QED BY <1>1

\* A session's step concerns neither the callers nor the listeners.
LEMMA SessionSteps ==
  ASSUME NEW c \in Conns, SessionStep(c)
  PROVE  UNCHANGED <<pc, call, result, live, request, lstep, lframe, sent, nextId, dispatched>>
BY DEF SessionStep, SessionCallback, SessionAnswer, SessionSkip, callerVars, requestVars,
       listenerVars, tableVars

\* A message that gets no answer.
LEMMA SkipAnswers ==
  ASSUME IInv, AInv, NEW c \in Conns, SessionSkip(c)
  PROVE  AInv'
<1>1. /\ UNCHANGED <<toClient, answer, calledBack, dispatched, pc, call, result, live, request,
                     lstep, lframe, sent>>
      /\ toServer[c] # <<>> /\ toServer' = [toServer EXCEPT ![c] = Tail(@)]
  BY SessionSteps DEF SessionStep, SessionSkip
<1>2. \A d \in Conns : \A k \in 1..Len(toServer'[d]) :
         /\ toServer'[d][k] # Head(toServer[c])
         /\ \/ d # c /\ k \in 1..Len(toServer[d]) /\ toServer'[d][k] = toServer[d][k]
            \/ d = c /\ k + 1 \in 1..Len(toServer[d]) /\ toServer'[d][k] = toServer[d][k + 1]
  BY <1>1, MessageTaken
<1>3. Settles
  BY <1>1 DEF Settles
<1>4. AnsweredOnce'
  <2>1. ASSUME NEW d \in Conns, NEW e \in Conns,
               NEW k \in 1..Len(toServer'[d]), NEW l \in 1..Len(toServer'[e]),
               toServer'[d][k] = toServer'[e][l]
        PROVE  d = e /\ k = l
    <3> DEFINE m == IF d = c THEN k + 1 ELSE k
               n == IF e = c THEN l + 1 ELSE l
    <3>1. m \in 1..Len(toServer[d]) /\ toServer'[d][k] = toServer[d][m]
      BY <1>2
    <3>2. n \in 1..Len(toServer[e]) /\ toServer'[e][l] = toServer[e][n]
      BY <1>2
    <3> HIDE DEF m, n
    <3>3. d = e /\ m = n
      <4>1. \A x, y \in Conns : \A a \in 1..Len(toServer[x]), b \in 1..Len(toServer[y]) :
               toServer[x][a] = toServer[y][b] => x = y /\ a = b
        BY DEF AInv, AnsweredOnce
      <4>2. toServer[d][m] = toServer[e][n]
        BY <2>1, <3>1, <3>2
      <4> QED BY <3>1, <3>2, <4>1, <4>2
    <3> QED BY <3>3 DEF m, n
  <2>2. \A d \in Conns : \A k \in 1..Len(toServer'[d]) : answer'[toServer'[d][k]] = "none"
    BY <1>1, <1>2 DEF AInv, AnsweredOnce
  <2> QED BY <1>1, <2>1, <2>2 DEF AInv, AnsweredOnce
<1>5. FramesAreAnswers'
  BY <1>1 DEF AInv, FramesAreAnswers
<1>6. CallbackAhead'
  <2>1. ASSUME NEW d \in Conns, NEW k \in 1..Len(toServer'[d]),
               toServer'[d][k] \in calledBack' \ dispatched'
        PROVE  \E j \in 1..Len(toClient'[d]) : toClient'[d][j] = CallbackFrame(toServer'[d][k])
    BY <1>1, <1>2, <2>1 DEF AInv, CallbackAhead
  <2> QED BY <1>1, <2>1 DEF AInv, CallbackAhead, CallbackFrame
<1> QED BY <1>1, <1>3, <1>4, <1>5, <1>6, BystanderOutcomes DEF AInv

\* The handler of a message calls back before it answers.
LEMMA CallbackAnswers ==
  ASSUME IInv, AInv, NEW c \in Conns, SessionCallback(c)
  PROVE  AInv'
<1> DEFINE i == Head(toServer[c])
           n == Len(toClient[c]) + 1
<1>1. /\ UNCHANGED <<toServer, answer, dispatched, pc, call, result, live, request, lstep, lframe, sent>>
      /\ calledBack' = calledBack \cup {i} /\ Put(c, CallbackFrame(i)) /\ toServer[c] # <<>>
      /\ i \notin calledBack
  BY SessionSteps DEF SessionStep, SessionCallback, CallbackFrame
<1>2. i \in Ids /\ i \in sent /\ 1 \in 1..Len(toServer[c]) /\ toServer[c][1] = i
  <2>1. toServer[c] \in Seq(Ids)
    BY DEF IInv, TypeOK, WireTypes
  <2>2. 1 \in 1..Len(toServer[c]) /\ toServer[c][1] = i
    BY <1>1, <2>1, TailPlaces
  <2> QED BY <2>1, <2>2 DEF IInv, SentIds
<1>3. answer[i] = "none"
  BY <1>2 DEF AInv, AnsweredOnce
<1>4. CallbackFrame(i) \in Frames
  BY <1>2 DEF CallbackFrame, Frames
<1>5. /\ n \in 1..Len(toClient'[c]) /\ toClient'[c][n] = CallbackFrame(i)
      /\ \A d \in Conns : \A k \in 1..Len(toClient[d]) :
            k \in 1..Len(toClient'[d]) /\ toClient'[d][k] = toClient[d][k]
      /\ \A d \in Conns : \A k \in 1..Len(toClient'[d]) :
            k \in 1..Len(toClient[d]) \/ (d = c /\ k = n)
  BY <1>1, <1>4, FramePut
<1> HIDE DEF i, n
<1>6. Settles
  BY <1>1, <1>3 DEF Settles
<1>7. AnsweredOnce'
  BY <1>1 DEF AInv, AnsweredOnce
<1>8. ASSUME NEW d \in Conns, NEW k \in 1..Len(toClient'[d]), toClient'[d][k].kind # "callback"
      PROVE  /\ k \in 1..Len(toClient[d]) /\ toClient'[d][k] = toClient[d][k]
             /\ answer[toClient[d][k].to] = toClient[d][k].kind
             /\ toClient[d][k].to # i
  <2>1. ~ (d = c /\ k = n)
    BY <1>5, <1>8 DEF CallbackFrame
  <2>2. k \in 1..Len(toClient[d]) /\ toClient'[d][k] = toClient[d][k]
    BY <1>5, <2>1
  <2>3. answer[toClient[d][k].to] = toClient[d][k].kind
    BY <1>8, <2>2 DEF AInv, FramesAreAnswers
  <2>4. toClient[d][k].kind # "none"
    BY <2>2, OnTheWires DEF Frames
  <2> QED BY <1>3, <2>2, <2>3, <2>4
<1>9. FramesAreAnswers'
  BY <1>1, <1>8 DEF AInv, FramesAreAnswers
<1>10. CallbackAhead'
  <2>1. ASSUME NEW d \in Conns, NEW k \in 1..Len(toServer'[d]),
               toServer'[d][k] \in calledBack' \ dispatched'
        PROVE  \E j \in 1..Len(toClient'[d]) : toClient'[d][j] = CallbackFrame(toServer'[d][k])
    <3>1. CASE toServer[d][k] = i
      <4>1. d = c
        BY <1>1, <1>2, <3>1 DEF AInv, AnsweredOnce
      <4> QED BY <1>1, <1>5, <3>1, <4>1
    <3>2. CASE toServer[d][k] # i
      BY <1>1, <1>5, <2>1, <3>2 DEF AInv, CallbackAhead
    <3> QED BY <3>1, <3>2
  <2>2. ASSUME NEW d \in Conns, NEW k \in 1..Len(toClient'[d]), toClient'[d][k].kind # "callback",
               toClient'[d][k].to \in calledBack' \ dispatched'
        PROVE  \E j \in 1..Len(toClient'[d]) :
                  j < k /\ toClient'[d][j] = CallbackFrame(toClient'[d][k].to)
    <3>1. /\ k \in 1..Len(toClient[d]) /\ toClient'[d][k] = toClient[d][k]
          /\ toClient[d][k].to # i
      BY <1>8, <2>2
    <3>2. PICK j \in 1..Len(toClient[d]) :
             j < k /\ toClient[d][j] = CallbackFrame(toClient[d][k].to)
      BY <1>1, <2>2, <3>1 DEF AInv, CallbackAhead
    <3> QED BY <1>5, <3>1, <3>2
  <2>3. ASSUME NEW d \in Conns, lstep'[d] # "poll"
        PROVE  lframe'[d].to \notin calledBack' \ dispatched'
    BY <1>1, <1>3, <2>3 DEF AInv, CallbackAhead, FramesAreAnswers
  <2>4. calledBack' \subseteq sent'
    BY <1>1, <1>2 DEF AInv, CallbackAhead
  <2> QED BY <2>1, <2>2, <2>3, <2>4 DEF CallbackAhead, CallbackFrame
<1> QED BY <1>1, <1>6, <1>7, <1>9, <1>10, BystanderOutcomes DEF AInv

\* The answer follows the callback on the same wire.
LEMMA AnswerAnswers ==
  ASSUME IInv, AInv, NEW c \in Conns, SessionAnswer(c)
  PROVE  AInv'
<1> DEFINE i == Head(toServer[c])
           n == Len(toClient[c]) + 1
<1>1. PICK kind \in {"reply", "exception", "corrupt"} :
         Put(c, [kind |-> kind, to |-> i]) /\ answer' = [answer EXCEPT ![i] = kind]
  BY DEF SessionAnswer
<1> DEFINE f == [kind |-> kind, to |-> i]
<1>2. /\ UNCHANGED <<calledBack, dispatched, pc, call, result, live, request, lstep, lframe, sent>>
      /\ toServer[c] # <<>> /\ toServer' = [toServer EXCEPT ![c] = Tail(@)]
  BY SessionSteps DEF SessionStep, SessionAnswer
<1>3. /\ i \in Ids /\ i \in sent /\ 1 \in 1..Len(toServer[c]) /\ toServer[c][1] = i
      /\ \A d \in Conns : \A k \in 1..Len(toServer'[d]) :
            /\ toServer'[d][k] # i
            /\ \/ d # c /\ k \in 1..Len(toServer[d]) /\ toServer'[d][k] = toServer[d][k]
               \/ d = c /\ k + 1 \in 1..Len(toServer[d]) /\ toServer'[d][k] = toServer[d][k + 1]
  BY <1>2, MessageTaken
<1>4. /\ answer[i] = "none" /\ answer'[i] = kind
      /\ \A j \in Ids \ {i} : answer'[j] = answer[j]
  BY <1>1, <1>3 DEF AInv, AnsweredOnce, IInv, TypeOK, WireTypes
<1>5. f \in Frames /\ f.kind = kind /\ f.to = i
  BY <1>3 DEF Frames
<1>6. /\ n \in 1..Len(toClient'[c]) /\ toClient'[c][n] = f
      /\ \A d \in Conns : \A k \in 1..Len(toClient[d]) :
            k \in 1..Len(toClient'[d]) /\ toClient'[d][k] = toClient[d][k]
      /\ \A d \in Conns : \A k \in 1..Len(toClient'[d]) :
            k \in 1..Len(toClient[d]) \/ (d = c /\ k = n)
  BY <1>1, <1>5, FramePut
<1>7. \A d \in Conns : \A k \in 1..Len(toServer[d]) : toServer[d][k] \in Ids
  BY OnTheWires
<1>8. \A d \in Conns : \A k \in 1..Len(toClient[d]) : toClient[d][k] \in Frames
  BY OnTheWires
<1>20. Len(toClient[c]) \in Nat
  BY DEF IInv, TypeOK, WireTypes
<1> HIDE DEF i, f
<1>9. Settles
  BY <1>2, <1>4 DEF Settles
<1>10. AnsweredOnce'
  <2>1. ASSUME NEW d \in Conns, NEW e \in Conns,
               NEW k \in 1..Len(toServer'[d]), NEW l \in 1..Len(toServer'[e]),
               toServer'[d][k] = toServer'[e][l]
        PROVE  d = e /\ k = l
    <3> DEFINE m == IF d = c THEN k + 1 ELSE k
               o == IF e = c THEN l + 1 ELSE l
    <3>1. m \in 1..Len(toServer[d]) /\ toServer'[d][k] = toServer[d][m]
      BY <1>3
    <3>2. o \in 1..Len(toServer[e]) /\ toServer'[e][l] = toServer[e][o]
      BY <1>3
    <3> HIDE DEF m, o
    <3>3. d = e /\ m = o
      <4>1. \A x, y \in Conns : \A a \in 1..Len(toServer[x]), b \in 1..Len(toServer[y]) :
               toServer[x][a] = toServer[y][b] => x = y /\ a = b
        BY DEF AInv, AnsweredOnce
      <4>2. toServer[d][m] = toServer[e][o]
        BY <2>1, <3>1, <3>2
      <4> QED BY <3>1, <3>2, <4>1, <4>2
    <3> QED BY <3>3 DEF m, o
  <2>2. ASSUME NEW d \in Conns, NEW k \in 1..Len(toServer'[d])
        PROVE  answer'[toServer'[d][k]] = "none"
    <3>1. PICK l \in 1..Len(toServer[d]) : toServer'[d][k] = toServer[d][l]
      BY <1>3
    <3>2. toServer[d][l] \in Ids \ {i} /\ answer[toServer[d][l]] = "none"
      BY <1>3, <1>7, <3>1 DEF AInv, AnsweredOnce
    <3> QED BY <1>4, <3>1, <3>2
  <2>3. \A j \in Ids \ sent' : answer'[j] = "none"
    BY <1>2, <1>3, <1>4 DEF AInv, AnsweredOnce
  <2> QED BY <2>1, <2>2, <2>3 DEF AnsweredOnce
<1>11. FramesAreAnswers'
  <2>1. ASSUME NEW d \in Conns, NEW k \in 1..Len(toClient'[d]), toClient'[d][k].kind # "callback"
        PROVE  answer'[toClient'[d][k].to] = toClient'[d][k].kind
    <3>1. CASE d = c /\ k = n
      BY <1>4, <1>5, <1>6, <3>1
    <3>2. CASE k \in 1..Len(toClient[d])
      <4>1. /\ toClient'[d][k] = toClient[d][k] /\ toClient[d][k] \in Frames
            /\ answer[toClient[d][k].to] = toClient[d][k].kind
        BY <1>6, <1>8, <2>1, <3>2 DEF AInv, FramesAreAnswers
      <4>2. toClient[d][k].to \in Ids /\ toClient[d][k].kind # "none"
        BY <4>1 DEF Frames
      <4> QED BY <1>4, <4>1, <4>2
    <3> QED BY <1>6, <3>1, <3>2
  <2>2. ASSUME NEW d \in Conns, lstep'[d] # "poll"
        PROVE  lframe'[d].kind \in {"reply", "exception"} /\ answer'[lframe'[d].to] = lframe'[d].kind
    <3>1. lframe[d].kind \in {"reply", "exception"} /\ answer[lframe[d].to] = lframe[d].kind
      BY <1>2, <2>2 DEF AInv, FramesAreAnswers
    <3>2. lframe[d].to \in Ids
      BY <1>2, <2>2 DEF IInv, SentIds, TypeOK, WireTypes
    <3> QED BY <1>2, <1>4, <3>1, <3>2
  <2> QED BY <2>1, <2>2 DEF FramesAreAnswers
<1>12. CallbackAhead'
  <2>1. ASSUME NEW d \in Conns, NEW k \in 1..Len(toServer'[d]),
               toServer'[d][k] \in calledBack' \ dispatched'
        PROVE  \E j \in 1..Len(toClient'[d]) : toClient'[d][j] = CallbackFrame(toServer'[d][k])
    <3>0. PICK l \in 1..Len(toServer[d]) : toServer'[d][k] = toServer[d][l]
      BY <1>3
    <3>1. PICK j \in 1..Len(toClient[d]) : toClient[d][j] = CallbackFrame(toServer'[d][k])
      BY <1>2, <2>1, <3>0 DEF AInv, CallbackAhead
    <3> QED BY <1>6, <3>1
  <2>2. ASSUME NEW d \in Conns, NEW k \in 1..Len(toClient'[d]), toClient'[d][k].kind # "callback",
               toClient'[d][k].to \in calledBack' \ dispatched'
        PROVE  \E j \in 1..Len(toClient'[d]) :
                  j < k /\ toClient'[d][j] = CallbackFrame(toClient'[d][k].to)
    <3>1. CASE d = c /\ k = n
      <4>1. i \in calledBack \ dispatched
        BY <1>2, <1>5, <1>6, <2>2, <3>1
      <4>2. PICK j \in 1..Len(toClient[c]) : toClient[c][j] = CallbackFrame(i)
        <5>1. 1 \in 1..Len(toServer[c]) /\ toServer[c][1] \in calledBack \ dispatched
          BY <1>3, <4>1
        <5>2. \E j \in 1..Len(toClient[c]) : toClient[c][j] = CallbackFrame(toServer[c][1])
          BY <5>1 DEF AInv, CallbackAhead
        <5> QED BY <1>3, <5>2
      <4>3. j < n
        BY <1>20, <4>2
      <4> QED BY <1>5, <1>6, <3>1, <4>2, <4>3
    <3>2. CASE k \in 1..Len(toClient[d])
      <4>1. toClient'[d][k] = toClient[d][k]
        BY <1>6, <3>2
      <4>2. PICK j \in 1..Len(toClient[d]) :
               j < k /\ toClient[d][j] = CallbackFrame(toClient[d][k].to)
        BY <1>2, <2>2, <3>2, <4>1 DEF AInv, CallbackAhead
      <4> QED BY <1>6, <4>1, <4>2
    <3> QED BY <1>6, <3>1, <3>2
  <2> QED BY <1>2, <2>1, <2>2 DEF AInv, CallbackAhead, CallbackFrame
<1> QED BY <1>2, <1>9, <1>10, <1>11, <1>12, BystanderOutcomes DEF AInv
-----------------------------------------------------------------------------
(* The theorems about answers. *)

LEMMA InitAnswers == ASSUME Init PROVE AInv
<1>1. /\ \A t \in Callers : pc[t] = "idle" /\ result[t].status = "none"
      /\ \A c \in Conns : lstep[c] = "poll" /\ toServer[c] = <<>> /\ toClient[c] = <<>>
      /\ sent = {} /\ calledBack = {} /\ \A i \in Ids : answer[i] = "none"
  BY DEF Init
<1> QED BY <1>1 DEF AInv, AnsweredOnce, FramesAreAnswers, CallbackAhead, OutcomeIsAnswer,
           ResultIsAnswer, OwnWaiter, KnownApi, Signalled

LEMMA StutterAnswers == ASSUME IInv, AInv, UNCHANGED vars PROVE AInv'
<1>1. UNCHANGED <<pc, call, result, live, request, lstep, lframe,
                  toServer, toClient, sent, answer, calledBack, dispatched>>
  BY DEF vars, callerVars, requestVars, listenerVars, wireVars
<1>2. Settles /\ AnsweredOnce' /\ FramesAreAnswers' /\ CallbackAhead'
  BY <1>1, WiresStay
<1> QED BY <1>1, <1>2, BystanderOutcomes DEF AInv

\* Every reachable state satisfies AInv as well, for all values of the constants.
THEOREM AnswersInductive == Spec => [](IInv /\ AInv)
<1>1. Init => AInv
  BY InitAnswers
<1>2. ASSUME IInv, AInv, [Next]_vars PROVE AInv'
  <2>1. ASSUME NEW t \in Callers, BeginCall(t) \/ BeginSync(t) \/ CallStep(t) PROVE AInv'
    BY <1>2, <2>1, CallerAnswers
  <2>2. ASSUME NEW c \in Conns, ListenerStep(c) PROVE AInv'
    BY <1>2, <2>2, ListenerAnswers
  <2>3. ASSUME NEW c \in Conns, SessionStep(c) PROVE AInv'
    BY <1>2, <2>3, SkipAnswers, CallbackAnswers, AnswerAnswers DEF SessionStep
  <2>4. CASE UNCHANGED vars
    BY <1>2, <2>4, StutterAnswers
  <2> QED BY <1>2, <2>1, <2>2, <2>3, <2>4 DEF Next
<1> QED BY <1>1, <1>2, Inductive, PTL DEF Spec

\* When a call returns the remote side's answer, the callback that the handler
\* sent before it is with the Dispatcher: the listener takes frames in the order
\* in which the session wrote them and hands a callback on before it reads the
\* next frame (nymph_socket_listener.cpp 130-160).
THEOREM CallbacksComeFirst == Spec => []CallbackBeforeReturn
<1>1. AInv => CallbackBeforeReturn
  BY DEF AInv, ResultIsAnswer, CallbackBeforeReturn
<1> QED BY <1>1, AnswersInductive, PTL

-----------------------------------------------------------------------------
(* Entries of calls that have ended. *)

\* A step that ends a call without removeMessage having run is SendFails alone.
LEMMA EntryStep ==
  ASSUME IInv, EntryIsAwaited, ~ SendMayFail, [Next]_vars
  PROVE  EntryIsAwaited'
<1>1. ASSUME NEW t \in Callers, BeginCall(t) \/ BeginSync(t) \/ CallStep(t)
      PROVE  EntryIsAwaited'
  <2>0. pc \in [Callers -> Steps] /\ call \in [Callers -> CallType]
        /\ messages \in [Conns -> [Ids -> Requests \cup {None}]]
        /\ request \in [Requests -> RequestType] /\ live \subseteq Requests
    BY DEF IInv, TypeOK, CallerTypes, TableTypes, RequestTypes
  <2>1. ASSUME NEW u \in Callers, u # t, InCall(u)
        PROVE  InCall(u)' /\ Conn(u)' = Conn(u) /\ Id(u)' = Id(u) /\ Req(u)' = Req(u)
    BY <1>1, <2>1, OtherCalls DEF Conn
  <2>2. CASE UNCHANGED messages
    <3> SUFFICES ASSUME NEW c \in Conns, NEW i \in Ids, messages[c][i] # None
                 PROVE  \E u \in Callers : /\ InCall(u)' /\ Conn(u)' = c
                                           /\ Id(u)' = i /\ Req(u)' = messages[c][i]
      BY <2>2 DEF EntryIsAwaited
    <3>1. PICK u \in Callers : InCall(u) /\ Conn(u) = c /\ Id(u) = i /\ Req(u) = messages[c][i]
      BY DEF EntryIsAwaited
    <3>2. CASE u # t
      BY <2>1, <3>1, <3>2
    <3>3. CASE u = t
      <4>1. pc[t] \in {"send", "tryWait", "waiting", "remove", "erase"}
        BY <3>1, <3>3 DEF IInv, EntryOfCall
      <4>2. Req(t) \in Requests /\ request[Req(t)] \in RequestType
        BY <2>0, <3>1, <3>3 DEF IInv, OwnRequest
      <4>3. CASE Send(t) \/ WakeUp(t) \/ Remove(t)
        <5>1. UNCHANGED <<call, request>> /\ pc'[t] \in {"tryWait", "remove", "erase", "finish"}
          BY <2>0, <4>3 DEF Send, WakeUp, Remove, Goto, requestVars
        <5> QED BY <3>1, <3>3, <5>1 DEF InCall, Steps, Conn, Id, Req
      <4>4. CASE TryWait(t)
        <5>1. /\ call' = call /\ pc'[t] = "waiting"
              /\ request'[Req(t)].messageId = request[Req(t)].messageId
          BY <2>0, <4>2, <4>4 DEF TryWait, Goto, RequestType
        <5> QED BY <3>1, <3>3, <5>1 DEF InCall, Steps, Conn, Id, Req
      <4>5. CASE TimeOut(t)
        <5>1. /\ pc' = pc /\ call'[t].conn = call[t].conn /\ call'[t].req = call[t].req
              /\ request'[Req(t)].messageId = request[Req(t)].messageId
          BY <2>0, <4>2, <4>5 DEF TimeOut, CallType, RequestType
        <5> QED BY <3>1, <3>3, <5>1 DEF InCall, Steps, Conn, Id, Req
      <4>6. CASE Erase(t)
        BY <2>0, <2>2, <3>1, <3>3, <4>6, ConstantsAssumption DEF Erase
      <4> QED BY <1>1, <4>1, <4>3, <4>4, <4>5, <4>6 DEF BeginCall, BeginSync, CallStep,
                 MethodNotFound, ArgumentMismatch, Compose, Register, Insert, SendFails,
                 ReturnTimeout, ReturnAnswer
    <3> QED BY <3>2, <3>3
  <2>3. CASE Insert(t)
    <3>1. /\ call' = call /\ request' = request /\ pc[t] = "insert" /\ pc'[t] = "send"
          /\ messages' = [messages EXCEPT ![Conn(t)][Id(t)] = Req(t)] \/ messages' = messages
      BY <2>0, <2>3 DEF Insert, Goto, requestVars
    <3>2. InCall(t)' /\ Conn(t)' = Conn(t) /\ Id(t)' = Id(t) /\ Req(t)' = Req(t)
          /\ InCall(t)
      BY <3>1 DEF InCall, Steps, Conn, Id, Req
    <3>3. Conn(t) \in Conns /\ Id(t) \in Ids
      BY <3>2 DEF IInv, OwnRequest, InCall
    <3> SUFFICES ASSUME NEW c \in Conns, NEW i \in Ids, messages'[c][i] # None
                 PROVE  \E u \in Callers : /\ InCall(u)' /\ Conn(u)' = c
                                           /\ Id(u)' = i /\ Req(u)' = messages'[c][i]
      BY DEF EntryIsAwaited
    <3>4. \/ c = Conn(t) /\ i = Id(t) /\ messages'[c][i] = Req(t)
          \/ messages'[c][i] = messages[c][i]
      BY <2>0, <3>1, <3>3
    <3>5. CASE messages'[c][i] = messages[c][i]
      <4>1. PICK u \in Callers : InCall(u) /\ Conn(u) = c /\ Id(u) = i /\ Req(u) = messages[c][i]
        BY <3>5 DEF EntryIsAwaited
      <4> QED BY <2>1, <3>2, <3>5, <4>1
    <3> QED BY <3>2, <3>4, <3>5
  <2>4. CASE Erase(t)
    <3>1. /\ pc[t] = "erase" /\ call' = call /\ request' = request
          /\ messages' = [messages EXCEPT ![Conn(t)][Id(t)] = None]
      BY <2>4 DEF Erase, requestVars
    <3>2. InCall(t) /\ Conn(t) \in Conns /\ Id(t) \in Ids
      BY <3>1 DEF IInv, OwnRequest, InCall, Steps
    <3> SUFFICES ASSUME NEW c \in Conns, NEW i \in Ids, messages'[c][i] # None
                 PROVE  \E u \in Callers : /\ InCall(u)' /\ Conn(u)' = c
                                           /\ Id(u)' = i /\ Req(u)' = messages'[c][i]
      BY DEF EntryIsAwaited
    <3>3. messages'[c][i] = messages[c][i] /\ ~ (c = Conn(t) /\ i = Id(t))
      BY <2>0, <3>1, <3>2
    <3>4. PICK u \in Callers : InCall(u) /\ Conn(u) = c /\ Id(u) = i /\ Req(u) = messages[c][i]
      BY <3>3 DEF EntryIsAwaited
    <3> QED BY <2>1, <3>3, <3>4
  <2> QED BY <1>1, <2>2, <2>3, <2>4 DEF BeginCall, BeginSync, CallStep, MethodNotFound,
             ArgumentMismatch, Compose, Register, Send, SendFails, TryWait, TimeOut, WakeUp,
             Remove, ReturnTimeout, ReturnAnswer, tableVars
<1>2. ASSUME UNCHANGED <<callerVars, tableVars, live, sent>>,
             \A r \in live : request'[r].messageId = request[r].messageId
      PROVE  EntryIsAwaited'
  <2>1. \A t \in Callers : /\ (InCall(t)' <=> InCall(t)) /\ Conn(t)' = Conn(t) /\ Req(t)' = Req(t)
                           /\ InCall(t) => Id(t)' = Id(t)
    BY <1>2, CallersFrame
  <2> QED BY <1>2, <2>1 DEF EntryIsAwaited, tableVars
<1>3. ASSUME NEW c \in Conns, ListenerStep(c) \/ SessionStep(c)
      PROVE  /\ UNCHANGED <<callerVars, tableVars, live, sent>>
             /\ \A r \in live : request'[r].messageId = request[r].messageId
  <2>0. request \in [Requests -> RequestType] /\ live \subseteq Requests
    BY DEF IInv, TypeOK, RequestTypes
  <2>1. CASE ListenerLock(c)
    BY <2>0, <2>1 DEF ListenerLock, RequestType, wireVars
  <2>2. CASE ListenerDeliver(c)
    BY <2>0, <2>2 DEF ListenerDeliver, Answered, RequestType, wireVars
  <2> QED BY <1>3, <2>1, <2>2 DEF ListenerStep, SessionStep, ListenerDiscard, ListenerDispatch,
             ListenerAccept, ListenerNotFound, ListenerFind, SessionCallback, SessionAnswer,
             SessionSkip, requestVars, wireVars
<1>4. CASE UNCHANGED vars
  BY <1>2, <1>4 DEF vars, requestVars, wireVars
<1> QED BY <1>1, <1>2, <1>3, <1>4 DEF Next

\* If sending never fails, every entry of a listener's table belongs to a call
\* that is still open: the only way out of a call past addMessage that skips
\* removeMessage is the return on a failed send (remote_server.cpp:230 and 288).
THEOREM EntriesAreAwaited == ASSUME ~ SendMayFail PROVE Spec => []EntryIsAwaited
<1>1. Init => EntryIsAwaited
  BY DEF Init, EntryIsAwaited
<1>2. IInv /\ EntryIsAwaited /\ [Next]_vars => EntryIsAwaited'
  BY EntryStep
<1> QED BY <1>1, <1>2, Inductive, PTL DEF Spec

-----------------------------------------------------------------------------
(* The call path implements RpcContract. *)

Issued  == 1..(nextId - 1)
Pending == [t \in Callers |-> IF InCall(t) THEN Id(t) ELSE 0]

\* The contract sees nothing of a step that leaves the ids of the open calls,
\* the answers and the results alone.
LEMMA ContractStutter ==
  ASSUME UNCHANGED <<nextId, answer, result>>,
         \A t \in Callers : (InCall(t)' <=> InCall(t)) /\ (InCall(t) => Id(t)' = Id(t))
  PROVE  UNCHANGED Contract!vars
<1>1. Pending' = Pending
  BY DEF Pending
<1>2. Issued' = Issued
  BY DEF Issued
<1> QED BY <1>1, <1>2 DEF Contract!vars, Pending, Issued

\* How a caller's step changes the open calls.
LEMMA PendingOfOne ==
  ASSUME IInv, NEW t \in Callers, BeginCall(t) \/ BeginSync(t) \/ CallStep(t)
  PROVE  Pending' = [Pending EXCEPT ![t] = IF InCall(t)' THEN Id(t)' ELSE 0]
<1>1. \A u \in Callers \ {t} : Pending'[u] = Pending[u]
  BY OtherCalls DEF Pending
<1> QED BY <1>1 DEF Pending

\* A call that ends without an id: an unknown method, wrong arguments or a
\* message that could not be sent.
LEMMA RefuseStep ==
  ASSUME IInv, NEW t \in Callers, MethodNotFound(t) \/ ArgumentMismatch(t) \/ SendFails(t)
  PROVE  Contract!Refuse(t)
<1>1. /\ pc'[t] = "idle" /\ UNCHANGED <<nextId, answer>>
      /\ result' = [result EXCEPT ![t] = [status |-> "error", id |-> 0, value |-> 0]]
  BY DEF MethodNotFound, ArgumentMismatch, SendFails, Return, Goto, tableVars, wireVars,
         IInv, TypeOK, CallerTypes
<1>2. ~ InCall(t)'
  BY <1>1 DEF InCall
<1>3. Pending' = [Pending EXCEPT ![t] = 0]
  BY <1>2, PendingOfOne DEF CallStep
<1> QED BY <1>1, <1>3 DEF Contract!Refuse, Contract!End, Pending

\* A call that ends past removeMessage.
LEMMA ReturnStep ==
  ASSUME IInv, AInv, "callMethodId" \notin Apis,
         NEW t \in Callers, ReturnTimeout(t) \/ ReturnAnswer(t)
  PROVE  Contract!GiveUp(t) \/ Contract!ReturnValue(t) \/ Contract!ReturnException(t)
<1>1. /\ pc'[t] = "idle" /\ UNCHANGED <<nextId, answer>> /\ pc[t] = "finish"
  BY DEF ReturnTimeout, ReturnAnswer, Return, Goto, tableVars, wireVars, IInv, TypeOK, CallerTypes
<1>2. ~ InCall(t)' /\ InCall(t) /\ Id(t) \in Ids /\ Id(t) # 0
  BY <1>1 DEF InCall, Steps, IInv, OwnRequest, Ids
<1>3. Pending' = [Pending EXCEPT ![t] = 0] /\ Pending[t] = Id(t)
  BY <1>2, PendingOfOne DEF CallStep, Pending
<1>4. CASE ReturnTimeout(t)
  <2>1. result' = [result EXCEPT ![t] = [status |-> "timeout", id |-> Id(t), value |-> 0]]
    BY <1>4 DEF ReturnTimeout, Return
  <2> QED BY <1>1, <1>2, <1>3, <2>1 DEF Contract!GiveUp, Contract!End, Pending
<1>5. CASE ReturnAnswer(t)
  <2>1. Signalled(t) /\ call[t].api # "callMethodId"
    BY <1>1, <1>5 DEF ReturnAnswer, Signalled, AInv, KnownApi
  <2>2. /\ answer[Id(t)] \in {"reply", "exception"}
        /\ request[Req(t)].exception = (answer[Id(t)] = "exception")
        /\ answer[Id(t)] = "reply" => request[Req(t)].response = Id(t)
    BY <2>1 DEF AInv, OutcomeIsAnswer
  <2>3. CASE answer[Id(t)] = "reply"
    <3>1. result' = [result EXCEPT ![t] = [status |-> "value", id |-> Id(t), value |-> Id(t)]]
      BY <1>5, <2>2, <2>3 DEF ReturnAnswer, Return
    <3> QED BY <1>1, <1>2, <1>3, <2>3, <3>1 DEF Contract!ReturnValue, Contract!End, Pending
  <2>4. CASE answer[Id(t)] = "exception"
    <3>1. result' = [result EXCEPT ![t] = [status |-> "exception", id |-> Id(t), value |-> 0]]
      BY <1>5, <2>2, <2>4 DEF ReturnAnswer, Return
    <3> QED BY <1>1, <1>2, <1>3, <2>4, <3>1 DEF Contract!ReturnException, Contract!End, Pending
  <2> QED BY <2>2, <2>3, <2>4
<1> QED BY <1>4, <1>5

\* A message gets an id that no call had.
LEMMA IssueStep ==
  ASSUME IInv, NEW t \in Callers, Compose(t)
  PROVE  Contract!Issue(t)
<1>1. /\ pc[t] = "lookup" /\ pc'[t] = "register" /\ UNCHANGED <<answer, result>>
      /\ nextId \in Ids /\ nextId' = nextId + 1
  BY DEF Compose, Goto, wireVars, IInv, TypeOK, CallerTypes
<1>2. PICK r \in Requests \ live, exc \in BOOLEAN :
         request' = [request EXCEPT ![r] = NewRequest(nextId, t, exc)]
         /\ call' = [call EXCEPT ![t].req = r]
  BY DEF Compose, InitialException
<1>3. Id(t)' = nextId
  <2>1. call'[t].req = r
    BY <1>2 DEF IInv, TypeOK, CallerTypes, CallType
  <2>2. request'[r] = NewRequest(nextId, t, exc)
    BY <1>2 DEF IInv, TypeOK, RequestTypes
  <2> QED BY <2>1, <2>2 DEF Id, Req, NewRequest
<1>4. InCall(t)' /\ ~ InCall(t)
  BY <1>1 DEF InCall, Steps
<1>5. Pending' = [Pending EXCEPT ![t] = nextId] /\ Pending[t] = 0
  BY <1>3, <1>4, PendingOfOne DEF CallStep, Pending
<1>6. nextId \in (1..MaxId) \ Issued /\ Issued' = Issued \cup {nextId}
  BY <1>1, ConstantsAssumption DEF Issued, Ids
<1> QED BY <1>1, <1>5, <1>6 DEF Contract!Issue, Pending, Issued

\* A caller's other steps are invisible.
LEMMA HiddenStep ==
  ASSUME IInv, NEW t \in Callers,
         \/ BeginCall(t) \/ BeginSync(t) \/ Register(t) \/ Insert(t) \/ Send(t)
         \/ TryWait(t) \/ TimeOut(t) \/ WakeUp(t) \/ Remove(t) \/ Erase(t)
  PROVE  UNCHANGED Contract!vars
<1>0. /\ pc \in [Callers -> Steps] /\ call \in [Callers -> CallType]
      /\ request \in [Requests -> RequestType] /\ live \subseteq Requests
  BY DEF IInv, TypeOK, CallerTypes, RequestTypes
<1>1. UNCHANGED <<nextId, answer, result>>
  BY DEF BeginCall, BeginSync, Register, Insert, Send, TryWait, TimeOut, WakeUp, Remove, Erase,
         tableVars, wireVars
<1>2. (InCall(t)' <=> InCall(t)) /\ (InCall(t) => Id(t)' = Id(t))
  <2>1. CASE BeginCall(t) \/ BeginSync(t)
    <3>1. pc[t] = "idle" /\ pc'[t] = "lookup"
      BY <1>0, <2>1 DEF BeginCall, BeginSync, Goto
    <3> QED BY <3>1 DEF InCall
  <2>2. CASE Register(t) \/ Insert(t) \/ Send(t) \/ WakeUp(t) \/ Remove(t) \/ Erase(t)
    <3>1. UNCHANGED <<call, request>> /\ pc[t] \in Steps \ {"idle", "lookup"}
          /\ pc'[t] \in Steps \ {"idle", "lookup"}
      BY <1>0, <2>2 DEF Register, Insert, Send, WakeUp, Remove, Erase, Goto, requestVars, Steps
    <3> QED BY <3>1 DEF InCall, Id, Req
  <2>3. CASE TryWait(t) \/ TimeOut(t)
    <3>1. pc[t] \in {"tryWait", "waiting"} /\ pc'[t] = "waiting" /\ InCall(t) /\ InCall(t)'
      BY <1>0, <2>3 DEF TryWait, TimeOut, Goto, InCall, Steps
    <3>2. Req(t) \in Requests /\ request[Req(t)] \in RequestType
      BY <1>0, <3>1 DEF IInv, OwnRequest
    <3>3. /\ call'[t].req = call[t].req
          /\ request'[Req(t)].messageId = request[Req(t)].messageId
      BY <1>0, <2>3, <3>2 DEF TryWait, TimeOut, CallType, RequestType
    <3> QED BY <3>1, <3>3 DEF Id, Req
  <2> QED BY <2>1, <2>2, <2>3
<1>3. BeginCall(t) \/ BeginSync(t) \/ CallStep(t)
  BY DEF CallStep
<1>4. \A u \in Callers \ {t} : (InCall(u)' <=> InCall(u)) /\ (InCall(u) => Id(u)' = Id(u))
  BY <1>3, OtherCalls
<1> QED BY <1>1, <1>2, <1>4, ContractStutter

\* The listeners and the sessions leave the open calls alone.
LEMMA OutsideStep ==
  ASSUME IInv, NEW c \in Conns, ListenerStep(c) \/ SessionStep(c)
  PROVE  /\ UNCHANGED <<callerVars, tableVars, live, sent>>
         /\ \A t \in Callers : (InCall(t)' <=> InCall(t)) /\ (InCall(t) => Id(t)' = Id(t))
<1>0. request \in [Requests -> RequestType] /\ live \subseteq Requests
  BY DEF IInv, TypeOK, RequestTypes
<1>1. /\ UNCHANGED <<callerVars, tableVars, live, sent>>
      /\ \A r \in live : request'[r].messageId = request[r].messageId
  <2>1. CASE ListenerLock(c)
    BY <1>0, <2>1 DEF ListenerLock, RequestType, wireVars
  <2>2. CASE ListenerDeliver(c)
    BY <1>0, <2>2 DEF ListenerDeliver, Answered, RequestType, wireVars
  <2> QED BY <2>1, <2>2 DEF ListenerStep, SessionStep, ListenerDiscard, ListenerDispatch,
             ListenerAccept, ListenerNotFound, ListenerFind, SessionCallback, SessionAnswer,
             SessionSkip, requestVars, wireVars
<1> QED BY <1>1, CallersFrame

\* The session answers a message that was issued and not answered.
LEMMA AnswerStep ==
  ASSUME IInv, AInv, NEW c \in Conns, SessionAnswer(c)
  PROVE  \E i \in 1..MaxId, kind \in {"reply", "exception", "corrupt"} : Contract!Answer(i, kind)
<1>1. PICK kind \in {"reply", "exception", "corrupt"} :
         answer' = [answer EXCEPT ![Head(toServer[c])] = kind]
  BY DEF SessionAnswer
<1>2. PICK i \in Ids : i = Head(toServer[c]) /\ i \in sent /\ answer[i] = "none"
  <2>1. toServer[c] \in Seq(Ids) /\ toServer[c] # <<>>
    BY DEF SessionAnswer, IInv, TypeOK, WireTypes
  <2>2. Head(toServer[c]) = toServer[c][1] /\ 1 \in 1..Len(toServer[c]) /\ Head(toServer[c]) \in Ids
    BY <2>1, TailPlaces
  <2> QED BY <2>2 DEF IInv, SentIds, AInv, AnsweredOnce
<1>3. i \in Issued
  BY <1>2 DEF Issued, Ids, IInv, SentIds, TypeOK, TableTypes
<1>4. UNCHANGED <<nextId, result>> /\ Pending' = Pending
  BY OutsideStep DEF SessionStep, Pending, tableVars, callerVars
<1>5. Contract!Answer(i, kind)
  BY <1>1, <1>2, <1>3, <1>4 DEF Contract!Answer, Pending, Issued
<1> QED BY <1>5 DEF Ids

\* callMethod and sync implement the contract of a remote call: an id of its own
\* for every call, at most one answer to it, and an outcome that is the answer to
\* that very id, a time-out or an error.  callMethodId is excluded: it leaves the
\* exception flag of its request uninitialised and may report an exception that
\* nobody raised.
THEOREM ContractRefinement == ASSUME "callMethodId" \notin Apis PROVE Spec => ContractSpec
<1>1. Init => Contract!Init
  <2> SUFFICES ASSUME Init PROVE Contract!Init
    OBVIOUS
  <2>1. \A t \in Callers : ~ InCall(t)
    BY DEF Init, InCall
  <2>2. Pending = [t \in Callers |-> 0]
    BY <2>1 DEF Pending
  <2>3. Issued = {}
    BY DEF Init, Issued
  <2> QED BY <2>2, <2>3 DEF Init, Contract!Init, Pending, Issued, Ids
<1>2. IInv /\ AInv /\ [Next]_vars => [Contract!Next]_(Contract!vars)
  <2> SUFFICES ASSUME IInv, AInv, [Next]_vars
               PROVE  Contract!Next \/ UNCHANGED Contract!vars
    OBVIOUS
  <2>1. ASSUME NEW t \in Callers, BeginCall(t) \/ BeginSync(t) \/ CallStep(t)
        PROVE  Contract!Next \/ UNCHANGED Contract!vars
    BY <2>1, RefuseStep, ReturnStep, IssueStep, HiddenStep DEF CallStep, Contract!Next
  <2>2. ASSUME NEW c \in Conns, SessionAnswer(c)
        PROVE  Contract!Next
    BY <2>2, AnswerStep DEF Contract!Next
  <2>3. ASSUME NEW c \in Conns, ListenerStep(c) \/ SessionStep(c), ~ SessionAnswer(c)
        PROVE  UNCHANGED Contract!vars
    <3>1. UNCHANGED <<nextId, answer, result>>
      BY <2>3, OutsideStep DEF ListenerStep, SessionStep, ListenerDiscard, ListenerDispatch,
         ListenerAccept, ListenerNotFound, ListenerFind, ListenerLock, ListenerDeliver,
         SessionCallback, SessionSkip, wireVars, tableVars, callerVars
    <3> QED BY <2>3, <3>1, OutsideStep, ContractStutter
  <2>4. CASE UNCHANGED vars
    <3>1. UNCHANGED <<nextId, answer, result, pc, call, request>>
      BY <2>4 DEF vars, callerVars, requestVars, tableVars, wireVars
    <3> QED BY <3>1, ContractStutter DEF InCall, Id, Req
  <2> QED BY <2>1, <2>2, <2>3, <2>4 DEF Next
<1> QED BY <1>1, <1>2, AnswersInductive, PTL DEF Spec, ContractSpec, Contract!Spec
=============================================================================
