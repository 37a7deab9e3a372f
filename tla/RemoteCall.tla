------------------------------ MODULE RemoteCall ------------------------------
(***************************************************************************)
(* A remote call on the client side of NymphRPC: the threads that call      *)
(* NymphRemoteServer::callMethod, callMethodId or (inside connect) sync,    *)
(* the one listener thread per connection that hands answers to them, and   *)
(* the two byte streams to and from the remote session.                     *)
(*                                                                          *)
(* The unit of atomicity is one critical section or one blocking point: a   *)
(* step acquires at most one mutex that another thread may hold.  An unlock *)
(* is folded into the step before it.  Connections stay open here.          *)
(***************************************************************************)
EXTENDS Naturals, Sequences, FiniteSets

CONSTANTS
    Callers,      \* application threads
    Conns,        \* connections: one NymphServerInstance, socket and listener thread each
    Requests,     \* heap cells a NymphRequest may be allocated in; reused after delete
    None,         \* "no thread", "no request", "no connection"
    Apis,         \* the entry points the threads use
    MaxId,        \* bound on the message ids handed out
    SendMayFail,  \* whether sendBytes may fail
    CallbackIds   \* the messages whose remote handler first sends a callback

Ids == 1..MaxId

ASSUME ConstantsAssumption ==
    /\ MaxId \in Nat
    /\ Apis \subseteq {"sync", "callMethod", "callMethodId"}
    /\ SendMayFail \in BOOLEAN
    /\ CallbackIds \subseteq Ids
    /\ Callers \cap Conns = {}
    /\ None \notin Callers \cup Conns \cup Requests \cup Apis

VARIABLES
    \* application threads
    pc,             \* where each thread is in the call path
    call,           \* its locals: entry point, connection, request, outcome of tryWait
    result,         \* what its latest call returned
    phase,          \* per connection: has connect() synchronised the methods?
    \* NymphRequest objects
    live,           \* allocated and not deleted (a leaked request stays)
    request,        \* their fields
    \* mutexes: the owner, or None
    instancesMutex, methodsMutex, listenersMutex, messagesMutex,
    \* shared tables
    listeners,      \* NymphListener::listeners: the connections that are registered
    messages,       \* per listener: message id -> waiting request
    nextId,         \* NymphUtilities::getMessageId's counter
    \* listener threads
    lstep, lframe, lreq,
    \* the wires and the remote session
    toServer, toClient,
    sent,           \* the messages that went out
    answer,         \* what the session has put on the wire in answer to a message
    calledBack,     \* the messages whose handler has sent its callback
    dispatched      \* the messages whose callback the listener has given to the Dispatcher

callerVars   == <<pc, call, result, phase>>
requestVars  == <<live, request>>
lockVars     == <<instancesMutex, methodsMutex, listenersMutex, messagesMutex>>
tableVars    == <<listeners, messages, nextId>>
listenerVars == <<lstep, lframe, lreq>>
wireVars     == <<toServer, toClient, sent, answer, calledBack, dispatched>>
vars == <<callerVars, requestVars, lockVars, tableVars, listenerVars, wireVars>>

NewCall(a, c) == [api |-> a, conn |-> c, req |-> None, timedOut |-> FALSE]
NoCall  == NewCall(None, None)
NoFrame == [kind |-> "none", to |-> 0]

\* Mutant of NewRequest: callMethod does not lock the new request's mutex.
UnlockedRequest(id, owner, exc) ==
    [messageId |-> id, response |-> 0, exception |-> exc, mutex |-> None, waiter |-> None]

NewRequest(id, owner, exc) ==
    [messageId |-> id, response |-> 0, exception |-> exc, mutex |-> owner, waiter |-> None]

\* Mutant of InitialException: no entry point initialises the field.
UninitialisedException(t) == BOOLEAN

\* `exception` in t's new NymphRequest: callMethodId does not initialise it.
InitialException(t) == IF call[t].api = "callMethodId" THEN BOOLEAN ELSE {FALSE}

-----------------------------------------------------------------------------
(* Initial state: connections have been opened and their listener threads   *)
(* run; connect() has still to call sync.  A connection whose listener did  *)
(* not report ready within a second is in use although it is not in the     *)
(* table of listeners (connect ignores addConnection's result).             *)

Init ==
    /\ pc = [t \in Callers |-> "idle"]
    /\ call = [t \in Callers |-> NoCall]
    /\ result = [t \in Callers |-> [status |-> "none", id |-> 0, value |-> 0]]
    /\ phase = [c \in Conns |-> "new"]
    /\ live = {}
    /\ request = [r \in Requests |-> NewRequest(0, None, FALSE)]
    /\ instancesMutex = None
    /\ methodsMutex = [c \in Conns |-> None]
    /\ listenersMutex = None
    /\ messagesMutex = [c \in Conns |-> None]
    /\ listeners \in SUBSET Conns
    /\ messages = [c \in Conns |-> [i \in Ids |-> None]]
    /\ nextId = 1
    /\ lstep = [c \in Conns |-> "poll"]
    /\ lframe = [c \in Conns |-> NoFrame]
    /\ lreq = [c \in Conns |-> None]
    /\ toServer = [c \in Conns |-> <<>>]
    /\ toClient = [c \in Conns |-> <<>>]
    /\ sent = {}
    /\ answer = [i \in Ids |-> "none"]
    /\ calledBack = {}
    /\ dispatched = {}

-----------------------------------------------------------------------------
(* The caller's thread. *)

Conn(t) == call[t].conn
Req(t)  == call[t].req
Id(t)   == request[Req(t)].messageId

Goto(t, step) == pc' = [pc EXCEPT ![t] = step]

\* Leaving NymphRemoteServer's entry point with an outcome: instancesMutex is
\* released by the entry points that took it; sync ends connect's part.
Return(t, status, id, value) ==
    /\ Goto(t, "idle")
    /\ call' = [call EXCEPT ![t] = NoCall]
    /\ result' = [result EXCEPT ![t] = [status |-> status, id |-> id, value |-> value]]
    /\ instancesMutex' = IF call[t].api = "sync" THEN instancesMutex ELSE None
    /\ IF call[t].api # "sync"
       THEN UNCHANGED phase
       ELSE \E ph \in (IF status = "value" THEN {"ready", "failed"} ELSE {"failed"}) :
               phase' = [phase EXCEPT ![Conn(t)] = ph]

\* The bound of the model: a call begins only if an id and a cell are left for it.
Bounded ==
    LET starting == Cardinality({t \in Callers : pc[t] = "lookup"})
    IN  /\ nextId + starting <= MaxId
        /\ Cardinality(live) + starting < Cardinality(Requests)

\* callMethod and callMethodId hold instancesMutex for the whole call.
BeginCall(t) ==
    /\ Bounded
    /\ pc[t] = "idle"
    /\ instancesMutex = None
    /\ instancesMutex' = t
    /\ \E c \in Conns, a \in Apis \ {"sync"} :
          /\ phase[c] = "ready"
          /\ call' = [call EXCEPT ![t] = NewCall(a, c)]
    /\ Goto(t, "lookup")
    /\ UNCHANGED <<result, phase, requestVars, methodsMutex, listenersMutex,
                   messagesMutex, tableVars, listenerVars, wireVars>>

\* connect calls sync without instancesMutex.
BeginSync(t) ==
    /\ Bounded
    /\ pc[t] = "idle"
    /\ "sync" \in Apis
    /\ \E c \in Conns :
          /\ phase[c] = "new"
          /\ phase' = [phase EXCEPT ![c] = "syncing"]
          /\ call' = [call EXCEPT ![t] = NewCall("sync", c)]
    /\ Goto(t, "lookup")
    /\ UNCHANGED <<result, requestVars, lockVars, tableVars, listenerVars, wireVars>>

\* The method is not in the synchronised table: nothing was allocated.
MethodNotFound(t) ==
    /\ pc[t] = "lookup"
    /\ call[t].api # "sync"
    /\ methodsMutex[Conn(t)] = None
    /\ Return(t, "error", 0, 0)
    /\ UNCHANGED <<requestVars, methodsMutex, listenersMutex, messagesMutex,
                   tableVars, listenerVars, wireVars>>

\* Number or types of the arguments do not match: the request, whose mutex is
\* locked, is never deleted.
ArgumentMismatch(t) ==
    /\ pc[t] = "lookup"
    /\ call[t].api # "sync"
    /\ methodsMutex[Conn(t)] = None
    /\ \E r \in Requests \ live, exc \in InitialException(t) :
          /\ live' = live \cup {r}
          /\ request' = [request EXCEPT ![r] = NewRequest(0, t, exc)]
    /\ Return(t, "error", 0, 0)
    /\ UNCHANGED <<methodsMutex, listenersMutex, messagesMutex,
                   tableVars, listenerVars, wireVars>>

\* Allocate the request, compose the message and give it its id.
Compose(t) ==
    /\ pc[t] = "lookup"
    /\ methodsMutex[Conn(t)] = None
    /\ nextId \in Ids
    /\ methodsMutex' = [methodsMutex EXCEPT ![Conn(t)] = t]
    /\ nextId' = nextId + 1
    /\ \E r \in Requests \ live, exc \in InitialException(t) :
          /\ live' = live \cup {r}
          /\ request' = [request EXCEPT ![r] = NewRequest(nextId, t, exc)]
          /\ call' = [call EXCEPT ![t].req = r]
    /\ Goto(t, "register")
    /\ UNCHANGED <<result, phase, instancesMutex, listenersMutex, messagesMutex,
                   listeners, messages, listenerVars, wireVars>>

\* NymphListener::addMessage: without a listener the message is sent anyway.
Register(t) ==
    /\ pc[t] = "register"
    /\ listenersMutex = None
    /\ IF Conn(t) \in listeners
       THEN listenersMutex' = t /\ Goto(t, "insert")
       ELSE UNCHANGED listenersMutex /\ Goto(t, "send")
    /\ UNCHANGED <<call, result, phase, requestVars, instancesMutex, methodsMutex,
                   messagesMutex, tableVars, listenerVars, wireVars>>

\* NymphSocketListener::addMessage, still under listenersMutex; map::insert
\* keeps an existing entry.
Insert(t) ==
    /\ pc[t] = "insert"
    /\ messagesMutex[Conn(t)] = None
    /\ messages' = IF messages[Conn(t)][Id(t)] = None
                   THEN [messages EXCEPT ![Conn(t)][Id(t)] = Req(t)]
                   ELSE messages
    /\ listenersMutex' = None
    /\ Goto(t, "send")
    /\ UNCHANGED <<call, result, phase, requestVars, instancesMutex, methodsMutex,
                   messagesMutex, listeners, nextId, listenerVars, wireVars>>

Send(t) ==
    /\ pc[t] = "send"
    /\ toServer' = [toServer EXCEPT ![Conn(t)] = Append(@, Id(t))]
    /\ sent' = sent \cup {Id(t)}
    /\ methodsMutex' = [methodsMutex EXCEPT ![Conn(t)] = None]
    /\ Goto(t, "tryWait")
    /\ UNCHANGED <<call, result, phase, requestVars, instancesMutex, listenersMutex,
                   messagesMutex, tableVars, listenerVars,
                   toClient, answer, calledBack, dispatched>>

\* sendBytes failed: the call returns at once; the request stays allocated,
\* locked and registered.
SendFails(t) ==
    /\ SendMayFail
    /\ pc[t] = "send"
    /\ methodsMutex' = [methodsMutex EXCEPT ![Conn(t)] = None]
    /\ Return(t, "error", 0, 0)
    /\ UNCHANGED <<requestVars, listenersMutex, messagesMutex,
                   tableVars, listenerVars, wireVars>>

\* Mutant of TryWait: the caller sleeps with the request's mutex locked.
WaitLocked(t) ==
    /\ pc[t] = "tryWait"
    /\ request' = [request EXCEPT ![Req(t)].waiter = t]
    /\ Goto(t, "waiting")
    /\ UNCHANGED <<call, result, phase, live, lockVars, tableVars, listenerVars, wireVars>>

\* Condition::tryWait releases the request's mutex and queues the caller.
TryWait(t) ==
    /\ pc[t] = "tryWait"
    /\ request' = [request EXCEPT ![Req(t)].mutex = None, ![Req(t)].waiter = t]
    /\ Goto(t, "waiting")
    /\ UNCHANGED <<call, result, phase, live, lockVars, tableVars, listenerVars, wireVars>>

\* The time is up before a signal came.
TimeOut(t) ==
    /\ pc[t] = "waiting"
    /\ request[Req(t)].waiter = t
    /\ request' = [request EXCEPT ![Req(t)].waiter = None]
    /\ call' = [call EXCEPT ![t].timedOut = TRUE]
    /\ UNCHANGED <<pc, result, phase, live, lockVars, tableVars, listenerVars, wireVars>>

\* Signalled or timed out: tryWait takes the request's mutex again before it
\* returns, and the caller releases it at once.
WakeUp(t) ==
    /\ pc[t] = "waiting"
    /\ request[Req(t)].waiter = None
    /\ request[Req(t)].mutex = None
    /\ Goto(t, "remove")
    /\ UNCHANGED <<call, result, phase, requestVars, lockVars, tableVars,
                   listenerVars, wireVars>>

\* NymphListener::removeMessage
Remove(t) ==
    /\ pc[t] = "remove"
    /\ listenersMutex = None
    /\ IF Conn(t) \in listeners
       THEN listenersMutex' = t /\ Goto(t, "erase")
       ELSE UNCHANGED listenersMutex /\ Goto(t, "finish")
    /\ UNCHANGED <<call, result, phase, requestVars, instancesMutex, methodsMutex,
                   messagesMutex, tableVars, listenerVars, wireVars>>

\* Mutant of Erase: removeMessage leaves the entry in the table.
KeepEntry(t) ==
    /\ pc[t] = "erase"
    /\ messagesMutex[Conn(t)] = None
    /\ listenersMutex' = None
    /\ Goto(t, "finish")
    /\ UNCHANGED <<call, result, phase, requestVars, instancesMutex, methodsMutex,
                   messagesMutex, tableVars, listenerVars, wireVars>>

\* NymphSocketListener::removeMessage, still under listenersMutex.
Erase(t) ==
    /\ pc[t] = "erase"
    /\ messagesMutex[Conn(t)] = None
    /\ messages' = [messages EXCEPT ![Conn(t)][Id(t)] = None]
    /\ listenersMutex' = None
    /\ Goto(t, "finish")
    /\ UNCHANGED <<call, result, phase, requestVars, instancesMutex, methodsMutex,
                   messagesMutex, listeners, nextId, listenerVars, wireVars>>

\* A timed-out call returns without deleting its request.
ReturnTimeout(t) ==
    /\ pc[t] = "finish"
    /\ call[t].timedOut
    /\ Return(t, "timeout", Id(t), 0)
    /\ UNCHANGED <<requestVars, methodsMutex, listenersMutex, messagesMutex,
                   tableVars, listenerVars, wireVars>>

ReturnAnswer(t) ==
    /\ pc[t] = "finish"
    /\ ~ call[t].timedOut
    /\ IF request[Req(t)].exception
       THEN Return(t, "exception", Id(t), 0)
       ELSE Return(t, "value", Id(t), request[Req(t)].response)
    /\ live' = live \ {Req(t)}
    /\ UNCHANGED <<request, methodsMutex, listenersMutex, messagesMutex,
                   tableVars, listenerVars, wireVars>>

-----------------------------------------------------------------------------
(* The listener thread of connection c. *)

LGoto(c, step) == lstep' = [lstep EXCEPT ![c] = step]

Received(c) ==
    /\ lstep[c] = "poll"
    /\ toClient[c] # <<>>
    /\ toClient' = [toClient EXCEPT ![c] = Tail(@)]

\* A message that does not parse is dropped.
ListenerDiscard(c) ==
    /\ Received(c)
    /\ Head(toClient[c]).kind = "corrupt"
    /\ UNCHANGED <<callerVars, requestVars, lockVars, tableVars, listenerVars,
                   toServer, sent, answer, calledBack, dispatched>>

\* A callback goes to the Dispatcher; the listener does not wait for it.
ListenerDispatch(c) ==
    /\ Received(c)
    /\ Head(toClient[c]).kind = "callback"
    /\ dispatched' = dispatched \cup {Head(toClient[c]).to}
    /\ UNCHANGED <<callerVars, requestVars, lockVars, tableVars, listenerVars,
                   toServer, sent, answer, calledBack>>

ListenerAccept(c) ==
    /\ Received(c)
    /\ Head(toClient[c]).kind \in {"reply", "exception"}
    /\ lframe' = [lframe EXCEPT ![c] = Head(toClient[c])]
    /\ LGoto(c, "find")
    /\ UNCHANGED <<callerVars, requestVars, lockVars, tableVars, lreq,
                   toServer, sent, answer, calledBack, dispatched>>

\* No call waits for this message (any more): it is dropped.
ListenerNotFound(c) ==
    /\ lstep[c] = "find"
    /\ messagesMutex[c] = None
    /\ messages[c][lframe[c].to] = None
    /\ lframe' = [lframe EXCEPT ![c] = NoFrame]
    /\ LGoto(c, "poll")
    /\ UNCHANGED <<callerVars, requestVars, lockVars, tableVars, lreq, wireVars>>

\* Mutant of ListenerFind: messagesMutex is released as soon as the request is found.
FindAndRelease(c) ==
    /\ lstep[c] = "find"
    /\ messagesMutex[c] = None
    /\ messages[c][lframe[c].to] # None
    /\ lreq' = [lreq EXCEPT ![c] = messages[c][lframe[c].to]]
    /\ LGoto(c, "lock")
    /\ UNCHANGED <<callerVars, requestVars, lockVars, tableVars, lframe, wireVars>>

\* The request of the message is found; messagesMutex stays locked.
ListenerFind(c) ==
    /\ lstep[c] = "find"
    /\ messagesMutex[c] = None
    /\ messages[c][lframe[c].to] # None
    /\ messagesMutex' = [messagesMutex EXCEPT ![c] = c]
    /\ lreq' = [lreq EXCEPT ![c] = messages[c][lframe[c].to]]
    /\ LGoto(c, "lock")
    /\ UNCHANGED <<callerVars, requestVars, instancesMutex, methodsMutex,
                   listenersMutex, tableVars, lframe, wireVars>>

\* The request's mutex is taken while messagesMutex is held.
ListenerLock(c) ==
    /\ lstep[c] = "lock"
    /\ request[lreq[c]].mutex = None
    /\ request' = [request EXCEPT ![lreq[c]].mutex = c]
    /\ LGoto(c, "deliver")
    /\ UNCHANGED <<callerVars, live, lockVars, tableVars, lframe, lreq, wireVars>>

\* Mutant of Answered: the listener does not unlock the request's mutex.
AnsweredLocked(r, f) ==
    [r EXCEPT !.response  = IF f.kind = "reply" THEN f.to ELSE 0,
              !.exception = (f.kind = "exception") \/ @,
              !.waiter    = None]

\* What Deliver leaves in the request: the answer, no waiter, an open mutex.
Answered(r, f) ==
    [r EXCEPT !.response  = IF f.kind = "reply" THEN f.to ELSE 0,
              !.exception = (f.kind = "exception") \/ @,
              !.mutex     = None,
              !.waiter    = None]

ListenerDeliver(c) ==
    /\ lstep[c] = "deliver"
    /\ request' = [request EXCEPT ![lreq[c]] = Answered(@, lframe[c])]
    /\ messagesMutex' = [messagesMutex EXCEPT ![c] = None]
    /\ lframe' = [lframe EXCEPT ![c] = NoFrame]
    /\ lreq' = [lreq EXCEPT ![c] = None]
    /\ LGoto(c, "poll")
    /\ UNCHANGED <<callerVars, live, instancesMutex, methodsMutex, listenersMutex,
                   tableVars, wireVars>>

-----------------------------------------------------------------------------
(* The remote session of connection c: one thread that takes a message,     *)
(* runs its handler and writes the answer.  The message being handled is    *)
(* the head of toServer[c].                                                 *)

\* Mutant of Put: the frame overtakes those that are on their way.
PutFirst(c, f) == toClient' = [toClient EXCEPT ![c] = <<f>> \o @]

Put(c, f) == toClient' = [toClient EXCEPT ![c] = Append(@, f)]

SessionCallback(c) ==
    /\ toServer[c] # <<>>
    /\ Head(toServer[c]) \in CallbackIds \ calledBack
    /\ phase[c] = "ready"     \* not while the session handles sync
    /\ Put(c, [kind |-> "callback", to |-> Head(toServer[c])])
    /\ calledBack' = calledBack \cup {Head(toServer[c])}
    /\ UNCHANGED <<callerVars, requestVars, lockVars, tableVars, listenerVars,
                   toServer, sent, answer, dispatched>>

\* sync's handler always answers with a value.
SessionAnswer(c) ==
    /\ toServer[c] # <<>>
    /\ \E kind \in {"reply", "exception", "corrupt"} :
          /\ kind = "exception" => phase[c] = "ready"
          /\ Put(c, [kind |-> kind, to |-> Head(toServer[c])])
          /\ answer' = [answer EXCEPT ![Head(toServer[c])] = kind]
    /\ toServer' = [toServer EXCEPT ![c] = Tail(@)]
    /\ UNCHANGED <<callerVars, requestVars, lockVars, tableVars, listenerVars,
                   sent, calledBack, dispatched>>

\* The handler failed or the answer could not be sent: no answer.
SessionSkip(c) ==
    /\ toServer[c] # <<>>
    /\ toServer' = [toServer EXCEPT ![c] = Tail(@)]
    /\ UNCHANGED <<callerVars, requestVars, lockVars, tableVars, listenerVars,
                   toClient, sent, answer, calledBack, dispatched>>

-----------------------------------------------------------------------------
\* A call in progress goes on.
CallStep(t) ==
    \/ MethodNotFound(t) \/ ArgumentMismatch(t) \/ Compose(t)
    \/ Register(t) \/ Insert(t) \/ Send(t) \/ SendFails(t)
    \/ TryWait(t) \/ TimeOut(t) \/ WakeUp(t)
    \/ Remove(t) \/ Erase(t) \/ ReturnTimeout(t) \/ ReturnAnswer(t)

ListenerStep(c) ==
    \/ ListenerDiscard(c) \/ ListenerDispatch(c) \/ ListenerAccept(c)
    \/ ListenerNotFound(c) \/ ListenerFind(c) \/ ListenerLock(c) \/ ListenerDeliver(c)

SessionStep(c) == SessionCallback(c) \/ SessionAnswer(c) \/ SessionSkip(c)

Next ==
    \/ \E t \in Callers : BeginCall(t) \/ BeginSync(t) \/ CallStep(t)
    \/ \E c \in Conns : ListenerStep(c) \/ SessionStep(c)

\* Threads that can run are scheduled, and a wait does time out.  Nothing is
\* asked of the remote side, and nobody has to start a call.
Fairness ==
    /\ \A t \in Callers : WF_vars(CallStep(t))
    /\ \A c \in Conns : WF_vars(ListenerStep(c))

Spec == Init /\ [][Next]_vars /\ Fairness

-----------------------------------------------------------------------------
(* Properties *)

Steps == {"idle", "lookup", "register", "insert", "send", "tryWait", "waiting",
          "remove", "erase", "finish"}

RequestType ==
    [messageId : 0..MaxId, response : 0..MaxId, exception : BOOLEAN,
     mutex : Callers \cup Conns \cup {None}, waiter : Callers \cup {None}]

CallType ==
    [api : Apis \cup {None}, conn : Conns \cup {None},
     req : Requests \cup {None}, timedOut : BOOLEAN]

CallerTypes ==
    /\ pc \in [Callers -> Steps]
    /\ call \in [Callers -> CallType]
    /\ result \in [Callers -> [status : {"none", "value", "exception", "timeout", "error"},
                               id : 0..MaxId, value : 0..MaxId]]
    /\ phase \in [Conns -> {"new", "syncing", "ready", "failed"}]

RequestTypes ==
    /\ live \subseteq Requests
    /\ request \in [Requests -> RequestType]

LockTypes ==
    /\ instancesMutex \in Callers \cup {None}
    /\ methodsMutex \in [Conns -> Callers \cup {None}]
    /\ listenersMutex \in Callers \cup {None}
    /\ messagesMutex \in [Conns -> Conns \cup {None}]

TableTypes ==
    /\ listeners \subseteq Conns
    /\ messages \in [Conns -> [Ids -> Requests \cup {None}]]
    /\ nextId \in 1..(MaxId + 1)

ListenerTypes ==
    /\ lstep \in [Conns -> {"poll", "find", "lock", "deliver"}]
    /\ lframe \in [Conns -> [kind : {"none", "reply", "exception"}, to : 0..MaxId]]
    /\ lreq \in [Conns -> Requests \cup {None}]

WireTypes ==
    /\ toServer \in [Conns -> Seq(Ids)]
    /\ toClient \in [Conns -> Seq([kind : {"reply", "exception", "corrupt", "callback"},
                                   to : Ids])]
    /\ sent \subseteq Ids
    /\ answer \in [Ids -> {"none", "reply", "exception", "corrupt"}]
    /\ calledBack \subseteq Ids
    /\ dispatched \subseteq Ids

\* The variables of the call path, the request table, the listeners and the
\* wires have their types.
TypeOK == /\ CallerTypes /\ RequestTypes /\ LockTypes
          /\ TableTypes /\ ListenerTypes /\ WireTypes

\* Thread t has allocated the request of its call and still uses it.
InCall(t) == pc[t] \in Steps \ {"idle", "lookup"}

\* The remote side may have t's message.
IsSent(t) == pc[t] \in {"tryWait", "waiting", "remove", "erase", "finish"}

\* The listener keeps a pointer to the request between its find, the lock of
\* the request's mutex and the delivery.  All that time the request is the one
\* of a call of this connection that has been sent, awaits this very message and
\* has not passed removeMessage: never a deleted, leaked or recycled request.
DeliveryToOpenCall ==
    \A c \in Conns : lstep[c] \in {"lock", "deliver"} =>
        \E t \in Callers : /\ IsSent(t) /\ pc[t] # "finish"
                           /\ Conn(t) = c
                           /\ Req(t) = lreq[c] /\ lreq[c] \in live
                           /\ Id(t) = lframe[c].to

\* No entry of a listener's table outlives the request it points to.
NoDanglingEntry ==
    \A c \in Conns, i \in Ids : messages[c][i] # None => messages[c][i] \in live

\* A caller that is queued on its condition has no answer waiting for it: the
\* answer and its signal cannot fall between addMessage and tryWait.
NoLostWakeup ==
    \A t \in Callers : pc[t] = "waiting" /\ request[Req(t)].waiter = t =>
        /\ request[Req(t)].response = 0
        /\ call[t].api # "callMethodId" => ~ request[Req(t)].exception

\* When a call returns the remote side's answer, the callback its handler sent
\* before the answer is with the Dispatcher.
CallbackBeforeReturn ==
    \A t \in Callers : result[t].status \in {"value", "exception"}
                          /\ result[t].id \in calledBack
                       => result[t].id \in dispatched

\* Every entry of a listener's table is a message that a call is waiting for.
EntryIsAwaited ==
    \A c \in Conns, i \in Ids : messages[c][i] # None =>
        \E t \in Callers : /\ InCall(t) /\ Conn(t) = c
                           /\ Id(t) = i /\ Req(t) = messages[c][i]

\* A call that got hold of its connection returns, whatever the remote side does.
EveryCallReturns == \A t \in Callers : pc[t] # "idle" ~> pc[t] = "idle"

\* A listener that took an answer off the wire comes back for the next message:
\* it is not blocked for ever by the caller's use of the two mutexes.
ListenerComesBack == \A c \in Conns : lstep[c] # "poll" ~> lstep[c] = "poll"

-----------------------------------------------------------------------------
(* The inductive invariant behind the safety properties. *)

\* An open call owns a live request of its own with an id of its own.
OwnRequest ==
    /\ \A t \in Callers : pc[t] # "idle" => Conn(t) \in Conns
    /\ \A t \in Callers : InCall(t) =>
          Req(t) \in live /\ Id(t) \in Ids /\ Id(t) < nextId
    /\ \A t, u \in Callers : InCall(t) /\ InCall(u) /\ t # u =>
          Req(t) # Req(u) /\ Id(t) # Id(u)

\* What is on the wire or in the listener's hands was sent, and a call knows
\* whether its own message was.
SentIds ==
    /\ \A i \in sent : i < nextId
    /\ \A c \in Conns : \A k \in 1..Len(toServer[c]) : toServer[c][k] \in sent
    /\ \A c \in Conns : \A k \in 1..Len(toClient[c]) : toClient[c][k].to \in sent
    /\ \A c \in Conns : lstep[c] # "poll" => lframe[c].to \in sent
    /\ \A t \in Callers : InCall(t) /\ Id(t) \in sent => IsSent(t)

\* An entry's id was handed out, and entries are made only with registered
\* listeners.
EntryKnown ==
    /\ \A c \in Conns, i \in Ids : messages[c][i] # None => i < nextId /\ c \in listeners
    /\ \A t \in Callers : pc[t] = "insert" => Conn(t) \in listeners

\* An entry for a message that was sent is the entry of an open call.
EntryOfSent ==
    \A c \in Conns, i \in Ids : messages[c][i] # None /\ i \in sent =>
        \E t \in Callers : /\ IsSent(t) /\ pc[t] # "finish"
                           /\ Conn(t) = c /\ Id(t) = i /\ Req(t) = messages[c][i]

\* The request of a call is entered under its id, at its connection, and only
\* between addMessage and removeMessage.
EntryOfCall ==
    \A t \in Callers, c \in Conns, i \in Ids :
        InCall(t) /\ messages[c][i] = Req(t) =>
            /\ pc[t] \in {"send", "tryWait", "waiting", "remove", "erase"}
            /\ Conn(t) = c /\ Id(t) = i

\* An entry under the id of an open call is that call's own.
EntryById ==
    \A t \in Callers, c \in Conns :
        InCall(t) /\ messages[c][Id(t)] # None => Conn(t) = c /\ messages[c][Id(t)] = Req(t)

\* The listener holds messagesMutex, then also the request's mutex, while it
\* works on the entry it found.
ListenerHolds ==
    \A c \in Conns :
       /\ lstep[c] = "find" => lframe[c].to \in Ids
       /\ lstep[c] \in {"lock", "deliver"} =>
             /\ messagesMutex[c] = c
             /\ lframe[c].to \in Ids
             /\ lreq[c] # None /\ lreq[c] = messages[c][lframe[c].to]
       /\ lstep[c] = "deliver" => request[lreq[c]].mutex = c

\* The caller holds its request's mutex until tryWait has queued it, and until
\* it is signalled nothing has been delivered.
CallerHolds ==
    \A t \in Callers :
       /\ pc[t] \in {"register", "insert", "send", "tryWait"} => request[Req(t)].mutex = t
       /\ \/ pc[t] \in {"register", "insert", "send", "tryWait"}
          \/ pc[t] = "waiting" /\ request[Req(t)].waiter = t
          => /\ request[Req(t)].response = 0
             /\ call[t].api # "callMethodId" => ~ request[Req(t)].exception

IInv == /\ TypeOK /\ OwnRequest /\ SentIds /\ NoDanglingEntry
        /\ EntryKnown /\ EntryOfSent /\ EntryOfCall /\ EntryById
        /\ ListenerHolds /\ CallerHolds

\* What the call path promises its users.
Contract == INSTANCE RpcContract WITH
    issued  <- 1..(nextId - 1),
    pending <- [t \in Callers |-> IF InCall(t) THEN Id(t) ELSE 0]

\* The call path implements the contract.
ContractSpec == Contract!Spec

=============================================================================
