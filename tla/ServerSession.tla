---------------------------- MODULE ServerSession ----------------------------
(***************************************************************************)
(* The server: NymphServer accepts connections and each is served by a     *)
(* NymphSession on a thread of its own.  A session reads a request, runs   *)
(* the method's handler under methodsMutex and writes the answer.          *)
(* Handlers and other threads of the application send callbacks to any     *)
(* session (NymphRemoteClient::callCallback) under sessionsMutex and       *)
(* callbacksMutex.  A frame goes out in two halves: a large sendBytes is   *)
(* not atomic on a socket two threads write to.  A client that resets its  *)
(* connection ends the session by an exception, which run() does not catch.*)
(***************************************************************************)
EXTENDS Naturals, Sequences, FiniteSets, Functions

CONSTANTS
    MaxSessions,    \* bound: connections made, numbered in their order
    Threads,        \* threads of the application that send callbacks
    MaxRequests,    \* bound: requests of all clients together
    MaxCalls,       \* bound: callbacks a thread sends
    None

ASSUME BoundsAreNat == MaxSessions \in Nat /\ MaxRequests \in Nat /\ MaxCalls \in Nat
Sessions == 1 .. MaxSessions

ASSUME Distinct == Sessions \cap Threads = {} /\ None \notin Sessions \cup Threads

Actors == Sessions \cup Threads

VARIABLES
    server,         \* accepting: "started", then "running"; then "stopped"
    running,        \* NymphServer::running
    lastHandle,     \* NymphSession::lastSessionHandle
    sessions,       \* NymphRemoteClient::sessions, handle to session
    registered,     \* the callback is in NymphRemoteClient::callbacks
    methodsMutex, sessionsMutex, callbacksMutex,    \* their owners
    ses,            \* the session threads
    call,           \* the callCallback in progress of each actor
    wire,           \* halves of frames written to each connection
    asked,          \* requests each client has sent
    closed,         \* the client has closed the connection
    left            \* callbacks each thread may still send

locks == <<methodsMutex, sessionsMutex, callbacksMutex>>
vars == <<server, running, lastHandle, sessions, registered, locks, ses, call, wire,
          asked, closed, left>>

NotCalling == [at |-> "none", to |-> None]

Init ==
    /\ server = "started" /\ running = FALSE
    /\ lastHandle = 0 /\ sessions = <<>> /\ registered \in BOOLEAN
    /\ methodsMutex = None /\ sessionsMutex = None /\ callbacksMutex = None
    /\ ses = [s \in Sessions |-> [at |-> "new", handle |-> 0, taken |-> 0,
                                  early |-> FALSE, may |-> FALSE, reset |-> FALSE]]
    /\ call = [a \in Actors |-> NotCalling]
    /\ wire = [s \in Sessions |-> <<>>]
    /\ asked = [s \in Sessions |-> 0]
    /\ closed = [s \in Sessions |-> FALSE]
    /\ left = [t \in Threads |-> MaxCalls]

At(s, p) == ses[s].at = p
Goto(s, p) == ses' = [ses EXCEPT ![s].at = p]
Free(mutex, a) == mutex \in {None, a}

\* "part" 1 or 2 of a frame: the answer to a request, or a callback by some actor.
Half(kind, by, n, part) == [kind |-> kind, by |-> by, n |-> n, part |-> part]
Write(s, half) == wire' = [wire EXCEPT ![s] = Append(@, half)]

-----------------------------------------------------------------------------
\* NymphServer::start, from server->start() on, and stop.

\* Set only when connections are already accepted.
SetRunning ==
    /\ server = "started" /\ server' = "running" /\ running' = TRUE
    /\ UNCHANGED <<lastHandle, sessions, registered, locks, ses, call, wire,
                   asked, closed, left>>

\* No connection is accepted any more and "running" is cleared.
StopServer ==
    /\ server = "running" /\ server' = "stopped" /\ running' = FALSE
    /\ UNCHANGED <<lastHandle, sessions, registered, locks, ses, call, wire,
                   asked, closed, left>>

-----------------------------------------------------------------------------
\* The clients.

\* A client connects and sends its requests at once: a session that reads them later
\* stands for one whose requests come later.
Connect(s, n) ==
    /\ server \in {"started", "running"} /\ At(s, "new")
    /\ \A x \in 1 .. s - 1 : ~At(x, "new")
    /\ n + FoldFunction(+, 0, asked) <= MaxRequests
    /\ asked' = [asked EXCEPT ![s] = n]
    /\ Goto(s, "accepted")
    /\ UNCHANGED <<server, running, lastHandle, sessions, registered, locks, call, wire,
                   closed, left>>

\* Nobody reads what was written to it any more: the model forgets it.
Close(s) ==
    /\ ~At(s, "new") /\ ~closed[s]
    /\ closed' = [closed EXCEPT ![s] = TRUE]
    /\ wire' = [wire EXCEPT ![s] = <<>>]
    /\ UNCHANGED <<server, running, lastHandle, sessions, registered, locks, ses, call,
                   asked, left>>

\* The client resets the connection, also one it has closed: nothing can be sent to
\* it, and poll or receiveBytes may report it as an error ("reset").
Reset(s) ==
    /\ ~At(s, "new") /\ ~ses[s].reset
    /\ ses' = [ses EXCEPT ![s].reset = TRUE]
    /\ closed' = [closed EXCEPT ![s] = TRUE]
    /\ wire' = [wire EXCEPT ![s] = <<>>]
    /\ UNCHANGED <<server, running, lastHandle, sessions, registered, locks, call,
                   asked, left>>

-----------------------------------------------------------------------------
\* NymphSession::run.

\* Mutant of TakeHandle: the next handle is computed from the sessions that are there.
TakeHandleLate(s) ==
    /\ At(s, "accepted")
    /\ ses' = [ses EXCEPT ![s].at = "adding", ![s].handle = lastHandle]
    /\ lastHandle' = Cardinality({x \in Sessions : ses[x].at \notin {"new", "accepted", "adding"}})
    /\ UNCHANGED <<server, running, sessions, registered, locks, call, wire, asked,
                   closed, left>>

\* A handle of its own, taken under handleMutex.
TakeHandle(s) ==
    /\ At(s, "accepted")
    /\ ses' = [ses EXCEPT ![s].at = "adding", ![s].handle = lastHandle]
    /\ lastHandle' = lastHandle + 1
    /\ UNCHANGED <<server, running, sessions, registered, locks, call, wire, asked,
                   closed, left>>

\* addSession: an insert, which keeps an entry that is there.
AddSession(s) ==
    /\ At(s, "adding") /\ Free(sessionsMutex, s)
    /\ sessions' = [h \in DOMAIN sessions \cup {ses[s].handle} |->
                        IF h \in DOMAIN sessions THEN sessions[h] ELSE s]
    /\ Goto(s, "checking")
    /\ UNCHANGED <<server, running, lastHandle, registered, locks, call, wire, asked,
                   closed, left>>

\* while (NymphServer::running): "early" records a session that ends at its first
\* look, before the server says that it runs.
Check(s) ==
    /\ At(s, "checking")
    /\ ses' = [ses EXCEPT ![s].at = IF running THEN "polling" ELSE "leaving",
                          ![s].early = @ \/ server = "started"]
    /\ UNCHANGED <<server, running, lastHandle, sessions, registered, locks, call, wire,
                   asked, closed, left>>

\* Mutant of ReadMessage: a poll that timed out is taken for a message.
ReadUnpolled(s) ==
    /\ At(s, "polling")
    /\ ses' = [ses EXCEPT ![s].at = "calling", ![s].taken = @ + 1]
    /\ UNCHANGED <<server, running, lastHandle, sessions, registered, locks, call, wire,
                   asked, closed, left>>

\* A whole message is read and parsed.
ReadMessage(s) ==
    /\ At(s, "polling") /\ ses[s].taken < asked[s]
    /\ ses' = [ses EXCEPT ![s].at = "calling", ![s].taken = @ + 1]
    /\ UNCHANGED <<server, running, lastHandle, sessions, registered, locks, call, wire,
                   asked, closed, left>>

\* An invalid header or a corrupt message is skipped.
SkipMessage(s) ==
    /\ At(s, "polling") /\ ses[s].taken < asked[s]
    /\ ses' = [ses EXCEPT ![s].at = "checking", ![s].taken = @ + 1]
    /\ UNCHANGED <<server, running, lastHandle, sessions, registered, locks, call, wire,
                   asked, closed, left>>

\* Mutant of PollTimeOut: a poll that timed out ends the session.
PollTimeOutLeaves(s) ==
    /\ At(s, "polling") /\ ses[s].taken = asked[s] /\ ~closed[s]
    /\ Goto(s, "leaving")
    /\ UNCHANGED <<server, running, lastHandle, sessions, registered, locks, call, wire,
                   asked, closed, left>>

\* poll times out.
PollTimeOut(s) ==
    /\ At(s, "polling") /\ ses[s].taken = asked[s] /\ ~closed[s]
    /\ Goto(s, "checking")
    /\ UNCHANGED <<server, running, lastHandle, sessions, registered, locks, call, wire,
                   asked, closed, left>>

\* receiveBytes returns 0: nothing is left to read and the client has closed, or has
\* reset and a send has already taken the error.
SeeClosed(s) ==
    /\ At(s, "polling") /\ ses[s].taken = asked[s] /\ closed[s]
    /\ Goto(s, "leaving")
    /\ UNCHANGED <<server, running, lastHandle, sessions, registered, locks, call, wire,
                   asked, closed, left>>

\* poll or receiveBytes throws on a connection that was reset, also in the middle of a
\* message, and run() catches nothing.  The TCP server deletes the session, which
\* removeSession has not taken out of the table.
Throws(s) ==
    /\ At(s, "polling") /\ ses[s].reset
    /\ Goto(s, "thrown")
    /\ UNCHANGED <<server, running, lastHandle, sessions, registered, locks, call, wire,
                   asked, closed, left>>

\* callMethodCallback: an unknown id is given up at once; otherwise the handler runs
\* with methodsMutex locked ("may": it has not yet sent its callback).
UnknownMethod(s) ==
    /\ At(s, "calling") /\ Free(methodsMutex, s)
    /\ Goto(s, "checking")
    /\ UNCHANGED <<server, running, lastHandle, sessions, registered, locks, call, wire,
                   asked, closed, left>>

EnterHandler(s) ==
    /\ At(s, "calling") /\ Free(methodsMutex, s)
    /\ methodsMutex' = s
    /\ ses' = [ses EXCEPT ![s].at = "handling", ![s].may = TRUE]
    /\ UNCHANGED <<server, running, lastHandle, sessions, registered, sessionsMutex,
                   callbacksMutex, call, wire, asked, closed, left>>

\* Mutant of LeaveHandler: the handler does not wait for the callback it sends.
LeaveHandlerEarly(s, response) ==
    /\ At(s, "handling")
    /\ methodsMutex' = None
    /\ ses' = [ses EXCEPT ![s].at = IF response THEN "replying" ELSE "checking",
                          ![s].may = FALSE]
    /\ UNCHANGED <<server, running, lastHandle, sessions, registered, sessionsMutex,
                   callbacksMutex, call, wire, asked, closed, left>>

\* The handler returns a response, or none that callCallback lets through.
LeaveHandler(s, response) ==
    /\ At(s, "handling") /\ call[s] = NotCalling
    /\ methodsMutex' = None
    /\ ses' = [ses EXCEPT ![s].at = IF response THEN "replying" ELSE "checking",
                          ![s].may = FALSE]
    /\ UNCHANGED <<server, running, lastHandle, sessions, registered, sessionsMutex,
                   callbacksMutex, call, wire, asked, closed, left>>

\* The answer is sent with no lock held; a failure only ends this request.
Reply(s) ==
    /\ At(s, "replying") /\ ~closed[s]
    /\ Write(s, Half("reply", s, ses[s].taken, 1))
    /\ Goto(s, "replied")
    /\ UNCHANGED <<server, running, lastHandle, sessions, registered, locks, call, asked,
                   closed, left>>

ReplyRest(s) ==
    /\ At(s, "replied") /\ ~closed[s]
    /\ Write(s, Half("reply", s, ses[s].taken, 2))
    /\ Goto(s, "checking")
    /\ UNCHANGED <<server, running, lastHandle, sessions, registered, locks, call, asked,
                   closed, left>>

ReplyFails(s) ==
    /\ ses[s].at \in {"replying", "replied"} /\ closed[s]
    /\ Goto(s, "checking")
    /\ UNCHANGED <<server, running, lastHandle, sessions, registered, locks, call, wire,
                   asked, closed, left>>

\* removeSession; after run() the TCP server deletes the session and its socket.
RemoveSession(s) ==
    /\ At(s, "leaving") /\ Free(sessionsMutex, s)
    /\ sessions' = [h \in DOMAIN sessions \ {ses[s].handle} |-> sessions[h]]
    /\ Goto(s, "ended")
    /\ UNCHANGED <<server, running, lastHandle, registered, locks, call, wire, asked,
                   closed, left>>

-----------------------------------------------------------------------------
\* NymphRemoteClient::callCallback: a handler calls the session whose handle it is
\* given (once per request here), a thread of the application any handle seen so far.

MayCall(a) ==
    /\ call[a] = NotCalling
    /\ IF a \in Sessions THEN At(a, "handling") /\ ses[a].may ELSE left[a] > 0

Target(a, h) == IF a \in Sessions THEN h = ses[a].handle ELSE h < lastHandle

Spend(a) ==
    IF a \in Sessions THEN ses' = [ses EXCEPT ![a].may = FALSE] /\ UNCHANGED left
    ELSE left' = [left EXCEPT ![a] = @ - 1] /\ UNCHANGED ses

\* Mutant of FindSession: sessionsMutex is given back at once.
FindSessionUnlocked(a, h) ==
    /\ MayCall(a) /\ Target(a, h) /\ Free(sessionsMutex, a)
    /\ Spend(a)
    /\ IF h \in DOMAIN sessions
       THEN call' = [call EXCEPT ![a] = [at |-> "found", to |-> sessions[h]]]
       ELSE UNCHANGED call
    /\ UNCHANGED <<server, running, lastHandle, sessions, registered, locks, wire,
                   asked, closed>>

\* The session is looked up with sessionsMutex, which stays locked if it is there.
FindSession(a, h) ==
    /\ MayCall(a) /\ Target(a, h) /\ Free(sessionsMutex, a)
    /\ Spend(a)
    /\ IF h \in DOMAIN sessions
       THEN /\ call' = [call EXCEPT ![a] = [at |-> "found", to |-> sessions[h]]]
            /\ sessionsMutex' = a
       ELSE UNCHANGED <<call, sessionsMutex>>
    /\ UNCHANGED <<server, running, lastHandle, sessions, registered, methodsMutex,
                   callbacksMutex, wire, asked, closed>>

\* Mutant of FindCallback: both locks are given back before the message is sent.
FindCallbackUnlocks(a) ==
    /\ call[a].at = "found" /\ Free(callbacksMutex, a)
    /\ call' = IF registered THEN [call EXCEPT ![a].at = "sending"]
               ELSE [call EXCEPT ![a] = NotCalling]
    /\ sessionsMutex' = None
    /\ UNCHANGED <<server, running, lastHandle, sessions, registered, methodsMutex,
                   callbacksMutex, ses, wire, asked, closed, left>>

\* Mutant of FindCallback: an unknown callback leaves the sessions locked.
FindCallbackKeepsLock(a) ==
    /\ call[a].at = "found" /\ Free(callbacksMutex, a)
    /\ IF registered
       THEN /\ call' = [call EXCEPT ![a].at = "sending"]
            /\ callbacksMutex' = a
       ELSE /\ call' = [call EXCEPT ![a] = NotCalling]
            /\ UNCHANGED callbacksMutex
    /\ UNCHANGED <<server, running, lastHandle, sessions, registered, methodsMutex,
                   sessionsMutex, ses, wire, asked, closed, left>>

\* The callback is looked up with callbacksMutex; without it both are unlocked.
FindCallback(a) ==
    /\ call[a].at = "found" /\ Free(callbacksMutex, a)
    /\ IF registered
       THEN /\ call' = [call EXCEPT ![a].at = "sending"]
            /\ callbacksMutex' = a
            /\ UNCHANGED sessionsMutex
       ELSE /\ call' = [call EXCEPT ![a] = NotCalling]
            /\ sessionsMutex' = None
            /\ UNCHANGED callbacksMutex
    /\ UNCHANGED <<server, running, lastHandle, sessions, registered, methodsMutex, ses,
                   wire, asked, closed, left>>

Return(a) ==
    /\ call' = [call EXCEPT ![a] = NotCalling]
    /\ sessionsMutex' = None /\ callbacksMutex' = None

\* NymphMethod::call serialises the message, NymphSession::send writes it.
SendCallback(a) ==
    /\ call[a].at = "sending" /\ ~closed[call[a].to]
    /\ Write(call[a].to, Half("callback", a, IF a \in Sessions THEN ses[a].taken ELSE 0, 1))
    /\ call' = [call EXCEPT ![a].at = "sent"]
    /\ UNCHANGED <<server, running, lastHandle, sessions, registered, locks, ses, asked,
                   closed, left>>

SendRest(a) ==
    /\ call[a].at = "sent" /\ ~closed[call[a].to]
    /\ Write(call[a].to, Half("callback", a, IF a \in Sessions THEN ses[a].taken ELSE 0, 2))
    /\ Return(a)
    /\ UNCHANGED <<server, running, lastHandle, sessions, registered, methodsMutex, ses,
                   asked, closed, left>>

\* Mismatched values, or a send that fails: false, and both are unlocked.  (Through a
\* session that threw, the send is one of a deleted object; the model goes on from it
\* as from a failure.)
SendFails(a) ==
    /\ call[a].at \in {"sending", "sent"}
    /\ call[a].at = "sent" => closed[call[a].to]
    /\ Return(a)
    /\ UNCHANGED <<server, running, lastHandle, sessions, registered, methodsMutex, ses,
                   wire, asked, closed, left>>

\* registerCallback and removeCallback, by a handler or a thread that could as well
\* send a callback (it does one of the two, which bounds both).
SetRegistered(a, b) ==
    /\ MayCall(a) /\ registered # b /\ Free(callbacksMutex, a)
    /\ Spend(a)
    /\ registered' = b
    /\ UNCHANGED <<server, running, lastHandle, sessions, locks, call, wire, asked, closed>>

-----------------------------------------------------------------------------
\* The server's own part of a session: everything but the clients' doing.
Session(s) ==
    \/ TakeHandle(s) \/ AddSession(s) \/ Check(s)
    \/ ReadMessage(s) \/ SkipMessage(s) \/ PollTimeOut(s) \/ SeeClosed(s)
    \/ Throws(s) \/ UnknownMethod(s) \/ EnterHandler(s)
    \/ \E b \in BOOLEAN : LeaveHandler(s, b)
    \/ Reply(s) \/ ReplyRest(s) \/ ReplyFails(s)
    \/ RemoveSession(s)

Sending(a) == FindCallback(a) \/ SendCallback(a) \/ SendRest(a) \/ SendFails(a)

Next ==
    \/ SetRunning \/ StopServer
    \/ \E s \in Sessions :
           \/ \E n \in 0 .. MaxRequests : Connect(s, n)
           \/ Close(s) \/ Reset(s) \/ Session(s)
    \/ \E a \in Actors :
           \/ \E h \in 0 .. lastHandle - 1 : FindSession(a, h)
           \/ Sending(a)
           \/ \E b \in BOOLEAN : SetRegistered(a, b)

\* Threads are scheduled, locks that stay free are given, a poll returns within its
\* second, a handler returns and a write comes to an end.  Nothing makes a client
\* act, an application call or the server stop.
Fairness ==
    /\ WF_vars(SetRunning)
    /\ \A s \in Sessions : WF_vars(Session(s))
    /\ \A a \in Actors : WF_vars(Sending(a))
    /\ \A s \in Sessions : WF_vars(\E b \in BOOLEAN : LeaveHandler(s, b))

Spec == Init /\ [][Next]_vars /\ Fairness

-----------------------------------------------------------------------------
\* The tables and locks have their types, and a session (run) has taken no more
\* messages than its client has sent.
TypeOK ==
    /\ server \in {"started", "running", "stopped"} /\ running \in BOOLEAN
    /\ lastHandle \in 0 .. Cardinality(Sessions) /\ registered \in BOOLEAN
    /\ DOMAIN sessions \subseteq 0 .. Cardinality(Sessions)
    /\ \A h \in DOMAIN sessions : sessions[h] \in Sessions
    /\ methodsMutex \in Sessions \cup {None}
    /\ {sessionsMutex, callbacksMutex} \subseteq Actors \cup {None}
    /\ \A a \in Actors : call[a].at \in {"none", "found", "sending", "sent"}
    /\ \A s \in Sessions : asked[s] \in 0 .. MaxRequests /\ ses[s].taken \in 0 .. asked[s]

\* Inside run(): from addSession to removeSession.
InRun(s) == ses[s].at \notin {"new", "accepted", "adding", "thrown", "ended"}

\* The table holds exactly the sessions inside run(), each under its own handle, so a
\* callback to a handle reaches the client the handle was given for and none other;
\* and beside them, for good, those that an exception has ended.
HandleIsOwn ==
    /\ \A s \in Sessions : InRun(s) \/ At(s, "thrown") =>
           ses[s].handle \in DOMAIN sessions /\ sessions[ses[s].handle] = s
    /\ \A h \in DOMAIN sessions :
           LET s == sessions[h]
           IN  ses[s].handle = h /\ (InRun(s) \/ (At(s, "thrown") /\ ses[s].reset))

\* A session that callCallback holds is inside run() until the callback is sent:
\* sessionsMutex stays locked from the look-up to the end of the send, so removeSession
\* waits.  Only a session whose client has reset the connection may have been deleted:
\* an exception out of run() passes the lock and the table by.
NoSendToEnded ==
    \A a \in Actors : call[a].at # "none" =>
        LET s == call[a].to
        IN  InRun(s) \/ (At(s, "thrown") /\ ses[s].reset)

\* The halves of a frame are torn apart only where an answer and a callback of
\* another thread meet on one connection: two callbacks never mix.
IsRest(g, f) == g.part = 2 /\ f.part = 1 /\ <<g.kind, g.by, g.n>> = <<f.kind, f.by, f.n>>

TornOnlyByReply ==
    \A s \in Sessions : \A i \in DOMAIN wire[s] :
        LET f == wire[s][i]
            g == wire[s][i + 1]
        IN  (f.part = 1 /\ i < Len(wire[s]) /\ ~IsRest(g, f)) =>
                /\ "reply" \in {f.kind, g.kind}
                /\ "callback" \in {f.kind, g.kind}
                /\ f.by # g.by

\* A session answers its requests in the order they came, each at most once, and the
\* callback a handler sends to its own caller is complete before that answer begins.
AnswersInOrder ==
    \A s \in Sessions : \A i, j \in DOMAIN wire[s] :
        LET f == wire[s][i]
            g == wire[s][j]
        IN  i < j =>
                /\ (f.kind = "reply" /\ g.kind = "reply") =>
                       f.n < g.n \/ (f.n = g.n /\ f.part < g.part)
                /\ ~(f.kind = "reply" /\ g.kind = "callback" /\ g.by = s /\ g.n <= f.n)

\* A session ends because its client closed or reset the connection or the server
\* stopped, but for the one that looks at "running" before start() has set it: that
\* client is cut off.
EndsForAReason ==
    \A s \in Sessions : ses[s].at \in {"leaving", "ended", "thrown"} =>
        closed[s] \/ server = "stopped" \/ ses[s].early

\* Every request a client sends is read and dealt with, whatever the other sessions
\* and threads do with the locks, unless the connection or the server ends first.
Served(s) ==
    \/ ses[s].taken = asked[s] /\ ses[s].at \notin {"calling", "handling", "replying", "replied"}
    \/ closed[s] \/ server = "stopped" \/ ses[s].early

EveryRequestEnds == []<>(\A s \in Sessions : Served(s))

=============================================================================
