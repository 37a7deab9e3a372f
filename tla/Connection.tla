----------------------------- MODULE Connection -----------------------------
(***************************************************************************)
(* The life of the client's connections: connect makes an instance (in     *)
(* NymphRemoteServer::instances) and a listener with a thread of its own   *)
(* (in NymphListener::listeners); the user's disconnect, the listener when *)
(* the remote closes, and shutdown take them down.  When the remote resets *)
(* instead, the listener's thread may end by an exception and take nothing *)
(* down.  The four objects of a connection (instance, socket, ready        *)
(* condition, listener) are deleted by different threads: the model        *)
(* records every use of one that is deleted.                               *)
(***************************************************************************)
EXTENDS Naturals, FiniteSets

CONSTANTS
    MaxConns,           \* bound: connections made, numbered in that order, each by a
                        \* thread of its own
    MaxDisconnects,     \* bound: calls of disconnect by the user
    MayFail,            \* BOOLEAN: shutting a socket down may fail
    MayShutdown         \* BOOLEAN: the user may call shutdown()

ASSUME BoundsAreTyped == /\ MaxConns \in Nat /\ MaxDisconnects \in Nat
                         /\ MayFail \in BOOLEAN /\ MayShutdown \in BOOLEAN

Conns == 1 .. MaxConns

VARIABLES
    con,            \* the objects and threads of each connection
    lastHandle,     \* NymphRemoteServer::lastHandle
    instances,      \* handle to connection
    listeners,      \* handle to connection
    shut,           \* where shutdown() is
    cursor,         \* the handle at shutdown()'s iterator
    disconnects,    \* calls of disconnect by the user
    misuse,         \* kinds of deleted objects that were used
    overlap,        \* history: two connects were between their uses of lastHandle
    failed          \* history: shutting a socket down has failed

vars == <<con, lastHandle, instances, listeners, shut, cursor, disconnects, misuse,
          overlap, failed>>

NoConnection ==
    [at |-> "new",              \* connect(): see below
     own |-> 0, handle |-> 0,   \* handle of the instance, and of the listener
     given |-> 0,               \* handle returned to the user
     instance |-> "none", socket |-> "none", ready |-> "none", listener |-> "none",
     listen |-> TRUE,           \* NymphSocketListener::listen
     thread |-> "none",         \* the listener's thread
     remote |-> FALSE,          \* the remote has closed or reset
     reset |-> FALSE,           \* it has reset: the socket reports an error
     told |-> 0,                \* calls of the disconnect callback
     early |-> FALSE]           \* history: the thread ended before connect() did

Init ==
    /\ con = [c \in Conns |-> NoConnection]
    /\ lastHandle = 0 /\ instances = <<>> /\ listeners = <<>>
    /\ shut = "no" /\ cursor = 0 /\ disconnects = 0
    /\ misuse = {} /\ overlap = FALSE /\ failed = FALSE

Put(table, h, c) ==
    [x \in DOMAIN table \cup {h} |-> IF x \in DOMAIN table THEN table[x] ELSE c]
Remove(table, h) == [x \in DOMAIN table \ {h} |-> table[x]]

\* The kinds of objects among "kinds" that connection c has no more.
Gone(c, kinds) == {k \in kinds : con[c][k] = "deleted"}

-----------------------------------------------------------------------------
\* connect(): the instance is made and inserted under instancesMutex...
InBetween(c) == con[c].at \in {"inserted", "waiting", "woken", "added"}

\* Mutant of MakeInstance: lastHandle is incremented here as well.
MakeInstanceCounts(c) ==
    /\ con[c].at = "new" /\ shut = "no"
    /\ \A d \in 1 .. c - 1 : con[d].at # "new"
    /\ con' = [con EXCEPT ![c].at = "inserted", ![c].own = lastHandle,
                          ![c].instance = "live", ![c].socket = "open"]
    /\ instances' = Put(instances, lastHandle, c)
    /\ lastHandle' = lastHandle + 1
    /\ overlap' = (overlap \/ \E d \in Conns : InBetween(d))
    /\ UNCHANGED <<listeners, shut, cursor, disconnects, misuse, failed>>

MakeInstance(c) ==
    /\ con[c].at = "new" /\ shut = "no"
    /\ \A d \in 1 .. c - 1 : con[d].at # "new"
    /\ con' = [con EXCEPT ![c].at = "inserted", ![c].own = lastHandle,
                          ![c].instance = "live", ![c].socket = "open"]
    /\ instances' = Put(instances, lastHandle, c)
    /\ overlap' = (overlap \/ \E d \in Conns : InBetween(d))
    /\ UNCHANGED <<lastHandle, listeners, shut, cursor, disconnects, misuse, failed>>

\* ... and lastHandle is read again without it, for the listener: its thread starts,
\* and connect waits up to a second for it.
StartListener(c) ==
    /\ con[c].at = "inserted"
    /\ con' = [con EXCEPT ![c].at = "waiting", ![c].handle = lastHandle,
                          ![c].ready = "live", ![c].listener = "live",
                          ![c].thread = "starting"]
    /\ misuse' = misuse \cup Gone(c, {"instance"})
    /\ UNCHANGED <<lastHandle, instances, listeners, shut, cursor, disconnects, overlap, failed>>

\* tryWait returns because of the signal and has locked the mutex again, or times out:
\* then the listener does not enter the table, and connect does not look.
Awake(c) ==
    /\ con[c].at = "woken"
    /\ misuse' = misuse \cup Gone(c, {"ready"})
    /\ listeners' = Put(listeners, con[c].handle, c)
    /\ con' = [con EXCEPT ![c].at = "added"]
    /\ UNCHANGED <<lastHandle, instances, shut, cursor, disconnects, overlap, failed>>

WaitTimesOut(c) ==
    /\ con[c].at = "waiting"
    /\ misuse' = misuse \cup Gone(c, {"ready"})
    /\ con' = [con EXCEPT ![c].at = "added"]
    /\ UNCHANGED <<lastHandle, instances, listeners, shut, cursor, disconnects, overlap, failed>>

\* Mutant of TakeHandle: pre-increment.
TakeHandleFirst(c) ==
    /\ con[c].at = "added"
    /\ con' = [con EXCEPT ![c].at = "syncing", ![c].given = lastHandle + 1]
    /\ lastHandle' = lastHandle + 1
    /\ UNCHANGED <<instances, listeners, shut, cursor, disconnects, misuse, overlap, failed>>

\* The handle given to the user, and the next one.
TakeHandle(c) ==
    /\ con[c].at = "added"
    /\ con' = [con EXCEPT ![c].at = "syncing", ![c].given = lastHandle]
    /\ lastHandle' = lastHandle + 1
    /\ UNCHANGED <<instances, listeners, shut, cursor, disconnects, misuse, overlap, failed>>

\* The listener found under a handle, if it is deleted.
ListenerGone(h) == IF h \in DOMAIN listeners THEN Gone(listeners[h], {"listener"}) ELSE {}

\* sync() runs on the instance without instancesMutex: callMethod enters its request
\* with the listener, sends it on the socket and waits; then the methods go into the
\* instance.
SyncEnds(c) ==
    /\ con[c].at = "syncing"
    /\ misuse' = misuse \cup Gone(c, {"instance", "socket"}) \cup ListenerGone(con[c].own)
    /\ con' = [con EXCEPT ![c].at = "connected"]
    /\ UNCHANGED <<lastHandle, instances, listeners, shut, cursor, disconnects, overlap, failed>>

-----------------------------------------------------------------------------
\* NymphServerInstance::disconnect: the socket is shut down and closed, the user is
\* told in any case, and the listener of that handle is stopped and forgotten.

Stopped(h, cs) ==
    IF h \in DOMAIN listeners THEN [cs EXCEPT ![listeners[h]].listen = FALSE] ELSE cs

\* Shutting down fails on a socket that is closed, and may when the remote is gone.
CanFail(d) == con[d].socket # "open" \/ (MayFail /\ con[d].remote)

\* Mutant of Close: the user is not told of a socket that did not shut down.
CloseUntold(d, cs, ok) ==
    [cs EXCEPT ![d].socket = IF ok THEN "closed" ELSE @,
               ![d].told = IF ok THEN @ + 1 ELSE @]

Close(d, cs, ok) ==
    [cs EXCEPT ![d].socket = IF ok THEN "closed" ELSE @, ![d].told = @ + 1]

\* NymphRemoteServer::disconnect, with instancesMutex locked: the instance goes if its
\* socket did; otherwise it stays in the table.  "cs": the caller's own changes.
Disconnect(h, cs) ==
    IF h \notin DOMAIN instances
    THEN con' = cs /\ UNCHANGED <<instances, listeners, misuse, failed>>
    ELSE LET d == instances[h]
         IN  /\ misuse' = misuse \cup Gone(d, {"instance", "socket"}) \cup ListenerGone(h)
             /\ listeners' = Remove(listeners, h)
             /\ \/ /\ con[d].socket = "open"
                   /\ con' = [Stopped(h, Close(d, cs, TRUE)) EXCEPT ![d].instance = "deleted"]
                   /\ instances' = Remove(instances, h)
                   /\ UNCHANGED failed
                \/ /\ CanFail(d)
                   /\ con' = Stopped(h, Close(d, cs, FALSE))
                   /\ failed' = TRUE
                   /\ UNCHANGED instances

\* The user disconnects a handle that connect has given out.
UserDisconnect(c) ==
    /\ con[c].at = "connected" /\ disconnects < MaxDisconnects
    /\ disconnects' = disconnects + 1
    /\ Disconnect(con[c].given, con)
    /\ UNCHANGED <<lastHandle, shut, cursor, overlap>>

-----------------------------------------------------------------------------
\* The listener's thread (NymphSocketListener::run).

\* After its first poll it signals that it is ready.
Ready(c) ==
    /\ con[c].thread = "starting"
    /\ misuse' = misuse \cup Gone(c, {"listener", "ready", "socket"})
    /\ con' = [con EXCEPT ![c].thread = "looping",
                          ![c].at = IF @ = "waiting" THEN "woken" ELSE @]
    /\ UNCHANGED <<lastHandle, instances, listeners, shut, cursor, disconnects, overlap, failed>>

\* The remote closes the connection, or resets it: at once, or after it has closed.
\* (Neither is noticed once the socket is closed on this side, and only run() notices
\* the difference.)
RemoteCloses(c) ==
    /\ con[c].socket = "open" /\ ~con[c].remote
    /\ con' = [con EXCEPT ![c].remote = TRUE]
    /\ UNCHANGED <<lastHandle, instances, listeners, shut, cursor, disconnects, misuse,
                   overlap, failed>>

RemoteResets(c) ==
    /\ con[c].socket = "open" /\ ~con[c].reset
    /\ con[c].thread \in {"none", "starting", "looping"}
    /\ con' = [con EXCEPT ![c].remote = TRUE, ![c].reset = TRUE]
    /\ UNCHANGED <<lastHandle, instances, listeners, shut, cursor, disconnects, misuse,
                   overlap, failed>>

\* Mutant of LeaveLoop: only disconnect ends the loop.
LeaveLoopToldOnly(c) ==
    /\ con[c].thread \in {"starting", "looping"}
    /\ ~con[c].listen
    /\ misuse' = misuse \cup Gone(c, {"listener", "ready"})
    /\ con' = [con EXCEPT ![c].thread = "leaving", ![c].ready = "deleted",
                          ![c].reset = FALSE, ![c].early = con[c].at # "connected"]
    /\ UNCHANGED <<lastHandle, instances, listeners, shut, cursor, disconnects, overlap, failed>>

\* receiveBytes returns 0, perhaps at the first poll, or "listen" is cleared: the ready
\* condition and its mutex are deleted.  It returns 0 when the remote has closed, when
\* another thread is just closing the socket, and after a reset whose error a send of
\* another thread has taken.
LeaveLoop(c) ==
    /\ con[c].thread \in {"starting", "looping"}
    /\ con[c].remote \/ con[c].socket = "closed" \/ ~con[c].listen
    /\ misuse' = misuse \cup Gone(c, {"listener", "ready"})
    /\ con' = [con EXCEPT ![c].thread = "leaving", ![c].ready = "deleted",
                          ![c].reset = FALSE, ![c].early = con[c].at # "connected"]
    /\ UNCHANGED <<lastHandle, instances, listeners, shut, cursor, disconnects, overlap, failed>>

\* poll or receiveBytes throws, on a socket that another thread has closed or that the
\* remote has reset, and nothing in run() catches it: the thread just ends.
Dies(c) ==
    /\ con[c].thread \in {"starting", "looping"}
    /\ con[c].socket = "closed" \/ con[c].reset
    /\ con' = [con EXCEPT ![c].thread = "died"]
    /\ UNCHANGED <<lastHandle, instances, listeners, shut, cursor, disconnects, misuse,
                   overlap, failed>>

\* Mutant of ListenerDisconnects: the socket is deleted before it is disconnected.
DeletesSocketFirst(c) ==
    /\ con[c].thread = "leaving"
    /\ Disconnect(con[c].handle, [con EXCEPT ![c].thread = "deleting", ![c].socket = "deleted"])
    /\ UNCHANGED <<lastHandle, shut, cursor, disconnects, overlap>>

\* It disconnects the handle it was given...
ListenerDisconnects(c) ==
    /\ con[c].thread = "leaving"
    /\ Disconnect(con[c].handle, [con EXCEPT ![c].thread = "deleting"])
    /\ UNCHANGED <<lastHandle, shut, cursor, disconnects, overlap>>

\* ... and deletes the socket and itself.
ListenerEnds(c) ==
    /\ con[c].thread = "deleting"
    /\ misuse' = misuse \cup Gone(c, {"listener", "socket"})
    /\ con' = [con EXCEPT ![c].thread = "ended", ![c].socket = "deleted",
                          ![c].listener = "deleted"]
    /\ UNCHANGED <<lastHandle, instances, listeners, shut, cursor, disconnects, overlap, failed>>

-----------------------------------------------------------------------------
\* shutdown(), without instancesMutex: for every instance its listener is stopped and
\* its socket closed, none is deleted; then the listeners that are left are stopped
\* and deleted.  An entry that another thread erases under the iterator is a misuse.

First(hs) == IF hs = {} THEN "listeners" ELSE "visiting"
Least(hs) == IF hs = {} THEN 0 ELSE CHOOSE h \in hs : \A x \in hs : h <= x

Shutdown ==
    /\ MayShutdown /\ shut = "no"
    /\ \A c \in Conns : con[c].at \in {"new", "connected"}
    /\ shut' = First(DOMAIN instances) /\ cursor' = Least(DOMAIN instances)
    /\ UNCHANGED <<con, lastHandle, instances, listeners, disconnects, misuse, overlap, failed>>

Erased == IF cursor \in DOMAIN instances THEN {} ELSE {"iterator"}

ShutRemove ==
    /\ shut = "visiting" /\ shut' = "removed"
    /\ misuse' = misuse \cup Erased \cup ListenerGone(cursor)
    /\ con' = Stopped(cursor, con)
    /\ listeners' = Remove(listeners, cursor)
    /\ UNCHANGED <<lastHandle, instances, cursor, disconnects, overlap, failed>>

\* (On an erased entry the model goes on as if there were nothing to do.)
ShutInstance ==
    /\ shut = "removed" /\ shut' = "advancing"
    /\ IF cursor \in DOMAIN instances
       THEN LET d == instances[cursor]
            IN  /\ misuse' = misuse \cup Gone(d, {"instance", "socket"}) \cup ListenerGone(cursor)
                /\ listeners' = Remove(listeners, cursor)
                /\ \E ok \in BOOLEAN :
                       /\ IF ok THEN con[d].socket = "open" ELSE CanFail(d)
                       /\ con' = Stopped(cursor, Close(d, con, ok))
                       /\ failed' = (failed \/ ~ok)
       ELSE misuse' = misuse \cup Erased /\ UNCHANGED <<con, listeners, failed>>
    /\ UNCHANGED <<lastHandle, instances, cursor, disconnects, overlap>>

ShutNext ==
    /\ shut = "advancing"
    /\ misuse' = misuse \cup Erased
    /\ LET rest == {h \in DOMAIN instances : h > cursor}
       IN  shut' = First(rest) /\ cursor' = Least(rest)
    /\ UNCHANGED <<con, lastHandle, instances, listeners, disconnects, overlap, failed>>

ShutListeners ==
    /\ shut = "listeners" /\ shut' = "done"
    /\ instances' = <<>> /\ listeners' = <<>>
    /\ misuse' = misuse \cup UNION {Gone(listeners[h], {"listener"}) : h \in DOMAIN listeners}
    /\ con' = [c \in Conns |-> IF \E h \in DOMAIN listeners : listeners[h] = c
                               THEN [con[c] EXCEPT !.listen = FALSE, !.listener = "deleted"]
                               ELSE con[c]]
    /\ UNCHANGED <<lastHandle, cursor, disconnects, overlap, failed>>

ShuttingDown == ShutRemove \/ ShutInstance \/ ShutNext \/ ShutListeners

-----------------------------------------------------------------------------
Connecting(c) ==
    StartListener(c) \/ Awake(c) \/ WaitTimesOut(c) \/ TakeHandle(c) \/ SyncEnds(c)

Listener(c) ==
    Ready(c) \/ LeaveLoop(c) \/ Dies(c) \/ ListenerDisconnects(c) \/ ListenerEnds(c)

Next ==
    \/ \E c \in Conns :
           \/ MakeInstance(c) \/ Connecting(c)
           \/ UserDisconnect(c) \/ RemoteCloses(c) \/ RemoteResets(c) \/ Listener(c)
    \/ Shutdown \/ ShuttingDown

\* Threads are scheduled, waits and polls time out, sync ends with its time-outs, and
\* instancesMutex comes free, as every call that holds it times out.
Fairness ==
    /\ \A c \in Conns : WF_vars(Connecting(c)) /\ WF_vars(Listener(c))
    /\ WF_vars(ShuttingDown)

Spec == Init /\ [][Next]_vars /\ Fairness

-----------------------------------------------------------------------------
\* The tables of connect and the listener map handles, given one per connect, to
\* connections; the threads are at known places.
TypeOK ==
    /\ lastHandle \in 0 .. Cardinality(Conns)
    /\ \A h \in DOMAIN instances : instances[h] \in Conns
    /\ \A h \in DOMAIN listeners : listeners[h] \in Conns
    /\ shut \in {"no", "visiting", "removed", "advancing", "listeners", "done"}
    /\ misuse \subseteq {"instance", "socket", "ready", "listener", "iterator"}
    /\ \A c \in Conns :
           /\ con[c].at \in {"new", "inserted", "waiting", "woken", "added", "syncing", "connected"}
           /\ con[c].thread \in {"none", "starting", "looping", "leaving", "deleting",
                                 "ended", "died"}

Early == \E c \in Conns : con[c].early

\* A deleted object is used only in the cases where the code has nothing to prevent
\* it: the ready condition, and the instance and the socket that sync works on, when
\* the listener ends while connect is still at work; a listener, when it ended before
\* connect entered it in the table; a socket also when shutting one down failed and its
\* instance stayed; the iterator of shutdown(), when an instance is disconnected beside
\* it; anything, when connects overlapped.
MisuseHasItsCause ==
    \/ overlap
    \/ /\ {"ready", "listener", "instance"} \cap misuse # {} => Early
       /\ "socket" \in misuse => failed \/ Early
       /\ "iterator" \in misuse => shut # "no"

\* connect() has given out the handle.
Given(c) == con[c].at \in {"syncing", "connected"}

\* Unless connects overlapped, the handle the user is given is that of the instance
\* and of the listener, no other connection has it, and while the instance
\* lives the table of the instances leads from the handle to it.
HandleIsOwn ==
    overlap \/ \A c \in Conns :
        Given(c) =>
            /\ con[c].given = con[c].own /\ con[c].given = con[c].handle
            /\ \A d \in Conns \ {c} : Given(d) => con[d].given # con[c].given
            /\ (con[c].instance = "live" /\ shut # "done") =>
                   /\ con[c].own \in DOMAIN instances
                   /\ instances[con[c].own] = c

\* The reset has ended the listener's thread before anybody disconnected.
Abandoned(c) ==
    con[c].thread = "died" /\ con[c].reset /\ con[c].told = 0 /\ con[c].instance = "live"

\* However a connection ends, by the user, the remote or both at a time, the user is
\* told, and told once; an overlap or shutdown() change that, and a failed shutdown of
\* the socket leaves the instance to be disconnected again.  A reset may end the
\* thread before that: then nobody is told, and the instance waits for the user.
ToldOnce ==
    overlap \/ shut # "no" \/ \A c \in Conns :
        /\ con[c].told <= 1 \/ failed
        /\ con[c].thread \in {"deleting", "ended"} => con[c].told >= 1
        /\ con[c].thread = "died" => con[c].told >= 1 \/ Abandoned(c)

\* When the remote closes or resets, the listener's thread ends and the instance goes,
\* so that later calls with the handle are refused; the exceptions are those of
\* ToldOnce.
CloseTakesDown ==
    \A c \in Conns :
        con[c].remote /\ con[c].thread # "none" ~>
            /\ con[c].thread \in {"ended", "died"}
            /\ \/ con[c].instance = "deleted" \/ Abandoned(c)
               \/ overlap \/ failed \/ shut # "no"
=============================================================================
