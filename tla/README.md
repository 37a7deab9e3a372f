# A TLA+ model of NymphRPC

NymphRPC (`src/`, C++ in `src/src/`) is a remote procedure call library.  A client
connects to a server over TCP, learns the server's methods, calls them by name
or by number, and may receive callbacks that the server sends on the same
connection.  This directory holds TLA+ modules that model its concurrent parts,
TLC configurations that check them on small instances, and proofs, checked by
TLAPS, of theorems about all instances.

All file names below are relative to `src/src/` unless they start with `src/`.

## 1. The system

| component | state | operations | what makes it correct |
|---|---|---|---|
| `NymphRemoteServer`, `NymphServerInstance` (client side) | `instances`, `lastHandle`; per instance the socket, the two method tables, `timeout` | `connect` (with `sync`), `callMethod`, `callMethodId`, `removeMethod`, `disconnect`, `shutdown` | a call ends with the answer to its own message, its exception, a time-out or an error; a connection's objects are not used after they are deleted |
| `NymphListener` | `listeners` (one per connection), the callback registry | `addConnection`, `removeConnection`, `addMessage`, `removeMessage`, `addCallback`, `callCallback`, `removeCallback`, `stop` | an entry exists while its call waits, and no longer |
| `NymphSocketListener` (a thread per connection) | `messages`: message id to `NymphRequest` | `run`, `addMessage`, `removeMessage`, `stop` | an answer reaches the call it answers; no deleted request is touched; callbacks go to the dispatcher in order |
| `NymphRequest` | response, exception flag, mutex, condition | shared by one caller and one listener | no wake-up is lost |
| `Dispatcher`, `Worker`, `CallbackRequest` | request queue, idle queue, worker slots | `addRequest`, `addWorker`, `run`, `stop` | every callback is run exactly once, at most `poolSize` at a time |
| `NymphSession` (a thread per client on the server) | handle, socket | `run`, `send` | every message is handled once and answered |
| `NymphRemoteClient`, `NymphServer` (server side) | methods, callbacks, sessions; `running` | `registerMethod`, `syncMethods`, `callMethodCallback`, `callCallback`, `start`, `stop`, ... | the method run is the one that was called; no session is used after it ended |
| `NymphMessage`, `NymphType` | buffers, values, reference counts | parse, serialize, reply, discard | what is parsed is what was serialised; nothing is deleted twice |
| `NymphLogger`, `NymphUtilities` | log level; the message-id counter | | ids are unique |

How they interact.  `NymphRemoteServer::callMethod` locks `instancesMutex`,
finds the connection and calls `NymphServerInstance::callMethod`, which allocates
a `NymphRequest` and locks its mutex; `NymphMethod::call` composes the message,
registers the request with `NymphListener::addMessage` and writes the message to
the socket.  The caller waits on the request's condition.  The connection's
`NymphSocketListener` thread reads the answer, finds the request by the message
id the answer refers to, stores the answer in it and signals the condition.  The
caller then removes the request from the table and deletes it.  A message that is
a callback goes to `Dispatcher::addRequest` instead, and a worker thread calls the
registered function.  On the server a `NymphSession` thread reads a message, runs
the method's handler (which may send callbacks with `NymphSession::send`) and
writes the answer.

What is hard here: five kinds of threads (callers, listeners, workers, sessions,
the remote side) over six kinds of mutexes that are nested differently on each
path; pointers to requests that two threads share and that one of them deletes;
time-outs that race with late answers; sends that fail half way; queues read under
one lock and filled under another; objects that delete themselves.  PROJECT.json
lists these hazards, each at its line, with the properties that cover them.

## 2. The modules

| module | models | source |
|---|---|---|
| `RemoteCall` | a remote call on the client: callers, listener threads, requests, mutexes, both byte streams, the session as the environment | `remote_server.cpp`, `nymph_method.cpp`, `nymph_listener.cpp`, `nymph_socket_listener.cpp` |
| `RpcContract` | what a call promises its user | abstract |
| `RemoteCallProofs` | theorems about the calls of `RemoteCall`, its requests and locks | |
| `RpcContractProofs` | theorems about its answers, and that it implements `RpcContract` | |
| `Connection` | `connect`, `disconnect` by the user and by the listener, `shutdown`: instances, sockets and listeners as objects with a life | `remote_server.cpp`, `nymph_listener.cpp`, `nymph_socket_listener.cpp` |
| `ConnectionProofs` | theorems about `Connection` | |
| `Callbacks` | the client's registry of callbacks, user code in callbacks, the two locks it meets | `nymph_listener.cpp`, `callback_request.cpp`, `remote_server.cpp` |
| `CallbacksProofs` | theorems about `Callbacks` | |
| `Dispatcher` | the worker pool for callbacks | `dispatcher.cpp`, `worker.cpp`, `callback_request.cpp` |
| `WorkPool` | what the pool promises | abstract |
| `DispatcherProofs` | theorems about `Dispatcher`, and that it implements `WorkPool` | |
| `MethodTable` | the server's registry of methods, the list a client asks for, the client's tables, calls by name and by number | `remote_client.cpp`, `remote_server.cpp`, `nymph_session.cpp` |
| `MethodTableProofs` | theorems about `MethodTable` | |
| `ServerSession` | the server: sessions, handlers, answers, callbacks to clients, start and stop | `nymph_session.cpp`, `remote_client.cpp`, `nymph_server.cpp` |
| `ServerSessionProofs` | theorems about `ServerSession` | |
| `NymphCodec` | the format of values, pure operators | `nymph_types.cpp` |
| `Message` | the life of the messages of one exchange; uses `NymphCodec` | `nymph_message.cpp`, and where messages are made and deleted |
| `MessageProofs` | theorems about `Message` and what `NymphCodec` writes | |
| `MC...` | instances for TLC | |

How they fit together.  A module abstracts its neighbours.  `RemoteCall` starts
where `Connection` ends, with connections that are open, and its remote side is a
client's view of `ServerSession`.  `Callbacks` sees `Dispatcher` as `WorkPool`
describes it: a set of requests from which workers take.  `MethodTable` leaves out
time-outs and answers, which are `RemoteCall`'s, and locks, which are
`ServerSession`'s.  `Message` follows one exchange through the objects and bytes
that all the others pass on as one thing.

### RemoteCall

`pc[t]` is where thread t is: `idle`, `lookup` (inside the entry point, before the
method table), `register` and `insert` (the two halves of `addMessage`), `send`,
`tryWait`, `waiting`, `remove` and `erase` (the two halves of `removeMessage`) and
`finish`.  `call[t]` holds its locals.  `request[r]` is the content of heap cell r,
`live` the cells that are allocated; a cell is reused after its request was
deleted, so that a stale pointer would meet another call's request.  Each mutex is
a variable that holds its owner; `request[r].mutex` and `.waiter` are the request's
own mutex and the thread queued on its condition.  `lstep[c]`, `lframe[c]` and
`lreq[c]` are the listener thread of connection c: its step, the message it has
read and the request it has found.  `toServer` and `toClient` are the two streams;
TCP keeps them in order and loses nothing while the connection is open.

A step of the model is one critical section or one blocking point of the code.
Acquiring a mutex that another thread may hold starts a new step, so every
interleaving that the nested locks permit is explored: a caller that waits for
`messagesMutex` while it holds `listenersMutex`, a listener that waits for the
request's mutex while it holds `messagesMutex`, a time-out between any two of
these.  An unlock is folded into the step before it, which only removes
interleavings that other steps provide.

`Poco::Condition::tryWait` is outside the repository; it is modelled as a monitor
that releases the mutex and queues the caller at once (`TryWait`), may give up
(`TimeOut`) or be signalled, and takes the mutex again before it returns
(`WakeUp`).  The remote side is modelled from `nymph_session.cpp`: it takes one
message at a time and answers it with a value, with an exception, with bytes that
do not parse or not at all, and its handler may send a callback first.  `sync` has
a handler that always answers with a value.

Properties, each stated in the module with the code it is about:

* `DeliveryToOpenCall`: from the listener's find to its delivery the request belongs
  to an open call of this connection that was sent and waits for this message.
* `NoDanglingEntry`: no table entry outlives its request.
* `NoLostWakeup`: no caller is queued with an answer already delivered.
* `CallbackBeforeReturn`: a handler's callback is with the dispatcher before its
  answer is with the caller.
* `EntryIsAwaited`: a table entry is a message that a call waits for.
* `EveryCallReturns`, `ListenerComesBack`: nobody waits for ever.
* `ContractSpec`: the call path implements `RpcContract`.
* `IInv`: the inductive invariant of the proofs.

### Dispatcher

Producers are the listener threads that call `addRequest`; a worker's thread runs
`Worker::run`.  `addRequest` and `addWorker` each release one of the two mutexes
before they take the other, and each side of that gap is a step of its own.  The
worker's fields are read and written without a lock: every read is a step of its
own.  `setRequest` stores the request and then `ready`; the model takes the two
stores as visible in this order, as a build for x86 makes them, and does not
cover a compiler or processor that reorders them.  `wait_for` may return at any
time, and a notification that comes before it is lost.  `stop` takes no lock;
threads that go on after their `Worker` was deleted show in `touched`, and what
reading freed memory does is not followed.

Properties: `InOnePlace` (a callback is neither lost nor given to two workers),
`IdleQueue` (the idle queue holds idle workers, each once), `SlotKept` (no
assignment overwrites another), `AssignedRuns`, `QueueIsDrained`, `PoolSpec` (the
pool implements `WorkPool`), and one that the code does not have:
`NoUseAfterDelete`.

### MethodTable

Do the two sides mean the same method by an id?  A `NymphMethod` object is named
by the id it was registered under, its own id.  `methods` (name to object) and
`methodsIds` (id to object) are the server's two maps, `cmethods[c]`, `cids[c]` and
`cnext[c]` those of connection c and its counter; `registered`, `object` and `ran`
are history.  A pointer whose object was erased from the map stays in the table
and dangles: what is then read or run is a nondeterministic choice.

`methodsMutex` is held in the model across the two halves of `syncMethods`
(`SyncBegin`, `SyncEnd`) only; the other operations that take it are one step each
and wait for it.  `syncMethods` never sets `synced`, so every `nymphsync` assigns
the static `serializedMethods` again.  The reply keeps a pointer to its characters,
and the session copies them after the mutex is released: `SyncReply` reads the
string as it was built, or, when another session has changed it since or is doing
so, parts of either and bytes that do not parse (`Torn`).  On the client,
`phase[c]` is where `connect` is, `parsed[c]` how far `sync` has read the list;
one entry is one step.  `sync` gives the methods numbers of its own (`AddMethod`).
A connection sends one request at a time; time-outs, errors and answers are
`RemoteCall`'s.  A request that the server has no method for is dropped, that for
`nymphsync` included (`SyncDropped`).

What a registry does with its maps is kept as the code has it: a name registered
again keeps its object and gives it a second id; `removeMethod` erases the entry
under the object's own id only; for an unknown name it reads an id through the end
iterator (`RemoveUnknown`, any id); the client's `removeMethod` leaves the id
(`CallErasedMethod`).  `Init` is the state after `init`: an application that
registers a method before it is not modelled.

Properties: `ExactTableRunsNamed` (a connection whose list had every id from 0 on
never runs a method its user did not mean, whatever the server does afterwards),
`DanglingLeavesGap` (while no id is missing, no pointer dangles), `MethodsResolve`
(a registered name is reachable by its own id), `IInv`, and one that the code does
not have: `NamedMethodRuns`.

### Connection

A connection is four objects: the instance, its socket, the condition by which the
listener's thread reports that it is ready, and the listener.  `con[c]` says of
each whether it exists or was deleted, where `connect` is (`at`), where the
listener's thread is (`thread`), and three handles: the instance's (`own`), the
listener's (`handle`) and the user's (`given`).  They are three because `connect`
reads `lastHandle` three times, outside `instancesMutex`; `overlap` records that two
calls of `connect` were between these reads.

`disconnect` is one step, as it holds `instancesMutex` from the look-up to the end,
and so is the disconnect of a listener whose remote has closed (`Disconnect`, with
either handle).  `shutdown` takes no lock: it is a step per call it makes, and
`cursor` is its iterator.  A step that uses a deleted object adds the object's kind
to `misuse` and goes on as if the object were there.  It is the properties that say
when that may be.  `SyncEnds` uses three objects: the instance, the socket that the
request for the list is sent on, and the listener it is entered with.

The remote may close the connection (`RemoteCloses`), which the listener's thread
reads as zero bytes, or reset it (`RemoteResets`), which `poll` and `receiveBytes`
may report as an exception.  `run` catches none: the thread just ends (`Dies`), on a
reset as on a socket that another thread has closed.

Properties: `MisuseHasItsCause` (each kind of misuse needs one of these: connects
that overlap; a listener that ends while `connect` is at work, for the ready
condition, the listener, and the instance and the socket that `sync` works on; a
socket that did not shut down, for a socket used again; a `shutdown` beside a
disconnect, for its iterator), `HandleIsOwn`, `ToldOnce` (the user's disconnect
callback is called once, whoever disconnects), `CloseTakesDown` (when the remote
closes, the thread ends and the instance goes).  The last two except a connection
whose reset has ended the thread (`Abandoned`): nobody is told, and the instance
stays until the user disconnects.

### Callbacks

`callbacksMutex` is locked while a callback runs on a worker, `instancesMutex` for
the whole of a remote call and while the disconnect callback runs.  Both are
`Poco::Mutex`, which is recursive (`Free`).  User code, on a thread of the
application or in a callback, may register or remove the callback (`want`), call a
method or disconnect (`api`); in the disconnect callback, it may register or remove.
(A library call from there on the handle that is being disconnected would find its
instance half closed; it is left out.)  One connection and one name are enough, as
both mutexes are static.

`lost` records that a disconnect has failed, so that the instance stayed in the table
(`EndDisconnect`), or that a reset has ended the listener's thread without a
disconnect (`ListenerDies`).

Properties: `NoRunAfterRemove` (when `removeCallback` has returned to another
thread, the function does not run), `StuckOnlyByEmbrace` (of all the cycles that two
locks allow, only one shape can occur: a callback waits for `instancesMutex`, whose
owner is in the disconnect callback and waits for `callbacksMutex`),
`EverythingEnds` (liveness, but for that cycle: every callback that a worker has
taken and every library call ends, and a closed connection is taken down unless it
was `lost`).  That a request in the queue is taken is not claimed here, and no
fairness asks it of `Take`: the dispatcher can leave one beside idle workers, see
`QueueIsDrained` in `Dispatcher`.

### ServerSession

`ses[s]` is a session's thread: `accepted`, `adding` (to the table), `checking`
(`while (NymphServer::running)`), `polling`, `calling`, `handling` (the method's
handler, with `methodsMutex` locked), `replying` and `replied`, `leaving`, `ended`.
From `ended` on the TCP server may have deleted it.  The other way out of `run` is an
exception from `poll` or `receiveBytes` after the client has reset the connection
(`Reset`, `Throws`): nothing catches it, `removeSession` is not called, and the
session is deleted all the same (`thrown`), while the table still lists it.  `call[a]` is the `callCallback`
that a handler or a thread of the application has begun: `found` (holds
`sessionsMutex`), `sending` and `sent` (holds `callbacksMutex` too).  A handler calls
back the session it serves, a thread of the application any handle that was given.
`wire[s]` is what was written to a client, in halves of frames, because `sendBytes`
of a large message is not atomic between two threads.  When a client closes, what
was written to it is forgotten.

Properties: `HandleIsOwn` (the table holds exactly the sessions between `addSession`
and `removeSession`, each under its own handle, and beside them, for good, those that
a reset has thrown out), `NoSendToEnded` (a callback goes through a session that is
inside `run`, or through one that a reset has thrown out and that may be deleted: the
one way to a deleted session), `TornOnlyByReply` (two
callbacks never mix on a connection; an answer and another thread's callback can),
`AnswersInOrder`, `EndsForAReason`, `EveryRequestEnds` (liveness).

### NymphCodec and Message

`NymphCodec` writes a value as a sequence of fields with widths: a typecode, an
integer, or the characters of a string.  A string is represented by its length and
a scalar by a small number; the content of the bytes is never looked at, but what
stands where, and how many there are, is.  `length` is what `bytes()` claims and
`serialize` what is written, two computations that the code makes apart from each
other.  `empty` is `emptyString`, which `setValue` never resets.  `Values` may be any
set of objects that were made by a constructor or `setValue` from objects of the set
(`ValuesBuilt`) and none of which is among its own elements (`ValuesNest`).  A value is
written by a recursive function over `Values` and read by one over positions:
`Reads(w)` is what `parseValue` finds at every position of the message `w`.

`Message` follows one exchange: a call with its answer, or a callback.  `out` is the
object being composed, `wire` the bytes, `obj` the object each side has parsed, with
its reference count, how often it and its response were deleted, and whether
`discard` has marked it.  The values of a parsed message point into its buffer;
deleting them gives references back, and the last one deletes the message
(`decrementReferenceCount`, `Destroy`).

Properties: `FitsBuffer` (what is written fits the buffer that was allocated),
`RoundTrip` (the receiver reads what was sent, with two exceptions that are named:
an object that was first set to the empty string and then to another, and a struct
with a key that is empty or no string), `ResultIsBacked` (the result a caller holds has its buffer, and
takes it away), `DoubleDeleteOnlyByDrop`, and one that the code does not have:
`AnswerDeletedOnce`.

## 3. The runs

| run | question | bounds |
|---|---|---|
| `RemoteCall_safety` | all safety properties, sending may fail | 2 threads, 2 connections, 3 cells, 3 message ids |
| `RemoteCall_contract` | contract and liveness, sends succeed | 2 threads, 1 connection, 2 cells, 3 ids |
| `Dispatcher` | where callbacks and workers are, the pool's contract and progress, with `stop` | 2 producers, 3 callbacks, 3 workers for a pool of 2 |
| `MethodTable_safety` | what holds under any registration and removal, on both sides, of unknown names too | 1 connection, 2 names, ids 0 to 3 |
| `MethodTable_sessions` | the inductive invariant, two connections at a time | 2 connections, 2 names, ids 0 to 2 |
| `Connection` | are deleted objects used, and is a connection taken down? | 2 connections, 1 disconnect by the user, `shutdown`, sockets that fail to shut down, closes and resets by the remote |
| `Callbacks` | which cycles of locks can user code close, and does everything else end? | 2 workers, 1 thread, 2 callbacks, 2 calls each, a close or reset |
| `ServerSession` | sessions, handlers and callbacks under the server's three locks | 2 sessions, 1 thread, 2 requests, 1 callback per thread and request, closes and resets by the clients |
| `Message` | buffers, round trip, deletions | up to 2 parameters out of 20 values, one exchange |
| `Dispatcher_stop` | does `stop` wait before it deletes? No | 2 producers, 2 callbacks, 2 workers |
| `MethodTable_gap` | does a call run the method that was named? No | 1 connection, 2 names, ids 0 to 3 |
| `Message_late` | is an answer deleted at most once? No | 1 parameter |

Why the bounds are enough.  The interesting meetings are between one listener and
two callers on one connection, or between callers on two connections that share
`listenersMutex` and the heap.  Callers through `callMethod` exclude each other by
`instancesMutex`, so two calls at once need a `sync`; with two threads and two
connections both combinations happen.  Three ids are two syncs and a later call on
a reused or leaked cell, or a sync and two calls in a row; the third call meets the
late answer of the first.  `Bounded` ends the model when ids or cells run out (a
leaked request keeps its cell); the code has no such limit.

In the dispatcher two workers are the smallest pool in which one can be idle while
the other works, and three callbacks are one more than the pool, so that one has to
queue; there is a third worker that could be made, so that a pool beyond `PoolSize`
would show.  In the method tables, an id means one thing to the server and another to a
client only after a gap or an alias; two names and three registrations give a
method, an alias of it and a method behind both, and each can be removed.  Two
connections are what a shared handle, or a table entry under another's handle,
needs; each may be closed by both ends and by `shutdown`.  Two locks make a cycle
with two threads; the run has four that take them (two workers, the user, the
listener).  Two sessions, of which one may handle a request while a thread sends to
either, are the smallest server on which a send can meet an answer, a session that
ends, or another send.  Of the values, there is one of every type but the integers
of equal width, strings of every class of length, and arrays and structs that are
empty, hold scalars, strings, or an array.

Deadlock is checked in the passing runs of `MethodTable`, where a connection can
always be opened, used or closed.  It is not checked in the others: the model stops
when the bound is reached, when no thread calls, when an exchange is over, and, in
`Callbacks`, in the cycle of locks that the code has.  That nobody else is stuck in
the middle is what the liveness properties and `StuckOnlyByEmbrace` say.

Symmetry is used in two runs that check invariants only (`RemoteCall_safety`,
`MethodTable_sessions`), for sets whose elements appear in no other constant.

### Fairness

Threads that can run do run: weak fairness of each caller's steps inside a call, of
each listener thread, of each worker (in `Callbacks` only of one that has a
request), of each producer inside `addRequest`, of each
session, of a `connect`, a `shutdown` or a `callCallback` that has begun.  This is
what an operating system's scheduler and its mutexes give.  A wait or a poll with a
time-out ends (`TimeOut`, `WaitOver`, `WaitTimesOut`, `PollTimeOut`).  User code and
handlers are assumed to return, unless they wait for a lock.  Nothing is asked of
the remote side: it may never answer and never close.  Nobody has to start a call,
submit a callback, disconnect, or stop the pool or the server.  Weak fairness is
enough for a thread that waits for a mutex: the other threads' library calls are
finite in number in each model, so in the end the mutex stays free.  In the program
a mutex that others take for ever can starve a waiter; Poco promises no order.

### What the violated runs show

1. `Dispatcher_stop`: `stop` deletes workers that still run (`dispatcher.cpp:49`).
2. `MethodTable_gap`: after the server has removed a method, a client that connects
   counts the rest from 1 (`remote_server.cpp:186`; the comparison of the ids is
   commented out at 144-147) and sends ids that mean other methods.  Connections
   made before are not affected: that is `ExactTableRunsNamed`.
3. `Message_late`: an answer that comes after its caller has given up (`TimeOut`, then
   `Receive` and `DropLate` on the client) is deleted with a plain `delete`
   (`nymph_socket_listener.cpp:165`).  If it holds a string, an array or a struct,
   deleting that value gives back the last reference and deletes the message again.
   `AnswerDeletedOnce` looks at answers only; a callback that nobody has registered is
   dropped in the same way (`callback_request.cpp:31`).  `DoubleDeleteOnlyByDrop` shows
   that `discard` and a caller who deletes its result never do this.

Other things the code does that its user may not expect, which need no run of their
own because they are in a named exception of a property that holds, or are visible
in one action:

* `callMethodId` does not initialise the exception flag (`remote_server.cpp:280-283`)
  that it reads at line 306.  `RemoteCall_contract` runs with the other two entry
  points.
* A failed send leaves the entry in the listener's table and the request locked on
  the heap (`nymph_method.cpp:187,194`, `remote_server.cpp:230`).  `NoDanglingEntry`
  and `DeliveryToOpenCall`, which hold all the same, show why this is only a leak: the
  request is never deleted, and its id is never used again.
* A callback can be left in the queue with an idle worker (`dispatcher.cpp:95,121`).
  `QueueIsDrained` shows that the next callback frees it.
* The reply to `nymphsync` is copied from a static string after the mutex was
  released (`remote_client.cpp:88`): see `Torn` in `MethodTable`.
* Two calls of `connect` at a time may share a handle; a remote that closes during
  `connect`, a socket that fails to shut down, and a `shutdown` beside a disconnect
  lead to the use of a deleted object (`MisuseHasItsCause`).  `sync` for one sends on
  a socket that the listener may have deleted after a disconnect that succeeded
  (`remote_server.cpp:97`, `nymph_socket_listener.cpp:212`).
* A reset by the remote ends the client's listener thread by an exception
  (`nymph_socket_listener.cpp:60`): the user is not told and the instance stays in the
  table (`Abandoned`).  On the server it ends the session (`nymph_session.cpp:70`),
  which is deleted while it is listed, so that the next callback to its handle uses
  it (`NoSendToEnded`).
* A disconnect whose shutdown fails returns with the instance still in the table,
  though its listener was stopped (`remote_server.cpp:586`; `lost` in `Callbacks`).
* A callback that calls a method, and a disconnect callback that changes the
  registration of a callback, can wait for each other for ever (`Embrace`).
* A client that connects before `start` has set `running` is cut off
  (`nymph_server.cpp:94`; `EndsForAReason`), and a callback from another thread can
  tear an answer apart (`nymph_session.cpp:220`; `TornOnlyByReply`).
* A `NymphType` that was set to the empty string and then to another is not read as
  it was written (`nymph_types.cpp:260`), nor is a struct with a key that is empty or
  no string (`nymph_types.cpp:492`).

## 4. What is proved

`RemoteCallProofs` proves, with `ConstantsAssumption` as the only assumption (the
thread, connection and cell sets are disjoint where the code uses them in one
place, `MaxId` is a natural number), for sets of any size:

* `Inductive`: `Spec => []IInv`
* `AnswersReachOpenCalls`: `Spec => []DeliveryToOpenCall`
* `NoEntryDangles`: `Spec => []NoDanglingEntry`
* `NoWakeupIsLost`: `Spec => []NoLostWakeup`
* `TypesHold`: `Spec => []TypeOK`

The argument.  `DeliveryToOpenCall` is not inductive: that the request the listener
found is still its caller's rests on what happened since the message was composed.
`IInv` adds, in the order of a call's life: an open call owns a live request and an
id of its own (`OwnRequest`), which no entry and no message on the wire has had
before (`EntryKnown`, `SentIds`); an entry under an open call's id is its own
(`EntryById`), and its request is entered nowhere else (`EntryOfCall`); an entry
whose message went out belongs to an open call that has not passed
`removeMessage` (`EntryOfSent`), which excludes the entries that failed sends
leave; while the listener works on an entry it holds `messagesMutex`
(`ListenerHolds`), so `removeMessage` waits; and the caller holds its request's
mutex until it is queued (`CallerHolds`), so nothing is delivered before.  Each
action has a lemma that it preserves `IInv`; steps of one kind share a lemma
(`OutOfCall`, `Advance`, `Move`, `CallersFrame`, `WireFrame`).

`RpcContractProofs` goes on from there, with the same assumption:

* `AnswersInductive`: `Spec => []AInv`
* `CallbacksComeFirst`: `Spec => []CallbackBeforeReturn`
* `EntriesAreAwaited`: `Spec => []EntryIsAwaited`, if sends do not fail
* `ContractRefinement`: `Spec => ContractSpec`, if `callMethodId` is not called

The two hypotheses are what the code needs: a failed send leaves its entry, and
`callMethodId` reads a flag it did not set (both are listed in section 3).  The
argument: `AInv` follows an answer from the session to its caller.  A message is on
its way to the session at one place at most and is not answered before it arrives
(`AnsweredOnce`); what is on the wire back, and in the listener's hands, is what was
answered (`FramesAreAnswers`); a callback that the dispatcher does not have yet is on
the wire ahead of the answer (`CallbackAhead`); and what a signalled caller finds in
its request is the answer to its own id (`OutcomeIsAnswer`), because the request was
delivered to an open call (`DeliveryToOpenCall`, from `IInv`).  In the refinement
`Compose` is the contract's `Issue`, `SessionAnswer` its `Answer`, `ReturnAnswer` its
`ReturnValue` or `ReturnException`, `ReturnTimeout` its `GiveUp`; `MethodNotFound`,
`ArgumentMismatch` and `SendFails` are its `Refuse`; all other steps stutter.

`DispatcherProofs` proves, with `PoolAssumption` as the only assumption (the pool is
no larger than the set of workers, which is finite, and `None` is nobody), for any
number of producers, callbacks and workers, with and without `stop`:

* `PoolInductive`: `Spec => []IInv`
* `NoneLostNoneTwice`: `Spec => []InOnePlace`
* `QueuedWorkersAreIdle`: `Spec => []IdleQueue`
* `SlotsAreKept`: `Spec => SlotKept`, an action property
* `PoolRefinement`: `Spec => PoolSpec`
* `TypesHold`: `Spec => []TypeOK`

The argument.  `InOnePlace` counts places, which no step can be followed through;
`IInv` says instead that whatever is in the pool was submitted (`OnlySubmitted`),
that what was submitted is somewhere (`Somewhere`), that no two producers, positions
or workers have the same (`Once`) and that no two kinds of places do (`Apart`).
That an assignment does not overwrite another rests on the idle queue: all workers in
it are at rest (`Resting`), but for the front one, which is given its request before
it is taken off.  Its producer keeps `workersMutex` for that time (`ProducerSteps`),
so nobody else looks at the queue.  A worker comes back to the queue when it has
finished, and there it waits with `ready` false, whatever `stop` does to it
(`Readiness`).  No more callbacks run than the pool has workers, because no more
workers are ever made (`Created`).  In the refinement `Submit`, `TakeRequest` and
`Finish` are `WorkPool`'s `Submit`, `Start` and `End`.

`MethodTableProofs` proves, with `TableAssumption` as the only assumption on the
constants (`MaxId` is a natural number, the names that are removed are names, the
marks `None`, `Garbage` and "nymphsync" are not ids or names of the application):

* `TablesInductive`: `Spec => []IInv`
* `ExactTablesAreSafe`: `Spec => []ExactTableRunsNamed`
* `NoGapNoDangling`: `Spec => []DanglingLeavesGap`
* `NamesResolve`: `Spec => []MethodsResolve`, if no unknown name is ever removed

The argument.  What was registered under an id never changes (`Numbering`), though
the tables forget; so a list, however old or torn, has at each id what was
registered under it, nothing, or garbage (`Lists`).  While a client parses a list
without gaps, the number it gives next is the id it has come to (`ClientNumbers`),
so that its objects are the server's under the same ids (`ExactTable`), and so is
the id in a request (`ExactRequest`).  When the request is handled, the server has
that very object under the id, or nothing (`ServerTables`: the entry under an own id
goes with the object, and ids are not given twice).

`ServerSessionProofs` proves, with the module's assumptions on the constants alone
(the bounds are naturals, the sets of names are disjoint), for any number of sessions
and threads:

* `SessionsInductive`: `Spec => []IInv`
* `HandlesAreOwn`: `Spec => []HandleIsOwn`
* `NoSessionUsedAfterItsEnd`: `Spec => []NoSendToEnded`
* `WiresInductive`: `Spec => []WInv`
* `CallbacksNeverMix`: `Spec => []TornOnlyByReply`
* `RequestsAnsweredInOrder`: `Spec => []AnswersInOrder`
* `SessionsEndForAReason`: `Spec => []EndsForAReason`
* `TypesHold`: `Spec => []TypeOK`

The argument.  Handles are given once, in order, and every session that has one is
below the counter (`Handles`); the table holds exactly the sessions that are inside
`run` or that an exception has thrown out, each under its own handle (`Table`); a
`callCallback` that has found its session owns `sessionsMutex` until it returns
(`Calls`).  A session ends through `removeSession`, which needs that mutex, or by an
exception, which passes the mutex and the table by and needs a reset (`reset`, never
cleared).  So the session a callback is sent through is still listed, and is inside
`run` unless its client has reset the connection.  `EndsForAReason` needs that a reset
connection counts as closed (`ResetCloses`) and that `running` follows the server
(`Running`).

What is written to a client needs `WInv` besides.  A frame that stands open at the end
of a connection is that of the session, which is about to write the second half of
its answer, or of the one `callCallback` that is at work there (`Open`;
`callbacksMutex` makes it one).  So a half that does not belong to the last one is an
answer's after a callback's, or the other way round.  No answer has the number of the
request at work, before that is answered (`Answered`), so the next one is later than
all that were written.

`CallbacksProofs` proves, again with the module's assumptions alone, for any number of
workers and threads:

* `LocksInductive`: `Spec => []IInv`
* `RemovedNeverRuns`: `Spec => []NoRunAfterRemove`
* `OneCycle`: `Spec => []StuckOnlyByEmbrace`
* `TypesHold`: `Spec => []TypeOK`

The argument.  The owner of each lock is tied to what that thread is doing:
`callbacksMutex` is the running callback's (`CallbackOwner`), `instancesMutex` that of
the thread inside `callMethod` or `disconnect` (`InstanceOwner`).  A worker calls the
library from a callback only, and nobody changes the registry inside a remote call or
while waiting for one (`Nesting`).  So of two owners that wait for each other's lock,
the owner of `callbacksMutex` is a worker in a callback, and the owner of
`instancesMutex`, as it wants to change the registry, is in the disconnect callback.

`ConnectionProofs` proves, with the module's assumption that its bounds have their
types, for any number of connections and calls of `disconnect`, with and without
`shutdown`, sockets that fail to shut down and resets:

* `ConnectionInductive`: `Spec => []IInv`
* `HandlesAreOwn`: `Spec => []HandleIsOwn`
* `UserIsToldOnce`: `Spec => []ToldOnce`
* `MisusesHaveTheirCauses`: `Spec => []MisuseHasItsCause`
* `TypesHold`: `Spec => []TypeOK`

The argument.  Once two calls of `connect` have overlapped, nothing but types holds,
and the properties claim nothing.  Until then one `connect` is between its reads of
`lastHandle` at a time, so all three get the same number, which nobody else has
(`Handles`).  The table of instances has the live ones under their handles
(`InstanceTable`), and that of the listeners only those whose connection still
stands, but for a listener that ended before `connect` entered it (`ListenerTable`,
`early`).  From this follow the order in which the objects of a connection go
(`Ends`) and who tells the user (`Telling`): whoever takes the instance out of the
table.  `shutdown` advances through the listeners, and those it has not stopped yet
are at its iterator or after it (`Iteration`); it begins with the table's least key
(`LeastIs`), so when it has come to the end none is left.  A thread that a reset has
ended took nothing down, so its objects are all there until the user disconnects
(`Abandoned`), and sync's instance and socket go only with a listener that ended
before `connect` did (`early`).

`MessageProofs` proves, with the assumptions of `NymphCodec` and `Message` (how values
are built and nested, the bounds are naturals, `None` is no value), for any set of
values, nested to any depth:

* `EveryObjectFits`: what an object writes is no longer than what it claims
* `ObjectsAreRead`: where an object was written, it is read as what it stands for
* `ExchangeInductive`: `Spec => []IInv`
* `FramesFitTheirBuffers`: `Spec => []FitsBuffer`
* `MessagesArriveAsSent`: `Spec => []RoundTrip`
* `HeldResultsAreBacked`: `Spec => []ResultIsBacked`
* `OnlyDroppedOnesAreDeletedTwice`: `Spec => []DoubleDeleteOnlyByDrop`

The argument has three parts.  `EveryObjectFits` says of each value that it is written in
no more bytes than `bytes()` claims.  It is an induction over data: `ValuesNest` gives
a value that does not fit though all of its elements do, and there is none, whatever
its type.  The definitions it is about are recursive functions, and a recursive
function is only known to satisfy its equation when one exists that does; that is
shown first, for sums over sequences by induction on the naturals, which is stated
for sets of naturals (`AllNaturals`), and for `serialize` over the nesting of values
(`MeaningExists`).  `IInv` then says that the length of a message being composed is the
sum of what its values claim (`Composed`), and follows the parsed message: until it is
answered or dropped nothing of it was deleted, and it has one reference for each value
that is linked with it (`Lives`, `Fresh`); in an answer that was handed to the caller
the only reference is that of the response (`Handed`).

The third part is that the reader undoes what the writer did.  What an object writes
stands somewhere in the message (`Stands`); it is to be shown that `parseValue` finds
the object's content there and comes out behind it (`Right`).  An array or a struct is
read through the reads at later positions, so the induction goes from the last
position down to the first (`Known`, `KnownFromHere`), and at each one the object says
what follows: a string or a scalar (`StringRead`, `ScalarRead`), as many elements as
the count (`ArrayRead`), pairs up to the terminator (`StructRead`), which no element
begins with (`FirstField`).  That the reads exist at all, as a function of the message
alone, needs a second such induction (`ReadsExist`): in the bytes of a message the
format carries, every typecode of an array or a struct begins an object (`Nested`), so
no position is read through itself.  From this follow the content of a reply
(`ReplyParsed`) and of a call or a callback (`CallParsed`).  `RInv` adds to `IInv` that
the message of a callback is marked as one (`CallbackMarked`), and that a message which
has just been parsed is the one that was sent; only `Receive` leads there.

Only model-checked: the liveness properties (liveness under fairness, and what needs
ENABLED, is out of the prover's reach): `EveryCallReturns`, `ListenerComesBack`,
`AssignedRuns`, `QueueIsDrained`, `CloseTakesDown`, `EverythingEnds`,
`EveryRequestEnds`.

## 5. What is not modelled

* The loops by which both readers collect a header and a body from pieces of the
  byte stream: a message arrives whole, or is rejected whole.  Nor the wrong
  protocol version and wrong signature apart from any other invalid header.  A reset
  in the middle of a message ends the reading thread as a reset between two does.
* A write that puts only part of a message on the socket, other than on a connection
  that is closed (`SendRest`, `ReplyFails`): the code takes a short count for a
  failure, but leaves the part on the wire.
* The characters of the list that `nymphsync` returns; `MethodTable` keeps which
  methods it names under which ids, and what a torn one can say.  `Torn` mixes whole
  entries of two lists and bytes that do not parse; the data race at
  `remote_client.cpp:88` is one of bytes, and could also pair one entry's id with
  another's name.
* Two equal keys in one struct, of which the reader keeps one (`nymph_types.cpp:504`):
  the keys of a struct are taken as distinct.
* Binding the server's port and its retries; `start` begins when connections are
  accepted.  `init` on either side beyond the initial state it sets up.
* Strings of 4 GB and more, values of type `NYMPH_NULL` and `NYMPH_ANY`, objects made
  without a value, and a handler of a method without a return value that sets no
  result (`callCallback` reads through a null pointer).
* Memory leaks, except where a leaked object is met again.
* A compiler or processor that reorders the stores of `setRequest`, and what a
  program does after it has used a deleted object.
* The order in which two workers come to run two callbacks: nothing promises one.
* The logger (wording only), the Ada port (separate and partial), the tests, the
  benchmarks and the build files.

## 6. Plan

Modelled: `RemoteCall`, `RpcContract`, `Dispatcher`, `WorkPool`, `MethodTable`,
`Connection`, `ServerSession`, `Callbacks`, `NymphCodec` and `Message`.  Proved: both
refinements, and every safety property of the passing runs.  What is left is `Framing`,
the loops of the two readers against the byte stream: the one part of the control that
is not modelled.
