------------------------------ MODULE Callbacks ------------------------------
(***************************************************************************)
(* Callbacks on the client, and the two locks user code can meet in:       *)
(* callbacksMutex is locked while the user's callback runs on a worker     *)
(* (NymphListener::callCallback), instancesMutex for the whole of a remote *)
(* call and while the user's disconnect callback runs                      *)
(* (NymphRemoteServer::callMethod, disconnect).  Both are recursive.  User *)
(* code in a callback may call the library again.  One connection, one     *)
(* name; the Dispatcher is abstracted to a set of requests (see WorkPool). *)
(***************************************************************************)
EXTENDS Naturals, FiniteSets

CONSTANTS
    Workers, Users,     \* threads of the dispatcher, and of the application
    Listener,           \* the thread of the connection
    MaxCallbacks,       \* bound: callbacks the server sends
    MaxCalls,           \* bound: library calls of a user, or of the callbacks on a worker
    None

ASSUME BoundsAreNat == MaxCallbacks \in Nat /\ MaxCalls \in Nat
ASSUME Distinct == /\ Workers \cap Users = {}
                   /\ Listener \notin Workers \cup Users
                   /\ None \notin Workers \cup Users \cup {Listener}

Actors == Workers \cup Users \cup {Listener}

VARIABLES
    callbacksMutex, instancesMutex,     \* their owners
    registered,     \* the name is in NymphListener::callbacks
    connected,      \* the instance is in NymphRemoteServer::instances
    listening,      \* the listener reads the socket
    closing,        \* the remote has closed or reset, or the listener was told to stop
    lost,           \* a disconnect has failed, or a reset has ended the listener's thread
    arrived,        \* callbacks the listener has read
    pending,        \* callback requests no worker has taken
    worker,         \* "idle", "ready" (has a request) or "running" the callback
    erased,         \* the worker's callback has removed itself
    api,            \* where an actor is in callMethod or disconnect
    want,           \* the registration an actor is waiting to make
    left            \* library calls an actor may still make

vars == <<callbacksMutex, instancesMutex, registered, connected, listening, closing,
          lost, arrived, pending, worker, erased, api, want, left>>

Init ==
    /\ callbacksMutex = None /\ instancesMutex = None
    /\ registered = TRUE /\ connected = TRUE
    /\ listening = TRUE /\ closing = FALSE /\ lost = FALSE
    /\ arrived = 0 /\ pending = {}
    /\ worker = [w \in Workers |-> "idle"] /\ erased = [w \in Workers |-> FALSE]
    /\ api = [a \in Actors |-> "none"] /\ want = [a \in Actors |-> "none"]
    /\ left = [a \in Actors |-> MaxCalls]

Free(mutex, a) == mutex \in {None, a}

\* User code runs on its own thread, in a callback, or in the disconnect callback.
InUserCode(a) ==
    /\ want[a] = "none"
    /\ \/ a \in Users /\ api[a] = "none"
       \/ a \in Workers /\ worker[a] = "running" /\ api[a] = "none"
       \/ api[a] = "disconnecting"

-----------------------------------------------------------------------------
\* The listener hands every callback to the dispatcher.
Arrive ==
    /\ listening /\ ~closing /\ arrived < MaxCallbacks
    /\ arrived' = arrived + 1
    /\ pending' = pending \cup {arrived + 1}
    /\ UNCHANGED <<callbacksMutex, instancesMutex, registered, connected, listening,
                   closing, worker, erased, api, want, left, lost>>

Take(w) ==
    /\ worker[w] = "idle"
    /\ \E r \in pending : pending' = pending \ {r}
    /\ worker' = [worker EXCEPT ![w] = "ready"]
    /\ UNCHANGED <<callbacksMutex, instancesMutex, registered, connected, listening,
                   closing, arrived, erased, api, want, left, lost>>

\* Mutant of CallCallback: the function runs without the lock.
CallCallbackUnlocked(w) ==
    /\ worker[w] = "ready" /\ Free(callbacksMutex, w)
    /\ worker' = [worker EXCEPT ![w] = IF registered THEN "running" ELSE "idle"]
    /\ UNCHANGED <<callbacksMutex, instancesMutex, registered, connected, listening,
                   closing, arrived, pending, erased, api, want, left, lost>>

\* NymphListener::callCallback: with the lock, the user's function is called; an
\* unknown name is given up and its message deleted (CallbackRequest::process).
CallCallback(w) ==
    /\ worker[w] = "ready" /\ Free(callbacksMutex, w)
    /\ IF registered
       THEN /\ worker' = [worker EXCEPT ![w] = "running"]
            /\ callbacksMutex' = w
       ELSE /\ worker' = [worker EXCEPT ![w] = "idle"]
            /\ UNCHANGED callbacksMutex
    /\ UNCHANGED <<instancesMutex, registered, connected, listening, closing, arrived,
                   pending, erased, api, want, left, lost>>

\* The function has no library call of its own open.
CallbackReturns(w) ==
    /\ worker[w] = "running" /\ api[w] = "none" /\ want[w] = "none"
    /\ worker' = [worker EXCEPT ![w] = "idle"]
    /\ erased' = [erased EXCEPT ![w] = FALSE]
    /\ callbacksMutex' = None
    /\ UNCHANGED <<instancesMutex, registered, connected, listening, closing, arrived,
                   pending, api, want, left, lost>>

-----------------------------------------------------------------------------
\* registerCallback and removeCallback: the caller waits for the lock.

WantRegistry(a, op) ==
    /\ InUserCode(a) /\ left[a] > 0
    /\ want' = [want EXCEPT ![a] = op]
    /\ left' = [left EXCEPT ![a] = @ - 1]
    /\ UNCHANGED <<callbacksMutex, instancesMutex, registered, connected, listening,
                   closing, arrived, pending, worker, erased, api, lost>>

\* Mutant of ChangeRegistry: a missing unlock.
ChangeRegistryKeepsLock(a) ==
    /\ want[a] # "none" /\ Free(callbacksMutex, a)
    /\ registered' = (want[a] = "register")
    /\ want' = [want EXCEPT ![a] = "none"]
    /\ erased' = IF a \in Workers /\ worker[a] = "running" /\ want[a] = "remove"
                 THEN [erased EXCEPT ![a] = TRUE] ELSE erased
    /\ callbacksMutex' = a
    /\ UNCHANGED <<instancesMutex, connected, listening, closing, arrived,
                   pending, worker, api, left, lost>>

\* A worker that removes the callback it is running erases the function it is in.
ChangeRegistry(a) ==
    /\ want[a] # "none" /\ Free(callbacksMutex, a)
    /\ registered' = (want[a] = "register")
    /\ want' = [want EXCEPT ![a] = "none"]
    /\ erased' = IF a \in Workers /\ worker[a] = "running" /\ want[a] = "remove"
                 THEN [erased EXCEPT ![a] = TRUE] ELSE erased
    /\ UNCHANGED <<callbacksMutex, instancesMutex, connected, listening, closing, arrived,
                   pending, worker, api, left, lost>>

-----------------------------------------------------------------------------
\* callMethod and disconnect: the caller waits for instancesMutex.

WantInstance(a, op) ==
    /\ InUserCode(a) /\ api[a] = "none" /\ left[a] > 0
    /\ api' = [api EXCEPT ![a] = op]
    /\ left' = [left EXCEPT ![a] = @ - 1]
    /\ UNCHANGED <<callbacksMutex, instancesMutex, registered, connected, listening,
                   closing, arrived, pending, worker, erased, want, lost>>

\* With the handle in the table the lock stays locked; without it the call is over.
FindInstance(a, wanted, next) ==
    /\ api[a] = wanted /\ Free(instancesMutex, a)
    /\ IF connected
       THEN /\ api' = [api EXCEPT ![a] = next]
            /\ instancesMutex' = a
       ELSE /\ api' = [api EXCEPT ![a] = "none"]
            /\ UNCHANGED instancesMutex
    /\ UNCHANGED <<callbacksMutex, registered, connected, closing, arrived, pending,
                   worker, erased, want, left, lost>>

CallMethod(a) == FindInstance(a, "wantCall", "calling") /\ UNCHANGED listening
StartDisconnect(a) == FindInstance(a, "wantDisconnect", "disconnecting") /\ UNCHANGED listening

Leave(a) ==
    /\ api' = [api EXCEPT ![a] = "none"]
    /\ instancesMutex' = None

\* Mutant of CallEnds: a missing unlock.
CallEndsKeepsLock(a) ==
    /\ api[a] = "calling"
    /\ api' = [api EXCEPT ![a] = "none"]
    /\ UNCHANGED <<callbacksMutex, instancesMutex, registered, connected, listening,
                   closing, arrived, pending, worker, erased, want, left, lost>>

\* Mutant of CallEnds: the wait has no time-out.
CallEndsByAnswer(a) ==
    /\ api[a] = "calling" /\ listening /\ ~closing
    /\ Leave(a)
    /\ UNCHANGED <<callbacksMutex, registered, connected, listening, closing, arrived,
                   pending, worker, erased, want, left, lost>>

\* The answer comes as long as the listener reads, or the caller gives up.
CallEnds(a) ==
    /\ api[a] = "calling"
    /\ Leave(a)
    /\ UNCHANGED <<callbacksMutex, registered, connected, listening, closing, arrived,
                   pending, worker, erased, want, left, lost>>

\* The disconnect callback has returned: the listener is told to stop and the
\* instance is deleted; or the shutdown before the callback has failed (decided here),
\* on a connection that was closed or reset already, and the instance stays in the table.
EndDisconnect(a) ==
    /\ api[a] = "disconnecting" /\ want[a] = "none"
    /\ Leave(a)
    /\ closing' = TRUE
    /\ \/ connected' = FALSE /\ UNCHANGED lost
       \/ closing /\ lost' = TRUE /\ UNCHANGED connected
    /\ UNCHANGED <<callbacksMutex, registered, listening, arrived, pending, worker,
                   erased, want, left>>

RemoteCloses ==
    /\ ~closing /\ closing' = TRUE
    /\ UNCHANGED <<callbacksMutex, instancesMutex, registered, connected, listening,
                   arrived, pending, worker, erased, api, want, left, lost>>

\* The listener leaves its loop and disconnects the handle itself.
ListenerLeaves ==
    /\ listening /\ closing
    /\ listening' = FALSE
    /\ api' = [api EXCEPT ![Listener] = "wantDisconnect"]
    /\ UNCHANGED <<callbacksMutex, instancesMutex, registered, connected, closing,
                   arrived, pending, worker, erased, want, left, lost>>

\* The remote resets the connection: poll or receiveBytes throws, which ends the
\* listener's thread without a disconnect.
ListenerDies ==
    /\ listening
    /\ listening' = FALSE /\ closing' = TRUE /\ lost' = TRUE
    /\ UNCHANGED <<callbacksMutex, instancesMutex, registered, connected, arrived, pending,
                   worker, erased, api, want, left>>

-----------------------------------------------------------------------------
\* What an actor does of itself once it has begun.
Proceed(a) ==
    \/ ChangeRegistry(a) \/ CallMethod(a) \/ CallEnds(a)
    \/ StartDisconnect(a) \/ EndDisconnect(a)

Worker(w) == Take(w) \/ CallCallback(w) \/ CallbackReturns(w)

Next ==
    \/ Arrive \/ RemoteCloses \/ ListenerLeaves \/ ListenerDies
    \/ \E w \in Workers : Worker(w)
    \/ \E a \in Actors :
           \/ \E op \in {"register", "remove"} : WantRegistry(a, op)
           \/ \E op \in {"wantCall", "wantDisconnect"} : WantInstance(a, op)
           \/ Proceed(a)

\* Threads are scheduled and get a lock that stays free, user code returns and a call
\* times out.  Nothing makes the application call or the remote close, and nothing an
\* idle worker take a request: the dispatcher may leave it queued beside idle workers
\* until the next one comes (Dispatcher).
Fairness ==
    /\ WF_vars(ListenerLeaves)
    /\ \A w \in Workers : WF_vars(CallCallback(w) \/ CallbackReturns(w))
    /\ \A a \in Actors : WF_vars(Proceed(a))

Spec == Init /\ [][Next]_vars /\ Fairness

-----------------------------------------------------------------------------
\* The locks, the workers and the calls under way have their types; callbacksMutex is
\* kept over a step only by a worker that runs a callback (callCallback).
TypeOK ==
    /\ callbacksMutex \in Workers \cup {None} /\ instancesMutex \in Actors \cup {None}
    /\ pending \subseteq 1 .. arrived /\ arrived \in 0 .. MaxCallbacks
    /\ \A w \in Workers : worker[w] \in {"idle", "ready", "running"}
    /\ \A a \in Actors : /\ api[a] \in {"none", "wantCall", "calling", "wantDisconnect",
                                        "disconnecting"}
                         /\ want[a] \in {"none", "register", "remove"}
                         /\ left[a] \in 0 .. MaxCalls

\* A callback runs only while it is registered, unless it has removed itself: when
\* removeCallback has returned to another thread, the function runs no more and its
\* data may be freed.  Likewise no two callbacks run at a time.
NoRunAfterRemove ==
    /\ \A w \in Workers : worker[w] = "running" => registered \/ erased[w]
    /\ Cardinality({w \in Workers : worker[w] = "running"}) <= 1

\* The one deadlock: a callback waits for instancesMutex, whose owner is in the
\* disconnect callback and waits for callbacksMutex to change the registration.
Embrace ==
    \E w \in Workers, a \in Actors :
        /\ callbacksMutex = w /\ instancesMutex = a /\ a # w
        /\ api[w] \in {"wantCall", "wantDisconnect"}
        /\ api[a] = "disconnecting" /\ want[a] # "none"

\* A thread waits for a lock only while somebody who holds it can go on, but for
\* that one cycle.
Blocked(a) ==
    \/ want[a] # "none" /\ ~Free(callbacksMutex, a)
    \/ api[a] \in {"wantCall", "wantDisconnect"} /\ ~Free(instancesMutex, a)
    \/ a \in Workers /\ worker[a] = "ready" /\ ~Free(callbacksMutex, a)

StuckOnlyByEmbrace ==
    (callbacksMutex # None /\ Blocked(callbacksMutex)
        /\ instancesMutex # None /\ Blocked(instancesMutex)) => Embrace

\* Everything that was begun ends, or the threads are stuck in that cycle: every
\* callback a worker has taken, every call of the application, and a connection the
\* remote has closed is taken down, unless its shutdown failed or a reset has ended the
\* listener's thread.  Whether a request is taken from the queue is not promised.
EverythingEnds ==
    []<>(\/ Embrace
         \/ /\ \A w \in Workers : worker[w] = "idle"
            /\ \A a \in Actors : api[a] = "none" /\ want[a] = "none"
            /\ closing => ~connected \/ lost)
=============================================================================
