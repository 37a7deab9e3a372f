--------------------------- MODULE CallbacksProofs ---------------------------
(***************************************************************************)
(* Proofs about Callbacks, for any number of workers, threads, callbacks   *)
(* and calls: a callback runs only while it is registered, and two locks   *)
(* close a cycle in one way only.                                          *)
(*                                                                         *)
(* IInv is inductive: it ties the owner of each lock to what that thread   *)
(* is doing.                                                               *)
(***************************************************************************)
EXTENDS Callbacks, FiniteSetTheorems, TLAPS

WorkerPlaces == {"idle", "ready", "running"}
ApiPlaces    == {"none", "wantCall", "calling", "wantDisconnect", "disconnecting"}
Wishes       == {"none", "register", "remove"}

Types ==
    /\ arrived \in 0 .. MaxCallbacks /\ pending \subseteq 1 .. arrived
    /\ worker \in [Workers -> WorkerPlaces] /\ erased \in [Workers -> BOOLEAN]
    /\ api \in [Actors -> ApiPlaces] /\ want \in [Actors -> Wishes]
    /\ left \in [Actors -> 0 .. MaxCalls]
    /\ callbacksMutex \in Workers \cup {None} /\ instancesMutex \in Actors \cup {None}

\* callbacksMutex belongs to the worker whose callback runs...
CallbackOwner == \A w \in Workers : worker[w] = "running" <=> callbacksMutex = w

\* ... and instancesMutex to the thread inside callMethod or disconnect.
InstanceOwner ==
    \A a \in Actors : api[a] \in {"calling", "disconnecting"} <=> instancesMutex = a

\* A worker makes calls from a callback only, and nobody changes the registry inside
\* a remote call or while waiting for one.
Nesting ==
    /\ \A w \in Workers : api[w] # "none" \/ want[w] # "none" => worker[w] = "running"
    /\ \A a \in Actors : want[a] # "none" => api[a] \in {"none", "disconnecting"}

RunsRegistered == \A w \in Workers : worker[w] = "running" => registered \/ erased[w]

\* The listener calls nothing while it reads.
Reading == listening => api[Listener] = "none" /\ want[Listener] = "none"

IInv == Types /\ CallbackOwner /\ InstanceOwner /\ Nesting /\ RunsRegistered /\ Reading
-----------------------------------------------------------------------------
LEMMA Initially == Init => IInv
BY Distinct, BoundsAreNat
DEF Init, IInv, Types, CallbackOwner, InstanceOwner, Nesting, RunsRegistered, Reading,
    Actors, WorkerPlaces, ApiPlaces, Wishes

\* A step that touches neither locks, workers, calls nor the registry.
LEMMA Elsewhere ==
  ASSUME IInv, UNCHANGED <<callbacksMutex, instancesMutex, registered, listening, worker,
                           erased, api, want>>
  PROVE  CallbackOwner' /\ InstanceOwner' /\ Nesting' /\ RunsRegistered' /\ Reading'
BY DEF IInv, CallbackOwner, InstanceOwner, Nesting, RunsRegistered, Reading

LEMMA ArriveStep ==
  ASSUME IInv, Arrive
  PROVE  IInv'
<1>1. Types'
  <2>1. arrived \in Nat /\ arrived' = arrived + 1 /\ arrived' \in 0 .. MaxCallbacks
    BY BoundsAreNat DEF Arrive, IInv, Types
  <2>2. pending' \subseteq 1 .. arrived'
    <3>1. pending \subseteq 1 .. arrived /\ pending' = pending \cup {arrived + 1}
      BY DEF Arrive, IInv, Types
    <3> QED BY <2>1, <3>1
  <2> QED BY <2>1, <2>2 DEF Arrive, IInv, Types
<1> QED BY <1>1, Elsewhere DEF Arrive, IInv

LEMMA RemoteClosesStep ==
  ASSUME IInv, RemoteCloses
  PROVE  IInv'
<1>1. Types'
  BY DEF RemoteCloses, IInv, Types
<1> QED BY <1>1, Elsewhere DEF RemoteCloses, IInv

LEMMA ListenerDiesStep ==
  ASSUME IInv, ListenerDies
  PROVE  IInv'
<1>1. /\ listening' = FALSE
      /\ UNCHANGED <<callbacksMutex, instancesMutex, registered, worker, erased, api, want>>
  BY DEF ListenerDies
<1>2. Types'
  BY DEF ListenerDies, IInv, Types
<1>3. CallbackOwner' /\ InstanceOwner' /\ Nesting' /\ RunsRegistered' /\ Reading'
  BY <1>1 DEF IInv, CallbackOwner, InstanceOwner, Nesting, RunsRegistered, Reading
<1> QED BY <1>2, <1>3 DEF IInv

LEMMA ListenerLeavesStep ==
  ASSUME IInv, ListenerLeaves
  PROVE  IInv'
<1>1. /\ api' = [api EXCEPT ![Listener] = "wantDisconnect"]
      /\ UNCHANGED <<callbacksMutex, instancesMutex, registered, worker, erased, want>>
  BY DEF ListenerLeaves
<1>2. Listener \in Actors /\ Listener \notin Workers
  BY Distinct DEF Actors
<1>3. Types'
  BY <1>1 DEF ListenerLeaves, IInv, Types, ApiPlaces
<1>4. /\ api'[Listener] = "wantDisconnect"
      /\ \A a \in Actors \ {Listener} : api'[a] = api[a]
  BY <1>1, <1>2 DEF IInv, Types
<1>5. CallbackOwner' /\ RunsRegistered' /\ Reading'
  BY <1>1 DEF ListenerLeaves, IInv, CallbackOwner, RunsRegistered, Reading
<1>6. InstanceOwner'
  BY <1>1, <1>2, <1>4 DEF ListenerLeaves, IInv, InstanceOwner, Reading
<1>7. Nesting'
  BY <1>1, <1>2, <1>4 DEF ListenerLeaves, IInv, Nesting, Reading
<1> QED BY <1>3, <1>5, <1>6, <1>7 DEF IInv
-----------------------------------------------------------------------------
\* The workers.

LEMMA TakeStep ==
  ASSUME IInv, NEW w \in Workers, Take(w)
  PROVE  IInv'
<1>1. /\ worker[w] = "idle" /\ worker' = [worker EXCEPT ![w] = "ready"]
      /\ UNCHANGED <<callbacksMutex, instancesMutex, registered, listening, erased, api, want>>
  BY DEF Take
<1>2. /\ worker' \in [Workers -> WorkerPlaces]
      /\ \A v \in Workers : worker'[v] = "running" <=> worker[v] = "running"
  BY <1>1 DEF IInv, Types, WorkerPlaces
<1>3. Types'
  BY <1>2 DEF Take, IInv, Types
<1>4. CallbackOwner' /\ InstanceOwner' /\ Nesting' /\ RunsRegistered' /\ Reading'
  BY <1>1, <1>2 DEF IInv, CallbackOwner, InstanceOwner, Nesting, RunsRegistered, Reading
<1> QED BY <1>3, <1>4 DEF IInv

\* The lock is free, so no callback runs and the name is looked up undisturbed.
LEMMA CallCallbackStep ==
  ASSUME IInv, NEW w \in Workers, CallCallback(w)
  PROVE  IInv'
<1>1. /\ worker[w] = "ready" /\ Free(callbacksMutex, w)
      /\ UNCHANGED <<instancesMutex, registered, listening, arrived, pending, erased, api,
                     want, left>>
  BY DEF CallCallback
<1>2. callbacksMutex = None /\ \A v \in Workers : worker[v] # "running"
  BY <1>1, Distinct DEF IInv, CallbackOwner, Free
<1>3. api[w] = "none" /\ want[w] = "none"
  BY <1>1 DEF IInv, Nesting
<1>4. CASE registered
  <2>1. worker' = [worker EXCEPT ![w] = "running"] /\ callbacksMutex' = w
    BY <1>4 DEF CallCallback
  <2>2. /\ worker' \in [Workers -> WorkerPlaces] /\ worker'[w] = "running"
        /\ \A v \in Workers \ {w} : worker'[v] = worker[v]
    BY <2>1 DEF IInv, Types, WorkerPlaces
  <2>3. Types'
    BY <1>1, <2>1, <2>2 DEF IInv, Types
  <2>4. CallbackOwner' /\ RunsRegistered'
    BY <1>1, <1>2, <1>4, <2>1, <2>2 DEF CallbackOwner, RunsRegistered
  <2>5. InstanceOwner' /\ Nesting' /\ Reading'
    BY <1>1, <2>2 DEF IInv, InstanceOwner, Nesting, Reading
  <2> QED BY <2>3, <2>4, <2>5 DEF IInv
<1>5. CASE ~registered
  <2>1. worker' = [worker EXCEPT ![w] = "idle"] /\ callbacksMutex' = callbacksMutex
    BY <1>5 DEF CallCallback
  <2>2. /\ worker' \in [Workers -> WorkerPlaces]
        /\ \A v \in Workers : worker'[v] = "running" <=> worker[v] = "running"
    BY <1>1, <2>1 DEF IInv, Types, WorkerPlaces
  <2>3. Types'
    BY <1>1, <2>1, <2>2 DEF IInv, Types
  <2>4. CallbackOwner' /\ InstanceOwner' /\ Nesting' /\ RunsRegistered' /\ Reading'
    BY <1>1, <2>1, <2>2 DEF IInv, CallbackOwner, InstanceOwner, Nesting, RunsRegistered, Reading
  <2> QED BY <2>3, <2>4 DEF IInv
<1> QED BY <1>4, <1>5

LEMMA CallbackReturnsStep ==
  ASSUME IInv, NEW w \in Workers, CallbackReturns(w)
  PROVE  IInv'
<1>1. /\ worker[w] = "running" /\ api[w] = "none" /\ want[w] = "none"
      /\ worker' = [worker EXCEPT ![w] = "idle"] /\ erased' = [erased EXCEPT ![w] = FALSE]
      /\ callbacksMutex' = None
      /\ UNCHANGED <<instancesMutex, registered, listening, arrived, pending, api, want, left>>
  BY DEF CallbackReturns
<1>2. worker' \in [Workers -> WorkerPlaces] /\ erased' \in [Workers -> BOOLEAN]
  BY <1>1 DEF IInv, Types, WorkerPlaces
<1>3. worker'[w] = "idle" /\ \A v \in Workers \ {w} : worker'[v] = worker[v]
  BY <1>1 DEF IInv, Types
<1>4. callbacksMutex = w /\ \A v \in Workers : worker'[v] # "running"
  BY <1>1, <1>3 DEF IInv, CallbackOwner
<1>5. Types'
  BY <1>1, <1>2 DEF IInv, Types
<1>6. CallbackOwner' /\ RunsRegistered'
  BY <1>1, <1>4, Distinct DEF CallbackOwner, RunsRegistered
<1>7. InstanceOwner' /\ Nesting' /\ Reading'
  BY <1>1, <1>3 DEF IInv, InstanceOwner, Nesting, Reading
<1> QED BY <1>5, <1>6, <1>7 DEF IInv

-----------------------------------------------------------------------------
\* The registry.

LEMMA WantRegistryStep ==
  ASSUME IInv, NEW a \in Actors, NEW op \in {"register", "remove"}, WantRegistry(a, op)
  PROVE  IInv'
<1>1. /\ InUserCode(a) /\ left[a] > 0
      /\ want' = [want EXCEPT ![a] = op] /\ left' = [left EXCEPT ![a] = @ - 1]
      /\ UNCHANGED <<callbacksMutex, instancesMutex, registered, listening, arrived, pending,
                     worker, erased, api>>
  BY DEF WantRegistry
<1>2. /\ want' \in [Actors -> Wishes] /\ want'[a] = op
      /\ \A b \in Actors \ {a} : want'[b] = want[b]
  BY <1>1 DEF IInv, Types, Wishes
<1>3. left' \in [Actors -> 0 .. MaxCalls]
  BY <1>1, BoundsAreNat DEF IInv, Types
<1>4. Types'
  BY <1>1, <1>2, <1>3 DEF IInv, Types
<1>5. CallbackOwner' /\ InstanceOwner' /\ RunsRegistered'
  BY <1>1 DEF IInv, CallbackOwner, InstanceOwner, RunsRegistered
<1>6. api[a] \in {"none", "disconnecting"} /\ (a \in Workers => worker[a] = "running")
  BY <1>1, Distinct DEF InUserCode, IInv, Nesting
<1>7. Nesting'
  BY <1>1, <1>2, <1>6 DEF IInv, Nesting, Actors
<1>8. Reading'
  BY <1>1, <1>2, Distinct DEF InUserCode, IInv, Reading, Actors
<1> QED BY <1>4, <1>5, <1>7, <1>8 DEF IInv

\* The lock is free or the actor's own: only its own callback can be running.
LEMMA ChangeRegistryStep ==
  ASSUME IInv, NEW a \in Actors, ChangeRegistry(a)
  PROVE  IInv'
<1>1. /\ want[a] # "none" /\ Free(callbacksMutex, a)
      /\ registered' = (want[a] = "register") /\ want' = [want EXCEPT ![a] = "none"]
      /\ erased' = IF a \in Workers /\ worker[a] = "running" /\ want[a] = "remove"
                   THEN [erased EXCEPT ![a] = TRUE] ELSE erased
      /\ UNCHANGED <<callbacksMutex, instancesMutex, listening, arrived, pending, worker,
                     api, left>>
  BY DEF ChangeRegistry
<1>2. /\ want' \in [Actors -> Wishes] /\ want'[a] = "none"
      /\ \A b \in Actors \ {a} : want'[b] = want[b]
  BY <1>1 DEF IInv, Types, Wishes
<1>3. erased' \in [Workers -> BOOLEAN]
  <2>1. CASE a \in Workers /\ worker[a] = "running" /\ want[a] = "remove"
    BY <1>1, <2>1 DEF IInv, Types
  <2>2. CASE ~(a \in Workers /\ worker[a] = "running" /\ want[a] = "remove")
    BY <1>1, <2>2 DEF IInv, Types
  <2> QED BY <2>1, <2>2
<1>4. Types'
  BY <1>1, <1>2, <1>3 DEF IInv, Types
<1>5. CallbackOwner' /\ InstanceOwner'
  BY <1>1 DEF IInv, CallbackOwner, InstanceOwner
<1>6. Nesting' /\ Reading'
  <2>1. Nesting'
    BY <1>1, <1>2 DEF IInv, Nesting, Actors
  <2>2. Reading'
    BY <1>1, <1>2, Distinct DEF IInv, Reading, Actors
  <2> QED BY <2>1, <2>2
<1>7. RunsRegistered'
  <2> SUFFICES ASSUME NEW w \in Workers, worker[w] = "running", want[a] # "register"
               PROVE  erased'[w]
    BY <1>1 DEF RunsRegistered
  <2>1. w = a
    BY <1>1, Distinct DEF IInv, CallbackOwner, Free
  <2>2. want[a] = "remove"
    BY <1>1 DEF IInv, Types, Wishes
  <2> QED BY <1>1, <2>1, <2>2 DEF IInv, Types
<1> QED BY <1>4, <1>5, <1>6, <1>7 DEF IInv
-----------------------------------------------------------------------------
\* callMethod and disconnect.

LEMMA WantInstanceStep ==
  ASSUME IInv, NEW a \in Actors, NEW op \in {"wantCall", "wantDisconnect"},
         WantInstance(a, op)
  PROVE  IInv'
<1>1. /\ InUserCode(a) /\ api[a] = "none" /\ left[a] > 0
      /\ api' = [api EXCEPT ![a] = op] /\ left' = [left EXCEPT ![a] = @ - 1]
      /\ UNCHANGED <<callbacksMutex, instancesMutex, registered, listening, arrived, pending,
                     worker, erased, want>>
  BY DEF WantInstance
<1>2. /\ api' \in [Actors -> ApiPlaces] /\ api'[a] = op
      /\ \A b \in Actors \ {a} : api'[b] = api[b]
  BY <1>1 DEF IInv, Types, ApiPlaces
<1>3. left' \in [Actors -> 0 .. MaxCalls]
  BY <1>1, BoundsAreNat DEF IInv, Types
<1>4. Types'
  BY <1>1, <1>2, <1>3 DEF IInv, Types
<1>5. CallbackOwner' /\ RunsRegistered'
  BY <1>1 DEF IInv, CallbackOwner, RunsRegistered
<1>6. InstanceOwner'
  BY <1>1, <1>2 DEF IInv, InstanceOwner
<1>7. want[a] = "none" /\ a # Listener /\ (a \in Workers => worker[a] = "running")
  BY <1>1, Distinct DEF InUserCode
<1>8. Nesting' /\ Reading'
  <2>1. Nesting'
    BY <1>1, <1>2, <1>7 DEF IInv, Nesting, Actors
  <2>2. Reading'
    BY <1>1, <1>2, <1>7 DEF IInv, Reading, Actors
  <2> QED BY <2>1, <2>2
<1> QED BY <1>4, <1>5, <1>6, <1>8 DEF IInv

\* The lock is free: nobody else is in a call.
LEMMA FindInstanceStep ==
  ASSUME IInv, NEW a \in Actors, CallMethod(a) \/ StartDisconnect(a)
  PROVE  IInv'
<1>1. PICK next \in {"calling", "disconnecting"} :
          FindInstance(a, api[a], next) /\ api[a] \in {"wantCall", "wantDisconnect"}
  BY DEF CallMethod, StartDisconnect, FindInstance
<1>2. /\ Free(instancesMutex, a)
      /\ UNCHANGED <<callbacksMutex, registered, listening, arrived, pending, worker,
                     erased, want, left>>
  BY <1>1 DEF FindInstance, CallMethod, StartDisconnect
<1>3. instancesMutex = None /\ \A b \in Actors : api[b] \notin {"calling", "disconnecting"}
  BY <1>1, <1>2, Distinct DEF IInv, InstanceOwner, Free, Actors
<1>4. want[a] = "none" /\ (a \in Workers => worker[a] = "running")
  BY <1>1 DEF IInv, Nesting
<1>5. PICK p \in {"none", next} : api' = [api EXCEPT ![a] = p]
  BY <1>1 DEF FindInstance
<1>6. /\ api' \in [Actors -> ApiPlaces] /\ api'[a] = p
      /\ \A b \in Actors \ {a} : api'[b] = api[b]
  BY <1>5 DEF IInv, Types, ApiPlaces
<1>7. instancesMutex' = IF connected THEN a ELSE None
  BY <1>1, <1>3 DEF FindInstance
<1>8. Types'
  BY <1>2, <1>6, <1>7 DEF IInv, Types
<1>9. CallbackOwner' /\ RunsRegistered'
  BY <1>2 DEF IInv, CallbackOwner, RunsRegistered
<1>10. InstanceOwner'
  <2>1. CASE connected
    <3>1. api'[a] = next
      BY <1>1, <1>6, <2>1 DEF FindInstance, IInv, Types
    <3> QED BY <1>1, <1>3, <1>6, <1>7, <2>1, <3>1 DEF InstanceOwner
  <2>2. CASE ~connected
    <3>1. api'[a] = "none"
      BY <1>1, <1>6, <2>2 DEF FindInstance, IInv, Types
    <3> QED BY <1>3, <1>6, <1>7, <2>2, <3>1, Distinct DEF InstanceOwner, Actors
  <2> QED BY <2>1, <2>2
<1>11. Nesting'
  BY <1>2, <1>4, <1>6 DEF IInv, Nesting, Actors
<1>12. Reading'
  BY <1>1, <1>2, <1>6 DEF IInv, Reading, Actors
<1> QED BY <1>8, <1>9, <1>10, <1>11, <1>12 DEF IInv

LEMMA LeavingStep ==
  ASSUME IInv, NEW a \in Actors, CallEnds(a) \/ EndDisconnect(a)
  PROVE  IInv'
<1>1. /\ api[a] \in {"calling", "disconnecting"} /\ want[a] = "none"
      /\ api' = [api EXCEPT ![a] = "none"] /\ instancesMutex' = None
      /\ UNCHANGED <<callbacksMutex, registered, listening, arrived, pending, worker,
                     erased, want, left>>
  BY DEF CallEnds, EndDisconnect, Leave, IInv, Nesting, Types, Wishes
<1>2. /\ api' \in [Actors -> ApiPlaces] /\ api'[a] = "none"
      /\ \A b \in Actors \ {a} : api'[b] = api[b]
  BY <1>1 DEF IInv, Types, ApiPlaces
<1>3. Types'
  BY <1>1, <1>2 DEF IInv, Types
<1>4. CallbackOwner' /\ RunsRegistered'
  BY <1>1 DEF IInv, CallbackOwner, RunsRegistered
<1>5. InstanceOwner'
  BY <1>1, <1>2, Distinct DEF IInv, InstanceOwner, Actors
<1>6. Nesting' /\ Reading'
  <2>1. Nesting'
    BY <1>1, <1>2 DEF IInv, Nesting, Actors
  <2>2. Reading'
    BY <1>1, <1>2 DEF IInv, Reading, Actors
  <2> QED BY <2>1, <2>2
<1> QED BY <1>3, <1>4, <1>5, <1>6 DEF IInv

-----------------------------------------------------------------------------
LEMMA Stutter ==
  ASSUME IInv, UNCHANGED vars
  PROVE  IInv'
<1>1. Types'
  BY DEF IInv, Types, vars
<1> QED BY <1>1, Elsewhere DEF IInv, vars

\* Every step of the workers, the listener and the threads that call the library
\* (NymphListener, NymphRemoteServer) preserves the invariant.
LEMMA EveryStep ==
  ASSUME IInv, [Next]_vars
  PROVE  IInv'
<1>1. CASE Arrive \/ RemoteCloses \/ ListenerLeaves \/ ListenerDies
  BY <1>1, ArriveStep, RemoteClosesStep, ListenerLeavesStep, ListenerDiesStep
<1>2. CASE \E w \in Workers : Worker(w)
  BY <1>2, TakeStep, CallCallbackStep, CallbackReturnsStep DEF Worker
<1>3. CASE \E a \in Actors : \E op \in {"register", "remove"} : WantRegistry(a, op)
  BY <1>3, WantRegistryStep
<1>4. CASE \E a \in Actors : \E op \in {"wantCall", "wantDisconnect"} : WantInstance(a, op)
  BY <1>4, WantInstanceStep
<1>5. CASE \E a \in Actors : Proceed(a)
  BY <1>5, ChangeRegistryStep, FindInstanceStep, LeavingStep DEF Proceed
<1>6. CASE UNCHANGED vars
  BY <1>6, Stutter
<1> QED BY <1>1, <1>2, <1>3, <1>4, <1>5, <1>6 DEF Next

\* In every reachable state each lock belongs to the thread whose callback or call
\* took it (callCallback, callMethod, disconnect), and no other.
THEOREM LocksInductive == Spec => []IInv
<1>1. Init => IInv
  BY Initially
<1>2. IInv /\ [Next]_vars => IInv'
  BY EveryStep
<1> QED BY <1>1, <1>2, PTL DEF Spec

\* When removeCallback has returned to another thread, the function does not run, and
\* no two callbacks run at a time (callCallback).
THEOREM RemovedNeverRuns == Spec => []NoRunAfterRemove
<1>1. IInv => NoRunAfterRemove
  <2> SUFFICES ASSUME IInv PROVE NoRunAfterRemove
    OBVIOUS
  <2> DEFINE R == {w \in Workers : worker[w] = "running"}
  <2>1. R \subseteq {callbacksMutex}
    BY DEF IInv, CallbackOwner
  <2>2. IsFiniteSet({callbacksMutex}) /\ Cardinality({callbacksMutex}) = 1
    BY FS_Singleton
  <2>3. Cardinality(R) <= 1
    BY <2>1, <2>2, FS_Subset
  <2> QED BY <2>3 DEF IInv, RunsRegistered, NoRunAfterRemove
<1> QED BY <1>1, LocksInductive, PTL

\* However many threads call the library from callbacks (callMethod, disconnect,
\* registerCallback, removeCallback), the two locks close one shape of cycle only.
THEOREM OneCycle == Spec => []StuckOnlyByEmbrace
<1>1. IInv => StuckOnlyByEmbrace
  <2> SUFFICES ASSUME IInv, callbacksMutex # None, Blocked(callbacksMutex),
                      instancesMutex # None, Blocked(instancesMutex)
               PROVE  Embrace
    BY DEF StuckOnlyByEmbrace
  <2> DEFINE w == callbacksMutex
             a == instancesMutex
  <2>1. w \in Workers /\ worker[w] = "running" /\ a \in Actors
    BY DEF IInv, Types, CallbackOwner
  <2>2. api[w] \in {"wantCall", "wantDisconnect"} /\ a # w
    BY <2>1 DEF Blocked, Free
  <2>3. api[a] \in {"calling", "disconnecting"}
    BY <2>1 DEF IInv, InstanceOwner
  <2>4. want[a] # "none"
    BY <2>1, <2>3, Distinct DEF Blocked, IInv, Nesting
  <2>5. api[a] = "disconnecting"
    BY <2>1, <2>3, <2>4 DEF IInv, Nesting
  <2> QED BY <2>1, <2>2, <2>4, <2>5 DEF Embrace
<1> QED BY <1>1, LocksInductive, PTL

\* The locks, workers and calls have their types (callCallback, callMethod, disconnect).
THEOREM TypesHold == Spec => []TypeOK
<1>1. IInv => TypeOK
  BY DEF IInv, Types, TypeOK, WorkerPlaces, ApiPlaces, Wishes
<1> QED BY <1>1, LocksInductive, PTL
=============================================================================
