--------------------------- MODULE DispatcherProofs ---------------------------
(***************************************************************************)
(* Proofs about Dispatcher, for any number of producers, callbacks and     *)
(* workers, with or without stop: the types, that a callback is always in  *)
(* one place, what the idle queue holds, that no assignment overwrites     *)
(* another, and that the pool implements WorkPool.                         *)
(*                                                                         *)
(* IInv is inductive.  One lemma per action shows that the action          *)
(* preserves its parts: the idle queue and the workers (Pool parts), and   *)
(* where the callbacks are (Places parts).                                 *)
(***************************************************************************)
EXTENDS Dispatcher, FiniteSetTheorems, TLAPS

\* A producer has a request in its hand until it is assigned or queued, and
\* workersMutex while it hands one to the front of the idle queue.
ProducerSteps ==
    /\ \A p \in Producers : preq[p] # None <=> ppc[p] \in {"add", "push"}
    /\ \A p \in Producers : workersMutex = p <=> ppc[p] = "notify"
    /\ workersMutex # None => workers # <<>>

\* A worker is ready only while it looks for its request, and runs only requests.
Readiness ==
    /\ \A w \in Workers : ready[w] => wpc[w] \in {"loop", "check", "wait", "waiting", "exited"}
    /\ \A w \in Workers : Busy(w) => request[w] \in Requests
    /\ \A w \in Workers : wpc[w] = "finish" => request[w] # None

\* Worker w is idle, or was told to stop when it was.
Rests(w) ==
    /\ ~ ready[w]
    /\ \/ wpc[w] \in {"check", "wait", "waiting"}
       \/ ~ running[w] /\ wpc[w] \in {"loop", "exited"}

\* The idle queue holds workers at rest, each once; the front one may be at work
\* already while its producer holds workersMutex.
Resting ==
    /\ \A j, k \in 1..Len(workers) : workers[j] = workers[k] => j = k
    /\ \A k \in 1..Len(workers) : (workersMutex # None /\ k = 1) \/ Rests(workers[k])

\* The workers that exist are those that were created, no more than the pool has.
Created ==
    /\ Len(allWorkers) <= PoolSize
    /\ Cardinality({w \in Workers : wpc[w] # "none"}) = Len(allWorkers)
    /\ spc.at = "delete" => spc.i \in 1..Len(allWorkers)
    /\ spc.at \in {"stop", "delete", "join"} => spc.i >= 1

\* A request that is anywhere in the pool was submitted...
OnlySubmitted ==
    /\ \A p \in Producers : preq[p] # None => preq[p] \in submitted
    /\ \A k \in 1..Len(requests) : requests[k] \in submitted
    /\ \A w \in Workers : Busy(w) => request[w] \in submitted
    /\ finished \subseteq submitted

\* ... each that was submitted is somewhere...
Somewhere ==
    \A r \in submitted :
        \/ \E p \in Producers : preq[p] = r
        \/ \E k \in 1..Len(requests) : requests[k] = r
        \/ \E w \in Workers : Busy(w) /\ request[w] = r
        \/ r \in finished

\* ... no two producers, positions or workers have the same...
Once ==
    /\ \A p, q \in Producers : preq[p] # None /\ preq[p] = preq[q] => p = q
    /\ \A j, k \in 1..Len(requests) : requests[j] = requests[k] => j = k
    /\ \A v, w \in Workers : Busy(v) /\ Busy(w) /\ request[v] = request[w] => v = w

\* ... and it is with one of a producer, the queue, a worker, or done.
Apart ==
    /\ \A p \in Producers, k \in 1..Len(requests) : preq[p] # requests[k]
    /\ \A p \in Producers, w \in Workers : Busy(w) => preq[p] # request[w]
    /\ \A k \in 1..Len(requests), w \in Workers : Busy(w) => requests[k] # request[w]
    /\ \A p \in Producers : preq[p] \notin finished
    /\ \A k \in 1..Len(requests) : requests[k] \notin finished
    /\ \A w \in Workers : Busy(w) => request[w] \notin finished

IInv == /\ TypeOK /\ ProducerSteps /\ Readiness /\ Resting /\ Created
        /\ OnlySubmitted /\ Somewhere /\ Once /\ Apart
-----------------------------------------------------------------------------
Kept == OnlySubmitted /\ Somewhere /\ Once /\ Apart

\* A step that moves no request from its place.
LEMMA NothingMoves ==
  ASSUME IInv, UNCHANGED <<preq, submitted, requests, request, finished>>,
         \A w \in Workers : Busy(w)' <=> Busy(w)
  PROVE  Kept'
BY DEF IInv, Kept, OnlySubmitted, Somewhere, Once, Apart

\* No worker is created, and stop goes nowhere.
LEMMA NoneCreated ==
  ASSUME IInv, UNCHANGED <<allWorkers, spc>>, wpc' \in [Workers -> WorkerSteps],
         \A w \in Workers : wpc'[w] = "none" <=> wpc[w] = "none"
  PROVE  Created'
<1>1. {w \in Workers : wpc'[w] # "none"} = {w \in Workers : wpc[w] # "none"}
  OBVIOUS
<1> QED BY <1>1 DEF IInv, Created

LEMMA Initially == Init => IInv
<1> SUFFICES ASSUME Init PROVE IInv
  OBVIOUS
<1>1. TypeOK
  BY PoolAssumption DEF Init, TypeOK, WorkerSteps
<1>2. ProducerSteps /\ Readiness /\ Resting
  BY PoolAssumption DEF Init, ProducerSteps, Readiness, Resting, Busy
<1>3. Created
  <2>1. {w \in Workers : wpc[w] # "none"} = {}
    BY DEF Init
  <2>2. Cardinality({w \in Workers : wpc[w] # "none"}) = 0
    BY <2>1, FS_EmptySet
  <2>3. Len(allWorkers) = 0 /\ spc.at = "idle"
    BY DEF Init
  <2> QED BY <2>2, <2>3, PoolAssumption DEF Created
<1>4. OnlySubmitted /\ Somewhere /\ Once /\ Apart
  BY DEF Init, OnlySubmitted, Somewhere, Once, Apart, Busy
<1> QED BY <1>1, <1>2, <1>3, <1>4 DEF IInv
-----------------------------------------------------------------------------
\* The producers.

\* A request that was never submitted is nowhere.
LEMMA SubmitStep ==
  ASSUME IInv, NEW p \in Producers, Submit(p)
  PROVE  IInv'
<1>1. PICK r \in Requests \ submitted :
         preq' = [preq EXCEPT ![p] = r] /\ submitted' = submitted \cup {r}
  BY DEF Submit
<1>2. /\ ppc[p] = "idle" /\ ppc' = [ppc EXCEPT ![p] = "add"]
      /\ UNCHANGED <<poolVars, workerVars, jobVars, stopVars>>
  BY DEF Submit, PGoto
<1>3. TypeOK'
  BY <1>1, <1>2 DEF IInv, TypeOK, poolVars, workerVars, jobVars, stopVars
<1>4. ProducerSteps'
  BY <1>1, <1>2, PoolAssumption DEF IInv, TypeOK, ProducerSteps, poolVars
<1>5. Readiness' /\ Resting' /\ Created'
  BY <1>2 DEF IInv, Readiness, Resting, Rests, Created, Busy, poolVars, workerVars, stopVars
<1>6. preq[p] = None /\ preq'[p] = r /\ \A q \in Producers \ {p} : preq'[q] = preq[q]
  BY <1>1, <1>2 DEF IInv, TypeOK, ProducerSteps
<1>7. OnlySubmitted'
  BY <1>1, <1>2, <1>6 DEF IInv, OnlySubmitted, Busy, poolVars, workerVars, jobVars
<1>8. Somewhere'
  <2>1. \A q \in Producers : preq[q] # None => preq'[q] = preq[q]
    BY <1>6
  <2>2. \A x \in submitted : x # None
    BY PoolAssumption DEF IInv, TypeOK
  <2>3. UNCHANGED <<requests, request, ready, wpc, finished>>
    BY <1>2 DEF poolVars, workerVars, jobVars
  <2>4. \A w \in Workers : Busy(w)' <=> Busy(w)
    BY <2>3 DEF Busy
  <2> QED BY <1>1, <1>6, <2>1, <2>2, <2>3, <2>4 DEF IInv, Somewhere
<1>9. Once' /\ Apart'
  BY <1>1, <1>2, <1>6 DEF IInv, OnlySubmitted, Once, Apart, Busy, poolVars, workerVars, jobVars
<1> QED BY <1>3, <1>4, <1>5, <1>7, <1>8, <1>9 DEF IInv

\* The front of the idle queue is at rest: its slot is free.
LEMMA FrontRests ==
  ASSUME IInv, workersMutex = None, workers # <<>>
  PROVE  /\ Head(workers) \in Workers /\ Head(workers) = workers[1] /\ 1 \in 1..Len(workers)
         /\ Rests(Head(workers)) /\ ~ Busy(Head(workers))
<1>1. Head(workers) \in Workers /\ Head(workers) = workers[1] /\ 1 \in 1..Len(workers)
  BY DEF IInv, TypeOK
<1> QED BY <1>1 DEF IInv, Resting, Rests, Busy

\* A request goes from producer p to a worker w that is not busy.
LEMMA Assigned ==
  ASSUME IInv, NEW p \in Producers, NEW w \in Workers, preq[p] # None, ~ Busy(w),
         preq' = [preq EXCEPT ![p] = None], SetRequest(w, preq[p]),
         \A v \in Workers \ {w} : Busy(v)' <=> Busy(v),
         UNCHANGED <<submitted, requests, finished>>
  PROVE  Kept'
<1>1. preq'[p] = None /\ \A q \in Producers \ {p} : preq'[q] = preq[q]
  BY DEF IInv, TypeOK
<1>2. /\ request'[w] = preq[p] /\ Busy(w)'
      /\ \A v \in Workers \ {w} : request'[v] = request[v]
  BY DEF IInv, TypeOK, SetRequest, Busy
<1>3. OnlySubmitted'
  BY <1>1, <1>2 DEF IInv, OnlySubmitted
<1>4. Somewhere'
  BY <1>1, <1>2 DEF IInv, Somewhere
<1>5. Once'
  BY <1>1, <1>2 DEF IInv, Once, Apart
<1>6. None \notin Requests /\ finished \subseteq Requests /\ \A k \in 1..Len(requests) : requests[k] \in Requests
  BY PoolAssumption DEF IInv, TypeOK
<1>7. Apart'
  <2>1. \A q \in Producers, k \in 1..Len(requests) : preq'[q] # requests[k]
    BY <1>1, <1>6 DEF IInv, Apart
  <2>2. ASSUME NEW q \in Producers, NEW v \in Workers, Busy(v)'
        PROVE  preq'[q] # request'[v]
    <3>1. CASE q = p
      BY <1>1, <1>2, <1>6, <2>2, <3>1 DEF IInv, Readiness
    <3>2. CASE q # p
      BY <1>1, <1>2, <2>2, <3>2 DEF IInv, Apart, Once
    <3> QED BY <3>1, <3>2
  <2>3. \A k \in 1..Len(requests), v \in Workers : Busy(v)' => requests[k] # request'[v]
    BY <1>1, <1>2 DEF IInv, Apart
  <2>4. \A q \in Producers : preq'[q] \notin finished
    BY <1>1, <1>6 DEF IInv, Apart
  <2>5. \A v \in Workers : Busy(v)' => request'[v] \notin finished
    BY <1>1, <1>2 DEF IInv, Apart
  <2> QED BY <2>1, <2>2, <2>3, <2>4, <2>5 DEF IInv, Apart
<1> QED BY <1>3, <1>4, <1>5, <1>7 DEF Kept

LEMMA AssignToIdleStep ==
  ASSUME IInv, NEW p \in Producers, AssignToIdle(p)
  PROVE  IInv'
<1> DEFINE w == Head(workers)
<1>1. /\ ppc[p] = "add" /\ workersMutex = None /\ workersMutex' = p /\ SetRequest(w, preq[p])
      /\ preq' = [preq EXCEPT ![p] = None] /\ ppc' = [ppc EXCEPT ![p] = "notify"]
      /\ workers # <<>>
      /\ UNCHANGED <<submitted, requests, workers, allWorkers, wpc, running, jobVars, stopVars>>
  BY DEF AssignToIdle, PGoto
<1>2. w \in Workers /\ w = workers[1] /\ 1 \in 1..Len(workers) /\ Rests(w) /\ ~ Busy(w)
  BY <1>1, FrontRests
<1> HIDE DEF w
<1>3. preq[p] # None /\ preq[p] \in Requests
  BY <1>1 DEF IInv, TypeOK, ProducerSteps
<1>4. /\ request'[w] = preq[p] /\ ready'[w] = TRUE
      /\ \A v \in Workers \ {w} : request'[v] = request[v] /\ ready'[v] = ready[v]
      /\ request' \in [Workers -> Requests \cup {None}] /\ ready' \in [Workers -> BOOLEAN]
  BY <1>1, <1>2, <1>3 DEF IInv, TypeOK, SetRequest
<1>5. TypeOK'
  BY <1>1, <1>4 DEF IInv, TypeOK, jobVars, stopVars
<1>6. ProducerSteps'
  BY <1>1, PoolAssumption DEF IInv, TypeOK, ProducerSteps
<1>7. Readiness'
  BY <1>1, <1>2, <1>3, <1>4 DEF IInv, Readiness, Rests, Busy
<1>8. Resting'
  BY <1>1, <1>2, <1>4, PoolAssumption DEF IInv, TypeOK, Resting, Rests
<1>9. Created'
  BY <1>1, NoneCreated DEF stopVars, IInv, TypeOK
<1>10. Kept'
  BY <1>1, <1>2, <1>3, <1>4, Assigned DEF Busy, jobVars
<1> QED BY <1>5, <1>6, <1>7, <1>8, <1>9, <1>10 DEF IInv, Kept

\* The worker that leaves the queue is the one that is no longer at rest.
LEMMA NotifyAndPopStep ==
  ASSUME IInv, NEW p \in Producers, NotifyAndPop(p)
  PROVE  IInv'
<1>1. /\ ppc[p] = "notify" /\ ppc' = [ppc EXCEPT ![p] = "idle"]
      /\ workers' = Tail(workers) /\ workersMutex' = None
      /\ UNCHANGED <<preq, submitted, requests, allWorkers, request, ready, running,
                     jobVars, stopVars>>
  BY DEF NotifyAndPop, PGoto
<1>2. workersMutex = p /\ workersMutex # None /\ workers # <<>>
  BY <1>1, PoolAssumption DEF IInv, ProducerSteps
<1>3. /\ wpc' \in [Workers -> WorkerSteps]
      /\ \A w \in Workers : \/ wpc'[w] = wpc[w]
                            \/ wpc[w] = "waiting" /\ wpc'[w] = "check"
  BY <1>2 DEF NotifyAndPop, IInv, TypeOK, WorkerSteps
<1>4. /\ workers' \in Seq(Workers) /\ Len(workers') = Len(workers) - 1
      /\ \A k \in 1..Len(workers') : workers'[k] = workers[k + 1]
  BY <1>1, <1>2 DEF IInv, TypeOK
<1>5. TypeOK'
  BY <1>1, <1>3, <1>4 DEF IInv, TypeOK, jobVars, stopVars
<1>6. ProducerSteps'
  BY <1>1, <1>2, PoolAssumption DEF IInv, TypeOK, ProducerSteps
<1>7. Readiness' /\ \A w \in Workers : Busy(w)' <=> Busy(w)
  BY <1>1, <1>3 DEF IInv, Readiness, Busy
<1>8. Resting'
  <2>1. ASSUME NEW j \in 1..Len(workers'), NEW k \in 1..Len(workers'), workers'[j] = workers'[k]
        PROVE  j = k
    <3>1. j + 1 \in 1..Len(workers) /\ k + 1 \in 1..Len(workers)
      BY <1>4 DEF IInv, TypeOK
    <3>2. j + 1 = k + 1
      BY <1>4, <2>1, <3>1 DEF IInv, Resting
    <3> QED BY <3>2
  <2>2. ASSUME NEW k \in 1..Len(workers')
        PROVE  Rests(workers[k])'
    <3>1. k + 1 \in 1..Len(workers) /\ k + 1 # 1 /\ workers[k + 1] \in Workers
      BY <1>4 DEF IInv, TypeOK
    <3>2. Rests(workers[k + 1])
      BY <3>1 DEF IInv, Resting
    <3> QED BY <1>1, <1>3, <1>4, <3>1, <3>2 DEF Rests
  <2> QED BY <2>1, <2>2 DEF Resting
<1>9. Created'
  BY <1>1, <1>3, NoneCreated DEF stopVars
<1>10. Kept'
  BY <1>1, <1>7, NothingMoves DEF jobVars
<1> QED BY <1>5, <1>6, <1>7, <1>8, <1>9, <1>10 DEF IInv, Kept

\* What is done with a deleted object changes nothing that the model follows.
LEMMA TouchStep ==
  ASSUME IInv, NEW w \in deleted, touched' = touched \cup {w},
         UNCHANGED <<producerVars, poolVars, workerVars, jobVars, spc, deleted>>
  PROVE  IInv'
<1> USE DEF producerVars, poolVars, workerVars, jobVars
<1>1. TypeOK'
  BY DEF IInv, TypeOK
<1>2. ProducerSteps' /\ Readiness' /\ Resting' /\ Created'
  BY DEF IInv, ProducerSteps, Readiness, Resting, Rests, Created, Busy
<1>3. Kept'
  BY NothingMoves DEF Busy
<1> QED BY <1>1, <1>2, <1>3 DEF IInv, Kept

\* A new worker comes with its first request; the pool is below its limit.
LEMMA CreateWorkerStep ==
  ASSUME IInv, NEW p \in Producers, CreateWorker(p)
  PROVE  IInv'
<1>1. PICK w \in Workers :
         /\ wpc[w] = "none" /\ SetRequest(w, preq[p])
         /\ running' = [running EXCEPT ![w] = TRUE] /\ wpc' = [wpc EXCEPT ![w] = "loop"]
         /\ allWorkers' = Append(allWorkers, w)
  BY DEF CreateWorker
<1>2. /\ ppc[p] = "add" /\ workersMutex = None /\ workers = <<>> /\ Len(allWorkers) < PoolSize
      /\ preq' = [preq EXCEPT ![p] = None] /\ ppc' = [ppc EXCEPT ![p] = "idle"]
      /\ UNCHANGED <<submitted, workersMutex, requests, workers, jobVars, stopVars>>
  BY DEF CreateWorker, PGoto
<1>3. preq[p] # None /\ preq[p] \in Requests
  BY <1>2 DEF IInv, TypeOK, ProducerSteps
<1>4. ~ Busy(w) /\ ~ ready[w]
  BY <1>1 DEF IInv, Readiness, Busy
<1>5. /\ request'[w] = preq[p] /\ ready'[w] = TRUE /\ wpc'[w] = "loop"
      /\ \A v \in Workers \ {w} :
            request'[v] = request[v] /\ ready'[v] = ready[v] /\ wpc'[v] = wpc[v]
      /\ request' \in [Workers -> Requests \cup {None}] /\ ready' \in [Workers -> BOOLEAN]
      /\ wpc' \in [Workers -> WorkerSteps] /\ running' \in [Workers -> BOOLEAN]
  BY <1>1, <1>3 DEF IInv, TypeOK, SetRequest, WorkerSteps
<1>6. allWorkers' \in Seq(Workers) /\ Len(allWorkers') = Len(allWorkers) + 1
  BY <1>1 DEF IInv, TypeOK
<1>7. TypeOK'
  BY <1>2, <1>5, <1>6 DEF IInv, TypeOK, jobVars, stopVars
<1>8. ProducerSteps'
  BY <1>2, PoolAssumption DEF IInv, TypeOK, ProducerSteps
<1>9. Readiness' /\ Resting'
  BY <1>2, <1>3, <1>5 DEF IInv, Readiness, Resting, Busy
<1>10. Created'
  <2> DEFINE S == {v \in Workers : wpc[v] # "none"}
  <2>1. {v \in Workers : wpc'[v] # "none"} = S \cup {w} /\ w \notin S
    BY <1>1, <1>5
  <2>2. IsFiniteSet(S)
    BY PoolAssumption, FS_Subset
  <2>3. Cardinality(S \cup {w}) = Cardinality(S) + 1
    BY <2>1, <2>2, FS_AddElement
  <2>4. Cardinality(S) = Len(allWorkers)
    BY DEF IInv, Created
  <2> HIDE DEF S
  <2>5. Cardinality({v \in Workers : wpc'[v] # "none"}) = Len(allWorkers')
    BY <1>6, <2>1, <2>3, <2>4
  <2>6. Len(allWorkers) \in Nat /\ Len(allWorkers') <= PoolSize
    BY <1>2, <1>6, PoolAssumption DEF IInv, TypeOK
  <2> QED BY <1>2, <1>6, <2>5, <2>6 DEF IInv, TypeOK, Created, stopVars
<1>11. \A v \in Workers \ {w} : Busy(v)' <=> Busy(v)
  BY <1>5 DEF Busy
<1>12. Kept'
  BY <1>1, <1>2, <1>3, <1>4, <1>11, Assigned DEF jobVars
<1> QED BY <1>7, <1>8, <1>9, <1>10, <1>12 DEF IInv, Kept

LEMMA FindNoWorkerStep ==
  ASSUME IInv, NEW p \in Producers, FindNoWorker(p)
  PROVE  IInv'
<1> USE DEF poolVars, workerVars, jobVars, stopVars
<1>1. /\ ppc[p] = "add" /\ ppc' = [ppc EXCEPT ![p] = "push"]
      /\ UNCHANGED <<preq, submitted, poolVars, workerVars, jobVars, stopVars>>
  BY DEF FindNoWorker, PGoto
<1>2. TypeOK'
  BY <1>1 DEF IInv, TypeOK
<1>3. ProducerSteps'
  BY <1>1 DEF IInv, TypeOK, ProducerSteps
<1>4. Readiness' /\ Resting' /\ Created'
  BY <1>1 DEF IInv, Readiness, Resting, Rests, Created, Busy
<1>5. Kept'
  BY <1>1, NothingMoves DEF Busy
<1> QED BY <1>2, <1>3, <1>4, <1>5 DEF IInv, Kept

\* The request goes from the producer to the end of the queue.
LEMMA PushRequestStep ==
  ASSUME IInv, NEW p \in Producers, PushRequest(p)
  PROVE  IInv'
<1>1. /\ ppc[p] = "push" /\ ppc' = [ppc EXCEPT ![p] = "idle"]
      /\ preq' = [preq EXCEPT ![p] = None] /\ requests' = Append(requests, preq[p])
      /\ UNCHANGED <<submitted, workersMutex, workers, allWorkers, workerVars, jobVars, stopVars>>
  BY DEF PushRequest, PGoto
<1>2. preq[p] # None /\ preq[p] \in Requests
  BY <1>1 DEF IInv, TypeOK, ProducerSteps
<1>3. preq'[p] = None /\ \A q \in Producers \ {p} : preq'[q] = preq[q]
  BY <1>1 DEF IInv, TypeOK
<1> DEFINE n == Len(requests)
<1>4. /\ requests' \in Seq(Requests) /\ Len(requests') = n + 1 /\ n \in Nat
      /\ requests'[n + 1] = preq[p] /\ \A k \in 1..n : requests'[k] = requests[k]
  BY <1>1, <1>2 DEF IInv, TypeOK
<1>5. TypeOK'
  BY <1>1, <1>4 DEF IInv, TypeOK, workerVars, jobVars, stopVars
<1>6. ProducerSteps'
  BY <1>1 DEF IInv, TypeOK, ProducerSteps
<1>7. Readiness' /\ Resting' /\ Created'
  BY <1>1 DEF IInv, Readiness, Resting, Rests, Created, Busy, workerVars, stopVars
<1>8. UNCHANGED <<submitted, request, finished>> /\ \A w \in Workers : Busy(w)' <=> Busy(w)
  BY <1>1 DEF Busy, workerVars, jobVars
<1>9. OnlySubmitted'
  BY <1>2, <1>3, <1>4, <1>8 DEF IInv, OnlySubmitted
<1>10. Somewhere'
  BY <1>3, <1>4, <1>8 DEF IInv, Somewhere
<1>11. Once'
  BY <1>2, <1>3, <1>4, <1>8 DEF IInv, Once, Apart
<1>12. Apart'
  <2>1. \A q \in Producers, k \in 1..n + 1 : preq'[q] # requests'[k]
    <3>1. \A k \in 1..n + 1 : requests'[k] # None
      BY <1>2, <1>4, PoolAssumption DEF IInv, TypeOK
    <3>2. \A q \in Producers \ {p} : preq[q] # preq[p]
      BY <1>2 DEF IInv, Once
    <3> QED BY <1>3, <1>4, <3>1, <3>2 DEF IInv, Apart
  <2>2. \A q \in Producers, w \in Workers : Busy(w)' => preq'[q] # request'[w]
    BY <1>3, <1>8, PoolAssumption DEF IInv, TypeOK, Apart, Readiness
  <2>3. \A k \in 1..n + 1, w \in Workers : Busy(w)' => requests'[k] # request'[w]
    BY <1>4, <1>8 DEF IInv, Apart
  <2>4. \A q \in Producers : preq'[q] \notin finished
    BY <1>3, PoolAssumption DEF IInv, TypeOK, Apart
  <2>5. \A k \in 1..n + 1 : requests'[k] \notin finished
    BY <1>4 DEF IInv, Apart
  <2> QED BY <1>4, <1>8, <2>1, <2>2, <2>3, <2>4, <2>5 DEF IInv, Apart
<1> QED BY <1>5, <1>6, <1>7, <1>9, <1>10, <1>11, <1>12 DEF IInv
-----------------------------------------------------------------------------
\* The workers.

\* A step of worker w after which it has the request it had, or has none.
LEMMA Round ==
  ASSUME IInv, NEW w \in Workers, NEW s \in WorkerSteps, wpc[w] # "none", s # "none",
         wpc' = [wpc EXCEPT ![w] = s],
         ready' \in [Workers -> BOOLEAN], \A v \in Workers \ {w} : ready'[v] = ready[v],
         ready'[w] => s \in {"loop", "check", "wait", "waiting", "exited"},
         Busy(w)' <=> Busy(w), Rests(w) => Rests(w)', s = "finish" => request[w] # None,
         processed' \in [Requests -> Nat],
         UNCHANGED <<producerVars, poolVars, request, running, finished, stopVars>>
  PROVE  IInv'
<1> USE DEF producerVars, poolVars, stopVars
<1>1. wpc'[w] = s /\ wpc' \in [Workers -> WorkerSteps] /\ \A v \in Workers \ {w} : wpc'[v] = wpc[v]
  BY DEF IInv, TypeOK
<1>2. TypeOK'
  BY <1>1 DEF IInv, TypeOK
<1>3. ProducerSteps'
  BY DEF IInv, ProducerSteps
<1>4. \A v \in Workers : Busy(v)' <=> Busy(v)
  BY <1>1 DEF Busy
<1>5. Readiness'
  BY <1>1, <1>4 DEF IInv, Readiness
<1>6. \A v \in Workers : Rests(v) => Rests(v)'
  BY <1>1 DEF Rests
<1>7. Resting'
  BY <1>6 DEF IInv, TypeOK, Resting
<1>8. Created'
  BY <1>1, NoneCreated
<1>9. Kept'
  BY <1>4, NothingMoves
<1> QED BY <1>2, <1>3, <1>5, <1>7, <1>8, <1>9 DEF IInv, Kept

LEMMA LoopExitStep == ASSUME IInv, NEW w \in Workers, LoopExit(w) PROVE IInv'
<1>1. /\ wpc[w] = "loop" /\ ~ running[w] /\ wpc' = [wpc EXCEPT ![w] = "exited"]
      /\ UNCHANGED <<producerVars, poolVars, request, ready, running, jobVars, stopVars>>
  BY DEF LoopExit, At, WGoto
<1>2. wpc'[w] = "exited"
  BY <1>1 DEF IInv, TypeOK
<1> QED BY <1>1, <1>2, Round DEF IInv, TypeOK, Busy, Rests, WorkerSteps, jobVars

LEMMA TakeRequestStep == ASSUME IInv, NEW w \in Workers, TakeRequest(w) PROVE IInv'
<1>1. /\ wpc[w] = "loop" /\ running[w] /\ ready[w] /\ ready' = [ready EXCEPT ![w] = FALSE]
      /\ wpc' = [wpc EXCEPT ![w] = "process"]
      /\ UNCHANGED <<producerVars, poolVars, request, running, jobVars, stopVars>>
  BY DEF TakeRequest, At, WGoto
<1>2. /\ wpc'[w] = "process" /\ ~ ready'[w] /\ ready' \in [Workers -> BOOLEAN]
      /\ \A v \in Workers \ {w} : ready'[v] = ready[v]
  BY <1>1 DEF IInv, TypeOK
<1> QED BY <1>1, <1>2, Round DEF IInv, TypeOK, Busy, Rests, WorkerSteps, jobVars

LEMMA ProcessStep == ASSUME IInv, NEW w \in Workers, Process(w) PROVE IInv'
<1>1. /\ wpc[w] = "process" /\ wpc' = [wpc EXCEPT ![w] = "finish"]
      /\ processed' = [processed EXCEPT ![request[w]] = @ + 1]
      /\ UNCHANGED <<producerVars, poolVars, request, ready, running, finished, stopVars>>
  BY DEF Process, At, WGoto
<1>2. wpc'[w] = "finish"
  BY <1>1 DEF IInv, TypeOK
<1>3. request[w] \in Requests /\ request[w] # None /\ ~ ready[w]
  BY <1>1, PoolAssumption DEF IInv, Readiness, Busy
<1>4. processed' \in [Requests -> Nat]
  BY <1>1, <1>3 DEF IInv, TypeOK
<1> QED BY <1>1, <1>2, <1>3, <1>4, Round DEF IInv, TypeOK, Busy, Rests, WorkerSteps

LEMMA FindNoRequestStep == ASSUME IInv, NEW w \in Workers, FindNoRequest(w) PROVE IInv'
<1>1. /\ wpc[w] = "add" /\ wpc' = [wpc EXCEPT ![w] = "enqueue"]
      /\ UNCHANGED <<producerVars, poolVars, request, ready, running, jobVars, stopVars>>
  BY DEF FindNoRequest, At, WGoto
<1>2. wpc'[w] = "enqueue" /\ ~ ready[w]
  BY <1>1 DEF IInv, TypeOK, Readiness
<1> QED BY <1>1, <1>2, Round DEF IInv, TypeOK, Busy, Rests, WorkerSteps, jobVars

\* A worker leaves the inner loop of run() at rest only when it was told to stop.
LEMMA CheckReadyStep == ASSUME IInv, NEW w \in Workers, CheckReady(w) PROVE IInv'
<1> DEFINE s == IF ready[w] \/ ~ running[w] THEN "loop" ELSE "wait"
<1>1. /\ wpc[w] = "check" /\ wpc' = [wpc EXCEPT ![w] = s]
      /\ UNCHANGED <<producerVars, poolVars, request, ready, running, jobVars, stopVars>>
  BY DEF CheckReady, At, WGoto
<1>2. wpc'[w] = s
  BY <1>1 DEF IInv, TypeOK
<1> QED BY <1>1, <1>2, Round DEF IInv, TypeOK, Busy, Rests, WorkerSteps, jobVars

LEMMA StartWaitStep == ASSUME IInv, NEW w \in Workers, StartWait(w) PROVE IInv'
<1>1. /\ wpc[w] = "wait" /\ wpc' = [wpc EXCEPT ![w] = "waiting"]
      /\ UNCHANGED <<producerVars, poolVars, request, ready, running, jobVars, stopVars>>
  BY DEF StartWait, At, WGoto
<1>2. wpc'[w] = "waiting"
  BY <1>1 DEF IInv, TypeOK
<1> QED BY <1>1, <1>2, Round DEF IInv, TypeOK, Busy, Rests, WorkerSteps, jobVars

LEMMA WaitOverStep == ASSUME IInv, NEW w \in Workers, WaitOver(w) PROVE IInv'
<1>1. /\ wpc[w] = "waiting" /\ wpc' = [wpc EXCEPT ![w] = "check"]
      /\ UNCHANGED <<producerVars, poolVars, request, ready, running, jobVars, stopVars>>
  BY DEF WaitOver, At, WGoto
<1>2. wpc'[w] = "check"
  BY <1>1 DEF IInv, TypeOK
<1> QED BY <1>1, <1>2, Round DEF IInv, TypeOK, Busy, Rests, WorkerSteps, jobVars

\* finish() deletes the request: it is done, and its worker has none.
LEMMA FinishStep ==
  ASSUME IInv, NEW w \in Workers, Finish(w)
  PROVE  IInv'
<1>1. /\ wpc[w] = "finish" /\ wpc' = [wpc EXCEPT ![w] = "add"]
      /\ finished' = finished \cup {request[w]}
      /\ UNCHANGED <<producerVars, poolVars, request, ready, running, processed, stopVars>>
  BY DEF Finish, At, WGoto
<1>2. /\ wpc'[w] = "add" /\ wpc' \in [Workers -> WorkerSteps]
      /\ \A v \in Workers \ {w} : wpc'[v] = wpc[v]
  BY <1>1 DEF IInv, TypeOK, WorkerSteps
<1>3. Busy(w) /\ request[w] \in Requests /\ request[w] \in submitted /\ ~ ready[w]
  BY <1>1 DEF IInv, Readiness, OnlySubmitted, Busy
<1>4. ~ Busy(w)' /\ \A v \in Workers \ {w} : Busy(v)' <=> Busy(v)
  BY <1>1, <1>2, <1>3 DEF Busy
<1> USE DEF producerVars, poolVars, stopVars
<1>5. TypeOK'
  BY <1>1, <1>2, <1>3 DEF IInv, TypeOK
<1>6. ProducerSteps'
  BY <1>1 DEF IInv, ProducerSteps
<1>7. Readiness'
  BY <1>1, <1>2, <1>4 DEF IInv, Readiness
<1>8. Resting'
  <2>1. \A v \in Workers : Rests(v) => Rests(v)'
    BY <1>1, <1>2 DEF Rests
  <2> QED BY <1>1, <2>1 DEF IInv, TypeOK, Resting
<1>9. Created'
  BY <1>1, <1>2, NoneCreated
<1>10. OnlySubmitted' /\ Somewhere' /\ Once'
  BY <1>1, <1>3, <1>4 DEF IInv, OnlySubmitted, Somewhere, Once
<1>11. Apart'
  BY <1>1, <1>3, <1>4 DEF IInv, Apart, Once
<1> QED BY <1>5, <1>6, <1>7, <1>8, <1>9, <1>10, <1>11 DEF IInv

\* The request goes from the front of the queue to the worker, which has none.
LEMMA FetchRequestStep ==
  ASSUME IInv, NEW w \in Workers, FetchRequest(w)
  PROVE  IInv'
<1> DEFINE r == Head(requests)
<1>1. /\ wpc[w] = "add" /\ requests # <<>> /\ SetRequest(w, r)
      /\ requests' = Tail(requests) /\ wpc' = [wpc EXCEPT ![w] = "loop"]
      /\ UNCHANGED <<producerVars, workersMutex, workers, allWorkers, running, jobVars, stopVars>>
  BY DEF FetchRequest, At, WGoto
<1>2. /\ requests' \in Seq(Requests) /\ Len(requests') = Len(requests) - 1 /\ Len(requests) \in Nat
      /\ 1 \in 1..Len(requests) /\ r = requests[1] /\ r \in Requests
      /\ \A k \in 1..Len(requests') : requests'[k] = requests[k + 1] /\ k + 1 \in 1..Len(requests)
  BY <1>1 DEF IInv, TypeOK
<1>3. ~ ready[w] /\ ~ Busy(w)
  BY <1>1 DEF IInv, Readiness, Busy
<1> HIDE DEF r
<1>4. /\ request'[w] = r /\ ready'[w] = TRUE /\ wpc'[w] = "loop"
      /\ \A v \in Workers \ {w} :
            request'[v] = request[v] /\ ready'[v] = ready[v] /\ wpc'[v] = wpc[v]
      /\ request' \in [Workers -> Requests \cup {None}] /\ ready' \in [Workers -> BOOLEAN]
      /\ wpc' \in [Workers -> WorkerSteps]
  BY <1>1, <1>2 DEF IInv, TypeOK, SetRequest, WorkerSteps
<1>5. Busy(w)' /\ \A v \in Workers \ {w} : Busy(v)' <=> Busy(v)
  BY <1>4 DEF Busy
<1> USE DEF producerVars, jobVars, stopVars
<1>6. TypeOK'
  BY <1>1, <1>2, <1>4 DEF IInv, TypeOK
<1>7. ProducerSteps'
  BY <1>1 DEF IInv, ProducerSteps
<1>8. Readiness'
  BY <1>2, <1>4, <1>5 DEF IInv, Readiness
<1>9. Resting'
  <2>1. ~ Rests(w) /\ \A v \in Workers \ {w} : Rests(v) => Rests(v)'
    BY <1>1, <1>4 DEF Rests
  <2> QED BY <1>1, <2>1 DEF IInv, TypeOK, Resting
<1>10. Created'
  BY <1>1, <1>4, NoneCreated
<1>11. OnlySubmitted'
  BY <1>1, <1>2, <1>4, <1>5 DEF IInv, OnlySubmitted
<1>12. Somewhere'
  <2>1. \A k \in 1..Len(requests) : k = 1 \/ (k - 1 \in 1..Len(requests') /\ requests'[k - 1] = requests[k])
    BY <1>2
  <2>2. ASSUME NEW x \in submitted, NEW k \in 1..Len(requests), requests[k] = x
        PROVE  \/ \E j \in 1..Len(requests') : requests'[j] = x
               \/ Busy(w)' /\ request'[w] = x
    BY <1>2, <1>4, <1>5, <2>1, <2>2
  <2>3. \A v \in Workers : Busy(v) => Busy(v)' /\ request'[v] = request[v]
    BY <1>3, <1>4, <1>5
  <2> QED BY <1>1, <2>2, <2>3 DEF IInv, Somewhere
<1>13. Once'
  <2>1. ASSUME NEW j \in 1..Len(requests'), NEW k \in 1..Len(requests'), requests'[j] = requests'[k]
        PROVE  j = k
    <3>1. /\ j + 1 \in 1..Len(requests) /\ k + 1 \in 1..Len(requests)
          /\ requests[j + 1] = requests[k + 1]
      BY <1>2, <2>1
    <3>2. j + 1 = k + 1
      BY <3>1 DEF IInv, Once
    <3> QED BY <3>2
  <2>2. \A v \in Workers \ {w} : Busy(v)' => request'[v] # request'[w]
    BY <1>2, <1>4, <1>5 DEF IInv, Apart
  <2>3. \A v, u \in Workers : Busy(v)' /\ Busy(u)' /\ request'[v] = request'[u] => v = u
    BY <1>4, <1>5, <2>2 DEF IInv, Once
  <2> QED BY <1>1, <2>1, <2>3 DEF IInv, Once
<1>14. Apart'
  <2>1. \A k \in 1..Len(requests') : requests'[k] # r
    BY <1>2 DEF IInv, Once
  <2>2. \A p \in Producers : preq[p] # r
    BY <1>2 DEF IInv, Apart
  <2>3. r \notin finished
    BY <1>2 DEF IInv, Apart
  <2>4. /\ \A p \in Producers, k \in 1..Len(requests') : preq[p] # requests'[k]
        /\ \A k \in 1..Len(requests') : requests'[k] \notin finished
    BY <1>2 DEF IInv, Apart
  <2>5. \A k \in 1..Len(requests'), v \in Workers : Busy(v)' => requests'[k] # request'[v]
    BY <1>2, <1>4, <1>5, <2>1 DEF IInv, Apart
  <2>6. /\ \A p \in Producers, v \in Workers : Busy(v)' => preq[p] # request'[v]
        /\ \A v \in Workers : Busy(v)' => request'[v] \notin finished
    BY <1>4, <1>5, <2>2, <2>3 DEF IInv, Apart
  <2> QED BY <1>1, <2>4, <2>5, <2>6 DEF IInv, Apart
<1> QED BY <1>6, <1>7, <1>8, <1>9, <1>10, <1>11, <1>12, <1>13, <1>14 DEF IInv

\* No producer holds workersMutex, so all queued workers are at rest and w is none of them.
LEMMA EnqueueStep ==
  ASSUME IInv, NEW w \in Workers, Enqueue(w)
  PROVE  IInv'
<1>1. /\ wpc[w] = "enqueue" /\ wpc' = [wpc EXCEPT ![w] = "check"] /\ workersMutex = None
      /\ workers' = Append(workers, w)
      /\ UNCHANGED <<producerVars, workersMutex, requests, allWorkers, request, ready, running,
                     jobVars, stopVars>>
  BY DEF Enqueue, At, WGoto
<1>2. ~ ready[w] /\ ~ Busy(w)
  BY <1>1 DEF IInv, Readiness, Busy
<1>3. /\ wpc'[w] = "check" /\ wpc' \in [Workers -> WorkerSteps]
      /\ \A v \in Workers \ {w} : wpc'[v] = wpc[v]
  BY <1>1 DEF IInv, TypeOK, WorkerSteps
<1> DEFINE n == Len(workers)
<1>4. /\ workers' \in Seq(Workers) /\ Len(workers') = n + 1 /\ n \in Nat
      /\ workers'[n + 1] = w /\ \A k \in 1..n : workers'[k] = workers[k] /\ workers[k] \in Workers
  BY <1>1 DEF IInv, TypeOK
<1> USE DEF producerVars, jobVars, stopVars
<1>5. TypeOK'
  BY <1>1, <1>3, <1>4 DEF IInv, TypeOK
<1>6. ProducerSteps'
  BY <1>1 DEF IInv, ProducerSteps
<1>7. \A v \in Workers : Busy(v)' <=> Busy(v)
  BY <1>1, <1>2, <1>3 DEF Busy
<1>8. Readiness'
  BY <1>1, <1>3, <1>7 DEF IInv, Readiness
<1>9. Resting'
  <2>1. \A k \in 1..n : Rests(workers[k])
    BY <1>1 DEF IInv, Resting
  <2>2. ~ Rests(w) /\ \A k \in 1..n : workers[k] # w
    BY <1>1, <2>1 DEF Rests
  <2>3. Rests(w)' /\ \A v \in Workers \ {w} : Rests(v) => Rests(v)'
    BY <1>1, <1>2, <1>3 DEF Rests
  <2>4. ASSUME NEW k \in 1..n + 1, NEW v \in Workers, v = workers'[k]
        PROVE  Rests(v)'
    BY <1>4, <2>1, <2>2, <2>3, <2>4
  <2>5. \A j, k \in 1..n + 1 : workers'[j] = workers'[k] => j = k
    BY <1>4, <2>2 DEF IInv, Resting
  <2> QED BY <1>4, <2>4, <2>5 DEF Resting
<1>10. Created'
  BY <1>1, <1>3, NoneCreated
<1>11. Kept'
  BY <1>1, <1>7, NothingMoves
<1> QED BY <1>5, <1>6, <1>8, <1>9, <1>10, <1>11 DEF IInv, Kept
-----------------------------------------------------------------------------
\* Dispatcher::stop

\* A step of stop that leaves the workers alone.
LEMMA StopMoves ==
  ASSUME IInv, UNCHANGED <<producerVars, poolVars, workerVars, jobVars>>,
         spc' \in [at : {"idle", "stop", "delete", "join"}, i : Nat],
         spc'.at = "delete" => spc'.i \in 1..Len(allWorkers),
         spc'.at \in {"stop", "delete", "join"} => spc'.i >= 1,
         deleted \subseteq deleted', deleted' \subseteq Workers, touched' = touched
  PROVE  IInv'
<1> USE DEF producerVars, poolVars, workerVars, jobVars
<1>1. TypeOK'
  BY DEF IInv, TypeOK
<1>2. ProducerSteps' /\ Readiness' /\ Resting' /\ Created'
  BY DEF IInv, ProducerSteps, Readiness, Resting, Rests, Created, Busy
<1>3. Kept'
  BY NothingMoves DEF Busy
<1> QED BY <1>1, <1>2, <1>3 DEF IInv, Kept

\* A worker that rests, rests on when it is told to stop.
LEMMA StopWorkerStep ==
  ASSUME IInv, StopWorker
  PROVE  IInv'
<1> DEFINE w == allWorkers[spc.i]
<1>1. /\ spc.at = "stop" /\ spc.i <= Len(allWorkers) /\ running' = [running EXCEPT ![w] = FALSE]
      /\ spc' = [spc EXCEPT !.at = "delete"]
      /\ UNCHANGED <<producerVars, poolVars, wpc, request, ready, jobVars, deleted, touched>>
  BY DEF StopWorker
<1>2. spc.i \in 1..Len(allWorkers) /\ w \in Workers
  BY <1>1 DEF IInv, TypeOK, Created
<1>3. spc' \in [at : {"idle", "stop", "delete", "join"}, i : Nat] /\ spc'.at = "delete" /\ spc'.i = spc.i
  BY <1>1 DEF IInv, TypeOK
<1>4. running' \in [Workers -> BOOLEAN] /\ \A v \in Workers : ~ running[v] => ~ running'[v]
  BY <1>1, <1>2 DEF IInv, TypeOK
<1> USE DEF producerVars, poolVars, jobVars
<1>5. TypeOK'
  BY <1>1, <1>3, <1>4 DEF IInv, TypeOK
<1>6. ProducerSteps' /\ Readiness'
  BY <1>1 DEF IInv, ProducerSteps, Readiness, Busy
<1>7. Resting'
  <2>1. \A v \in Workers : Rests(v) => Rests(v)'
    BY <1>1, <1>4 DEF Rests
  <2> QED BY <1>1, <2>1 DEF IInv, TypeOK, Resting
<1>8. Created'
  BY <1>1, <1>2, <1>3 DEF IInv, Created
<1>9. Kept'
  BY <1>1, NothingMoves DEF Busy
<1> QED BY <1>5, <1>6, <1>7, <1>8, <1>9 DEF IInv, Kept

LEMMA StopSteps ==
  ASSUME IInv, StopStep
  PROVE  IInv'
<1>1. CASE StopBegin
  BY <1>1, StopMoves DEF StopBegin, IInv, TypeOK
<1>2. CASE StopWorker
  BY <1>2, StopWorkerStep
<1>3. CASE DeleteWorker
  <2>1. spc.i \in 1..Len(allWorkers)
    BY <1>3 DEF DeleteWorker, IInv, Created
  <2>2. allWorkers[spc.i] \in Workers
    BY <2>1 DEF IInv, TypeOK
  <2> QED BY <1>3, <2>1, <2>2, StopMoves DEF DeleteWorker, IInv, TypeOK
<1>4. CASE StopToJoin
  BY <1>4, StopMoves DEF StopToJoin, IInv, TypeOK
<1>5. CASE JoinThread
  <2>1. spc.i >= 1 /\ spc.i \in Nat
    BY <1>5 DEF JoinThread, IInv, Created, TypeOK
  <2>2. /\ spc' \in [at : {"idle", "stop", "delete", "join"}, i : Nat]
        /\ spc'.at = "join" /\ spc'.i = spc.i + 1
    BY <1>5 DEF JoinThread, IInv, TypeOK
  <2>3. /\ UNCHANGED <<producerVars, poolVars, workerVars, jobVars, deleted, touched>>
        /\ deleted \subseteq Workers
    BY <1>5 DEF JoinThread, IInv, TypeOK
  <2> QED BY <2>1, <2>2, <2>3, StopMoves
<1> QED BY <1>1, <1>2, <1>3, <1>4, <1>5 DEF StopStep
-----------------------------------------------------------------------------
LEMMA EveryStep ==
  ASSUME IInv, [Next]_vars
  PROVE  IInv'
<1>1. CASE UNCHANGED vars
  <2> USE DEF vars, producerVars, poolVars, workerVars, jobVars, stopVars
  <2>1. TypeOK' /\ ProducerSteps' /\ Readiness' /\ Resting' /\ Created'
    BY <1>1 DEF IInv, TypeOK, ProducerSteps, Readiness, Resting, Rests, Created, Busy
  <2>2. Kept'
    BY <1>1, NothingMoves DEF Busy
  <2> QED BY <2>1, <2>2 DEF IInv, Kept
<1>2. ASSUME NEW p \in Producers, Submit(p) \/ AddRequestStep(p)
      PROVE  IInv'
  <2>1. CASE UseDeletedWorker(p)
    BY <2>1, TouchStep DEF UseDeletedWorker
  <2> QED BY <1>2, <2>1, SubmitStep, AssignToIdleStep, NotifyAndPopStep, CreateWorkerStep,
             FindNoWorkerStep, PushRequestStep DEF AddRequestStep
<1>3. ASSUME NEW w \in Workers, WorkerStep(w)
      PROVE  IInv'
  <2>1. CASE TouchDeleted(w)
    BY <2>1, TouchStep DEF TouchDeleted
  <2> QED BY <1>3, <2>1, LoopExitStep, TakeRequestStep, ProcessStep, FinishStep,
             FetchRequestStep, FindNoRequestStep, EnqueueStep, CheckReadyStep, StartWaitStep,
             WaitOverStep DEF WorkerStep
<1> QED BY <1>1, <1>2, <1>3, StopSteps DEF Next

\* The invariant holds in every state of addRequest, Worker::run, addWorker and stop:
\* queued workers rest, and every callback has one place.
THEOREM PoolInductive == Spec => []IInv
<1>1. Init => IInv
  BY Initially
<1>2. IInv /\ [Next]_vars => IInv'
  BY EveryStep
<1> QED BY <1>1, <1>2, PTL DEF Spec

\* The variables of the dispatcher and its workers keep their types.
THEOREM TypesHold == Spec => []TypeOK
<1>1. IInv => TypeOK
  BY DEF IInv
<1> QED BY <1>1, PoolInductive, PTL

\* The idle queue of addRequest and addWorker holds each worker once, and only workers
\* that have nothing to do or were told to stop.
THEOREM QueuedWorkersAreIdle == Spec => []IdleQueue
<1>1. IInv => IdleQueue
  BY DEF IInv, TypeOK, Resting, Rests, IdleQueue
<1> QED BY <1>1, PoolInductive, PTL

\* A set of one element.
LEMMA OnlyOne ==
  ASSUME NEW S, NEW x \in S, \A y \in S : y = x
  PROVE  Cardinality(S) = 1
<1>1. S = {x}
  OBVIOUS
<1> QED BY <1>1, FS_Singleton

\* A callback given to addRequest is with its producer, in the queue, with one worker,
\* or done, and never in two of these places: none is lost, none is run twice.
THEOREM NoneLostNoneTwice == Spec => []InOnePlace
<1>1. ASSUME IInv, NEW r \in submitted
      PROVE  Cardinality(Places(r)) = 1
  <2>1. r # None
    BY <1>1, PoolAssumption DEF IInv, TypeOK
  <2>2. CASE \E p \in Producers : preq[p] = r
    <3>1. PICK p \in Producers : preq[p] = r
      BY <2>2
    <3>2. <<"producer", p>> \in Places(r)
      BY <3>1 DEF Places
    <3>3. \A y \in Places(r) : y = <<"producer", p>>
      BY <1>1, <2>1, <3>1 DEF Places, IInv, Once, Apart
    <3> QED BY <3>2, <3>3, OnlyOne
  <2>3. CASE \E k \in 1..Len(requests) : requests[k] = r
    <3>1. PICK k \in 1..Len(requests) : requests[k] = r
      BY <2>3
    <3>2. <<"queue", k>> \in Places(r)
      BY <3>1 DEF Places
    <3>3. \A y \in Places(r) : y = <<"queue", k>>
      BY <1>1, <2>1, <3>1 DEF Places, IInv, Once, Apart
    <3> QED BY <3>2, <3>3, OnlyOne
  <2>4. CASE \E w \in Workers : Busy(w) /\ request[w] = r
    <3>1. PICK w \in Workers : Busy(w) /\ request[w] = r
      BY <2>4
    <3>2. <<"worker", w>> \in Places(r)
      BY <3>1 DEF Places
    <3>3. \A y \in Places(r) : y = <<"worker", w>>
      BY <1>1, <2>1, <3>1 DEF Places, IInv, Once, Apart
    <3> QED BY <3>2, <3>3, OnlyOne
  <2>5. CASE r \in finished
    <3>1. <<"finished", r>> \in Places(r)
      BY <2>5 DEF Places
    <3>2. \A y \in Places(r) : y = <<"finished", r>>
      BY <1>1, <2>1, <2>5 DEF Places, IInv, Once, Apart
    <3> QED BY <3>1, <3>2, OnlyOne
  <2> QED BY <1>1, <2>2, <2>3, <2>4, <2>5 DEF IInv, Somewhere
<1>2. IInv => InOnePlace
  BY <1>1 DEF InOnePlace
<1> QED BY <1>2, PoolInductive, PTL

\* setRequest reaches only workers without a request.
LEMMA SlotStep ==
  ASSUME IInv, Next, NEW w \in Workers, request'[w] # request[w]
  PROVE  ~ Busy(w)
<1>1. CASE \E p \in Producers : AssignToIdle(p)
  <2>1. PICK p \in Producers : AssignToIdle(p)
    BY <1>1
  <2>2. Head(workers) \in Workers /\ ~ Busy(Head(workers))
    BY <2>1, FrontRests DEF AssignToIdle
  <2>3. w = Head(workers)
    BY <2>1, <2>2 DEF AssignToIdle, SetRequest, IInv, TypeOK
  <2> QED BY <2>2, <2>3
<1>2. CASE \E p \in Producers : CreateWorker(p)
  <2>1. PICK v \in Workers : /\ wpc[v] = "none"
                             /\ \E p \in Producers : SetRequest(v, preq[p])
    BY <1>2 DEF CreateWorker
  <2>2. w = v
    BY <2>1 DEF SetRequest, IInv, TypeOK
  <2> QED BY <2>1, <2>2 DEF IInv, Readiness, Busy
<1>3. CASE \E v \in Workers : FetchRequest(v)
  <2>1. PICK v \in Workers : wpc[v] = "add" /\ SetRequest(v, Head(requests))
    BY <1>3 DEF FetchRequest, At
  <2>2. w = v
    BY <2>1 DEF SetRequest, IInv, TypeOK
  <2> QED BY <2>1, <2>2 DEF IInv, Readiness, Busy
<1>4. \/ UNCHANGED request
      \/ \E p \in Producers : AssignToIdle(p) \/ CreateWorker(p)
      \/ \E v \in Workers : FetchRequest(v)
  BY DEF Next, AddRequestStep, WorkerStep, StopStep, workerVars,
     Submit, NotifyAndPop, FindNoWorker, PushRequest, UseDeletedWorker,
     LoopExit, TakeRequest, Process, Finish, FindNoRequest, Enqueue, CheckReady, StartWait,
     WaitOver, TouchDeleted, StopBegin, StopWorker, DeleteWorker, StopToJoin, JoinThread
<1> QED BY <1>1, <1>2, <1>3, <1>4

\* setRequest, which takes no lock, never replaces a request its worker has still to finish.
THEOREM SlotsAreKept == Spec => SlotKept
<1>1. IInv /\ [Next]_vars => [\A w \in Workers : request'[w] # request[w] => ~ Busy(w)]_vars
  BY SlotStep
<1> QED BY <1>1, PoolInductive, PTL DEF Spec, SlotKept
-----------------------------------------------------------------------------
\* The refinement of WorkPool.

Processing == {v \in Workers : wpc[v] \in {"process", "finish"}}
Active     == {request[w] : w \in Processing}

\* While worker w is at its loop, fewer callbacks run than the pool has workers.
LEMMA BelowPoolSize ==
  ASSUME IInv, NEW w \in Workers, wpc[w] = "loop"
  PROVE  Cardinality(Active) < PoolSize
<1> DEFINE S == {v \in Workers : wpc[v] # "none"}
           f == [v \in Processing |-> request[v]]
<1>1. IsFiniteSet(S) /\ w \in S /\ Cardinality(S) <= PoolSize
  BY PoolAssumption, FS_Subset DEF IInv, Created
<1>2. IsFiniteSet(S \ {w}) /\ Cardinality(S \ {w}) = Cardinality(S) - 1
  BY <1>1, FS_RemoveElement
<1>3. Processing \in SUBSET (S \ {w})
  BY DEF Processing
<1>4. IsFiniteSet(Processing) /\ Cardinality(Processing) <= Cardinality(S \ {w})
  BY <1>2, <1>3, FS_Subset
<1>5. f \in Surjection(Processing, Active)
  BY DEF Active, Surjection
<1> HIDE DEF f, S
<1>6. IsFiniteSet(Active) /\ Cardinality(Active) <= Cardinality(Processing)
  BY <1>4, <1>5, FS_Surjection
<1>7. Cardinality(S) \in Nat /\ Cardinality(Processing) \in Nat /\ Cardinality(Active) \in Nat
  BY <1>1, <1>4, <1>6, FS_CardinalityType
<1> QED BY <1>1, <1>2, <1>4, <1>6, <1>7, PoolAssumption

\* The actions of the dispatcher that the contract does not see.
LEMMA Unseen ==
  ASSUME submitted' = submitted, finished' = finished,
         \A v \in Workers : v \in Processing <=> v \in Processing',
         \A v \in Processing : request'[v] = request[v]
  PROVE  UNCHANGED Pool!vars
<1>1. Active' = Active
  BY DEF Active, Processing
<1> QED BY <1>1 DEF Pool!vars, Active, Processing

LEMMA UnseenProducer ==
  ASSUME IInv, Next, NEW p \in Producers, AddRequestStep(p)
  PROVE  UNCHANGED Pool!vars
<1>1. UNCHANGED <<submitted, finished>>
  BY DEF AddRequestStep, AssignToIdle, NotifyAndPop, CreateWorker, FindNoWorker, PushRequest,
         UseDeletedWorker, producerVars, jobVars
<1>2. wpc' \in [Workers -> WorkerSteps]
  BY EveryStep DEF IInv, TypeOK
<1>3. ASSUME NEW v \in Workers
      PROVE  v \in Processing <=> v \in Processing'
  <2>1. CASE NotifyAndPop(p)
    <3>1. Head(workers) \in Workers
      BY <2>1, PoolAssumption DEF NotifyAndPop, IInv, ProducerSteps, TypeOK
    <3> QED BY <2>1, <3>1 DEF NotifyAndPop, IInv, TypeOK, Processing
  <2>2. CASE CreateWorker(p)
    BY <2>2 DEF CreateWorker, IInv, TypeOK, Processing
  <2>3. CASE UNCHANGED wpc
    BY <2>3 DEF Processing
  <2> QED BY <2>1, <2>2, <2>3 DEF AddRequestStep, AssignToIdle, FindNoWorker, PushRequest,
             UseDeletedWorker, workerVars
<1>4. \A v \in Processing : request'[v] = request[v]
  BY SlotStep DEF Processing, Busy
<1> QED BY <1>1, <1>3, <1>4, Unseen DEF Processing

LEMMA UnseenWorker ==
  ASSUME IInv, Next, NEW w \in Workers, WorkerStep(w), ~ TakeRequest(w), ~ Finish(w)
  PROVE  UNCHANGED Pool!vars
<1>1. UNCHANGED <<submitted, finished>>
  BY DEF WorkerStep, LoopExit, Process, FetchRequest, FindNoRequest, Enqueue, CheckReady,
         StartWait, WaitOver, TouchDeleted, producerVars, jobVars
<1>2. \/ UNCHANGED wpc
      \/ \E s \in WorkerSteps : /\ wpc' = [wpc EXCEPT ![w] = s]
                                /\ \/ wpc[w] = "process" /\ s = "finish"
                                   \/ /\ wpc[w] \notin {"process", "finish"}
                                      /\ s \notin {"process", "finish"}
  BY DEF WorkerStep, LoopExit, Process, FetchRequest, FindNoRequest, Enqueue, CheckReady,
         StartWait, WaitOver, TouchDeleted, workerVars, At, WGoto, WorkerSteps
<1>3. \A v \in Workers : v \in Processing <=> v \in Processing'
  BY <1>2 DEF IInv, TypeOK, Processing
<1>4. \A v \in Processing : request'[v] = request[v]
  BY SlotStep DEF Processing, Busy
<1> QED BY <1>1, <1>3, <1>4, Unseen DEF Processing

\* A request that is taken was submitted, runs nowhere else and is not done.
LEMMA TakeStarts ==
  ASSUME IInv, NEW w \in Workers, NEW r \in Requests, r = request[w], TakeRequest(w)
  PROVE  Pool!Start(r)
<1>1. /\ wpc[w] = "loop" /\ ready[w] /\ wpc' = [wpc EXCEPT ![w] = "process"]
      /\ UNCHANGED <<submitted, request, finished>>
  BY DEF TakeRequest, At, WGoto, producerVars, jobVars
<1>2. Busy(w)
  BY <1>1 DEF Busy
<1>3. r \in submitted /\ r \notin finished
  BY <1>2 DEF IInv, OnlySubmitted, Apart
<1>4. r \notin Active
  BY <1>1, <1>2 DEF IInv, Once, Active, Processing, Busy
<1>5. Active' = Active \cup {r}
  <2>1. Processing' = Processing \cup {w}
    BY <1>1 DEF IInv, TypeOK, Processing
  <2> QED BY <1>1, <2>1 DEF Active
<1>6. Cardinality(Active) < PoolSize
  BY <1>1, BelowPoolSize
<1>7. Pool!Cardinality(Active) = Cardinality(Active)
  BY DEF Pool!Cardinality, Cardinality, Pool!IsFiniteSet, IsFiniteSet
<1> QED BY <1>1, <1>3, <1>4, <1>5, <1>6, <1>7 DEF Pool!Start, Active, Processing

LEMMA FinishEnds ==
  ASSUME IInv, NEW w \in Workers, NEW r \in Requests, r = request[w], Finish(w)
  PROVE  Pool!End(r)
<1>1. /\ wpc[w] = "finish" /\ wpc' = [wpc EXCEPT ![w] = "add"]
      /\ finished' = finished \cup {r} /\ UNCHANGED <<submitted, request>>
  BY DEF Finish, At, WGoto, producerVars
<1>2. Processing' = Processing \ {w} /\ w \in Processing
  BY <1>1 DEF IInv, TypeOK, Processing
<1>3. \A v \in Processing \ {w} : request[v] # r
  BY <1>2 DEF IInv, Once, Busy, Processing
<1>4. Active' = Active \ {r} /\ r \in Active
  BY <1>1, <1>2, <1>3 DEF Active
<1> QED BY <1>1, <1>4 DEF Pool!End, Active, Processing

\* The dispatcher (addRequest, Worker::run, addWorker, with or without stop) implements
\* WorkPool: a submitted callback is started at most once, and never more than PoolSize
\* run at a time.
THEOREM PoolRefinement == Spec => PoolSpec
<1>1. Init => Pool!Init
  <2> SUFFICES ASSUME Init PROVE Pool!Init
    OBVIOUS
  <2>1. Processing = {}
    BY DEF Init, Processing
  <2>2. Active = {}
    BY <2>1 DEF Active
  <2> QED BY <2>2 DEF Init, Pool!Init, Active, Processing
<1>2. IInv /\ [Next]_vars => [Pool!Next]_(Pool!vars)
  <2> SUFFICES ASSUME IInv, [Next]_vars
               PROVE  Pool!Next \/ UNCHANGED Pool!vars
    OBVIOUS
  <2>1. CASE UNCHANGED vars
    BY <2>1 DEF vars, producerVars, workerVars, jobVars, Pool!vars
  <2>2. ASSUME NEW p \in Producers, Submit(p)
        PROVE  Pool!Next
    <3>1. PICK r \in Requests \ submitted : submitted' = submitted \cup {r}
      BY <2>2 DEF Submit
    <3>2. UNCHANGED <<request, wpc, finished>>
      BY <2>2 DEF Submit, workerVars, jobVars
    <3>3. Active' = Active
      BY <3>2 DEF Active, Processing
    <3>4. Pool!Submit(r)
      BY <3>1, <3>2, <3>3 DEF Pool!Submit, Active, Processing
    <3> QED BY <3>4 DEF Pool!Next
  <2>3. ASSUME NEW w \in Workers, TakeRequest(w) \/ Finish(w)
        PROVE  Pool!Next
    <3>1. request[w] \in Requests
      BY <2>3 DEF TakeRequest, Finish, At, IInv, Readiness, Busy
    <3>2. PICK r \in Requests : r = request[w]
      BY <3>1
    <3>3. CASE TakeRequest(w)
      BY <3>2, <3>3, TakeStarts DEF Pool!Next
    <3>4. CASE Finish(w)
      BY <3>2, <3>4, FinishEnds DEF Pool!Next
    <3> QED BY <2>3, <3>3, <3>4
  <2>4. CASE StopStep
    BY <2>4 DEF StopStep, StopBegin, StopWorker, DeleteWorker, StopToJoin, JoinThread,
       producerVars, workerVars, jobVars, Pool!vars
  <2> QED BY <2>1, <2>2, <2>3, <2>4, UnseenProducer, UnseenWorker DEF Next, WorkerStep
<1> QED BY <1>1, <1>2, PoolInductive, PTL DEF Spec, PoolSpec, Pool!Spec
=============================================================================
