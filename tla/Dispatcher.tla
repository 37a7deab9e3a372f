------------------------------ MODULE Dispatcher ------------------------------
(***************************************************************************)
(* The worker pool that runs the callbacks a client receives: static class  *)
(* Dispatcher, class Worker, and the CallbackRequests they pass on.         *)
(*                                                                          *)
(* Producers are the listener threads that call addRequest.  A worker's     *)
(* thread runs Worker::run.  One step is one critical section, or one read  *)
(* of a variable that another thread writes without a lock.  The two stores *)
(* of setRequest are visible in program order (see README).                 *)
(***************************************************************************)
EXTENDS Naturals, Sequences, FiniteSets

CONSTANTS
    Producers,   \* listener threads
    Requests,    \* the CallbackRequests they submit
    Workers,     \* the Worker objects that may be created
    PoolSize,    \* the argument of Dispatcher::init
    MayStop,     \* whether Dispatcher::stop may be called
    None

ASSUME PoolAssumption ==
    /\ PoolSize \in Nat
    /\ IsFiniteSet(Workers) /\ PoolSize <= Cardinality(Workers)
    /\ MayStop \in BOOLEAN
    /\ None \notin Producers \cup Requests \cup Workers

VARIABLES
    \* producers
    ppc, preq,       \* step of addRequest and its argument
    submitted,       \* the requests it was ever called with
    \* Dispatcher
    workersMutex,    \* the producer between setRequest and pop, or None
    requests,        \* requests no worker was free for
    workers,         \* idle workers
    allWorkers,      \* created workers; threads has the same length
    \* workers
    wpc,             \* where each worker's thread is; "none" before it exists
    request, ready, running,    \* the fields of Worker
    \* the callbacks
    processed,       \* times a request's process() ran
    finished,        \* the requests that deleted themselves in finish()
    \* Dispatcher::stop
    spc, deleted,    \* where stop is; the Worker objects it has deleted
    touched          \* deleted objects that a thread has used since

producerVars == <<ppc, preq, submitted>>
poolVars     == <<workersMutex, requests, workers, allWorkers>>
workerVars   == <<wpc, request, ready, running>>
jobVars      == <<processed, finished>>
stopVars     == <<spc, deleted, touched>>
vars == <<producerVars, poolVars, workerVars, jobVars, stopVars>>

Init ==
    /\ ppc = [p \in Producers |-> "idle"]
    /\ preq = [p \in Producers |-> None]
    /\ submitted = {}
    /\ workersMutex = None
    /\ requests = <<>>
    /\ workers = <<>>
    /\ allWorkers = <<>>
    /\ wpc = [w \in Workers |-> "none"]
    /\ request = [w \in Workers |-> None]
    /\ ready = [w \in Workers |-> FALSE]
    /\ running = [w \in Workers |-> FALSE]
    /\ processed = [r \in Requests |-> 0]
    /\ finished = {}
    /\ spc = [at |-> "idle", i |-> 0]
    /\ deleted = {}
    /\ touched = {}

-----------------------------------------------------------------------------
(* Dispatcher::addRequest, by a listener thread that has received a         *)
(* callback.  Each request is submitted once.                               *)

PGoto(p, step) == ppc' = [ppc EXCEPT ![p] = step]

SetRequest(w, r) ==
    /\ request' = [request EXCEPT ![w] = r]
    /\ ready' = [ready EXCEPT ![w] = TRUE]

Submit(p) ==
    /\ ppc[p] = "idle"
    /\ \E r \in Requests \ submitted : /\ preq' = [preq EXCEPT ![p] = r]
                                       /\ submitted' = submitted \cup {r}
    /\ PGoto(p, "add")
    /\ UNCHANGED <<poolVars, workerVars, jobVars, stopVars>>

\* An idle worker gets the request before it leaves the queue.
AssignToIdle(p) ==
    /\ ppc[p] = "add"
    /\ workersMutex = None
    /\ workers # <<>>
    /\ Head(workers) \notin deleted
    /\ workersMutex' = p
    /\ SetRequest(Head(workers), preq[p])
    /\ preq' = [preq EXCEPT ![p] = None]
    /\ PGoto(p, "notify")
    /\ UNCHANGED <<submitted, requests, workers, allWorkers, wpc, running, jobVars, stopVars>>

\* notify_one wakes the worker if it has got as far as wait_for.
NotifyAndPop(p) ==
    /\ ppc[p] = "notify"
    /\ Head(workers) \notin deleted
    /\ wpc' = IF wpc[Head(workers)] = "waiting"
              THEN [wpc EXCEPT ![Head(workers)] = "check"] ELSE wpc
    /\ workers' = Tail(workers)
    /\ workersMutex' = None
    /\ PGoto(p, "idle")
    /\ UNCHANGED <<preq, submitted, requests, allWorkers, request, ready, running, jobVars, stopVars>>

\* stop leaves pointers to the workers it deleted in the queue.
UseDeletedWorker(p) ==
    /\ \/ ppc[p] = "add" /\ workersMutex = None
       \/ ppc[p] = "notify"
    /\ workers # <<>>
    /\ Head(workers) \in deleted \ touched
    /\ touched' = touched \cup {Head(workers)}
    /\ UNCHANGED <<producerVars, poolVars, workerVars, jobVars, spc, deleted>>

\* Mutant of CreateWorker: the pool grows to one more than its limit.
CreateWorkerOverLimit(p) ==
    /\ ppc[p] = "add"
    /\ workersMutex = None
    /\ workers = <<>>
    /\ Len(allWorkers) <= PoolSize
    /\ \E w \in Workers :
          /\ wpc[w] = "none"
          /\ SetRequest(w, preq[p])
          /\ running' = [running EXCEPT ![w] = TRUE]
          /\ wpc' = [wpc EXCEPT ![w] = "loop"]
          /\ allWorkers' = Append(allWorkers, w)
    /\ preq' = [preq EXCEPT ![p] = None]
    /\ PGoto(p, "idle")
    /\ UNCHANGED <<submitted, workersMutex, requests, workers, jobVars, stopVars>>

CreateWorker(p) ==
    /\ ppc[p] = "add"
    /\ workersMutex = None
    /\ workers = <<>>
    /\ Len(allWorkers) < PoolSize
    /\ \E w \in Workers :
          /\ wpc[w] = "none"
          /\ SetRequest(w, preq[p])
          /\ running' = [running EXCEPT ![w] = TRUE]
          /\ wpc' = [wpc EXCEPT ![w] = "loop"]
          /\ allWorkers' = Append(allWorkers, w)
    /\ preq' = [preq EXCEPT ![p] = None]
    /\ PGoto(p, "idle")
    /\ UNCHANGED <<submitted, workersMutex, requests, workers, jobVars, stopVars>>

\* The pool is at its limit and no worker is idle: workersMutex is released
\* before requestsMutex is taken.
FindNoWorker(p) ==
    /\ ppc[p] = "add"
    /\ workersMutex = None
    /\ workers = <<>>
    /\ Len(allWorkers) >= PoolSize
    /\ PGoto(p, "push")
    /\ UNCHANGED <<preq, submitted, poolVars, workerVars, jobVars, stopVars>>

\* Mutant of PushRequest: the argument is reset before it is pushed.
PushAfterReset(p) ==
    /\ ppc[p] = "push"
    /\ preq' = [preq EXCEPT ![p] = None]
    /\ requests' = Append(requests, preq'[p])
    /\ PGoto(p, "idle")
    /\ UNCHANGED <<submitted, workersMutex, workers, allWorkers, workerVars, jobVars, stopVars>>

PushRequest(p) ==
    /\ ppc[p] = "push"
    /\ requests' = Append(requests, preq[p])
    /\ preq' = [preq EXCEPT ![p] = None]
    /\ PGoto(p, "idle")
    /\ UNCHANGED <<submitted, workersMutex, workers, allWorkers, workerVars, jobVars, stopVars>>

-----------------------------------------------------------------------------
(* Worker::run and Dispatcher::addWorker.  No step but the last reads a      *)
(* deleted object.                                                          *)

WGoto(w, step) == wpc' = [wpc EXCEPT ![w] = step]
At(w, step)    == wpc[w] = step /\ w \notin deleted

LoopExit(w) ==
    /\ At(w, "loop")
    /\ ~ running[w]
    /\ WGoto(w, "exited")
    /\ UNCHANGED <<producerVars, poolVars, request, ready, running, jobVars, stopVars>>

\* A running worker is at its main loop only when it is ready: it was created or
\* fetched with a request, or left the inner loop.
TakeRequest(w) ==
    /\ At(w, "loop")
    /\ running[w]
    /\ ready[w]
    /\ ready' = [ready EXCEPT ![w] = FALSE]
    /\ WGoto(w, "process")
    /\ UNCHANGED <<producerVars, poolVars, request, running, jobVars, stopVars>>

Process(w) ==
    /\ At(w, "process")
    /\ processed' = [processed EXCEPT ![request[w]] = @ + 1]
    /\ WGoto(w, "finish")
    /\ UNCHANGED <<producerVars, poolVars, request, ready, running, finished, stopVars>>

Finish(w) ==
    /\ At(w, "finish")
    /\ finished' = finished \cup {request[w]}
    /\ WGoto(w, "add")
    /\ UNCHANGED <<producerVars, poolVars, request, ready, running, processed, stopVars>>

\* Mutant of FetchRequest: the request is not removed from the queue.
FetchAndKeep(w) ==
    /\ At(w, "add")
    /\ requests # <<>>
    /\ SetRequest(w, Head(requests))
    /\ WGoto(w, "loop")
    /\ UNCHANGED <<producerVars, poolVars, running, jobVars, stopVars>>

\* addWorker finds a queued request and the worker goes round its loop.
FetchRequest(w) ==
    /\ At(w, "add")
    /\ requests # <<>>
    /\ SetRequest(w, Head(requests))
    /\ requests' = Tail(requests)
    /\ WGoto(w, "loop")
    /\ UNCHANGED <<producerVars, workersMutex, workers, allWorkers, running, jobVars, stopVars>>

\* Mutant of FindNoRequest: addWorker does not look at the queue first.
SkipQueue(w) ==
    /\ At(w, "add")
    /\ WGoto(w, "enqueue")
    /\ UNCHANGED <<producerVars, poolVars, request, ready, running, jobVars, stopVars>>

\* ... or none, and releases requestsMutex before it takes workersMutex.
FindNoRequest(w) ==
    /\ At(w, "add")
    /\ requests = <<>>
    /\ WGoto(w, "enqueue")
    /\ UNCHANGED <<producerVars, poolVars, request, ready, running, jobVars, stopVars>>

Enqueue(w) ==
    /\ At(w, "enqueue")
    /\ workersMutex = None
    /\ workers' = Append(workers, w)
    /\ WGoto(w, "check")
    /\ UNCHANGED <<producerVars, workersMutex, requests, allWorkers,
                   request, ready, running, jobVars, stopVars>>

\* Mutant of CheckReady: the inner loop looks at `running` only.
CheckRunning(w) ==
    /\ At(w, "check")
    /\ WGoto(w, IF ~ running[w] THEN "loop" ELSE "wait")
    /\ UNCHANGED <<producerVars, poolVars, request, ready, running, jobVars, stopVars>>

CheckReady(w) ==
    /\ At(w, "check")
    /\ WGoto(w, IF ready[w] \/ ~ running[w] THEN "loop" ELSE "wait")
    /\ UNCHANGED <<producerVars, poolVars, request, ready, running, jobVars, stopVars>>

\* A notification before this step is lost.
StartWait(w) ==
    /\ At(w, "wait")
    /\ WGoto(w, "waiting")
    /\ UNCHANGED <<producerVars, poolVars, request, ready, running, jobVars, stopVars>>

\* Mutant of WaitOver: a time-out sends the worker round its main loop.
WaitOnce(w) ==
    /\ At(w, "waiting")
    /\ WGoto(w, "add")
    /\ UNCHANGED <<producerVars, poolVars, request, ready, running, jobVars, stopVars>>

\* wait_for returns after a second, or spuriously.
WaitOver(w) ==
    /\ At(w, "waiting")
    /\ WGoto(w, "check")
    /\ UNCHANGED <<producerVars, poolVars, request, ready, running, jobVars, stopVars>>

\* A thread that goes on after its Worker was deleted reads freed memory;
\* what happens then is undefined and not followed further.
TouchDeleted(w) ==
    /\ w \in deleted \ touched
    /\ wpc[w] # "exited"
    /\ touched' = touched \cup {w}
    /\ UNCHANGED <<producerVars, poolVars, workerVars, jobVars, spc, deleted>>

-----------------------------------------------------------------------------
(* Dispatcher::stop takes no lock and leaves the queues alone. *)

StopBegin ==
    /\ MayStop
    /\ spc.at = "idle"
    /\ spc' = [at |-> "stop", i |-> 1]
    /\ UNCHANGED <<producerVars, poolVars, workerVars, jobVars, deleted, touched>>

StopWorker ==
    /\ spc.at = "stop"
    /\ spc.i <= Len(allWorkers)
    /\ running' = [running EXCEPT ![allWorkers[spc.i]] = FALSE]
    /\ spc' = [spc EXCEPT !.at = "delete"]
    /\ UNCHANGED <<producerVars, poolVars, wpc, request, ready, jobVars, deleted, touched>>

DeleteWorker ==
    /\ spc.at = "delete"
    /\ deleted' = deleted \cup {allWorkers[spc.i]}
    /\ spc' = [at |-> "stop", i |-> spc.i + 1]
    /\ UNCHANGED <<producerVars, poolVars, workerVars, jobVars, touched>>

StopToJoin ==
    /\ spc.at = "stop"
    /\ spc.i > Len(allWorkers)
    /\ spc' = [at |-> "join", i |-> 1]
    /\ UNCHANGED <<producerVars, poolVars, workerVars, jobVars, deleted, touched>>

JoinThread ==
    /\ spc.at = "join"
    /\ spc.i <= Len(allWorkers)
    /\ wpc[allWorkers[spc.i]] = "exited"
    /\ spc' = [spc EXCEPT !.i = @ + 1]
    /\ UNCHANGED <<producerVars, poolVars, workerVars, jobVars, deleted, touched>>

-----------------------------------------------------------------------------
AddRequestStep(p) == \/ AssignToIdle(p) \/ NotifyAndPop(p) \/ CreateWorker(p)
                     \/ FindNoWorker(p) \/ PushRequest(p) \/ UseDeletedWorker(p)

WorkerStep(w) == \/ LoopExit(w) \/ TakeRequest(w)
                 \/ Process(w) \/ Finish(w) \/ FetchRequest(w) \/ FindNoRequest(w)
                 \/ Enqueue(w) \/ CheckReady(w) \/ StartWait(w) \/ WaitOver(w)
                 \/ TouchDeleted(w)

StopStep == StopBegin \/ StopWorker \/ DeleteWorker \/ StopToJoin \/ JoinThread

Next == \/ \E p \in Producers : Submit(p) \/ AddRequestStep(p)
        \/ \E w \in Workers : WorkerStep(w)
        \/ StopStep

\* Threads run, callbacks return, wait_for times out.  Nobody has to submit.
Fairness == /\ \A p \in Producers : WF_vars(AddRequestStep(p))
            /\ \A w \in Workers : WF_vars(WorkerStep(w))

Spec == Init /\ [][Next]_vars /\ Fairness

-----------------------------------------------------------------------------
(* Properties *)

WorkerSteps == {"none", "loop", "process", "finish", "add", "enqueue",
                "check", "wait", "waiting", "exited"}

\* The variables of the pool, its workers and its producers have their types.
TypeOK ==
    /\ ppc \in [Producers -> {"idle", "add", "notify", "push"}]
    /\ preq \in [Producers -> Requests \cup {None}]
    /\ submitted \subseteq Requests
    /\ workersMutex \in Producers \cup {None}
    /\ requests \in Seq(Requests)
    /\ workers \in Seq(Workers)
    /\ allWorkers \in Seq(Workers)
    /\ wpc \in [Workers -> WorkerSteps]
    /\ request \in [Workers -> Requests \cup {None}]
    /\ ready \in [Workers -> BOOLEAN]
    /\ running \in [Workers -> BOOLEAN]
    /\ processed \in [Requests -> Nat]
    /\ finished \subseteq Requests
    /\ spc \in [at : {"idle", "stop", "delete", "join"}, i : Nat]
    /\ deleted \subseteq Workers
    /\ touched \subseteq deleted

\* Worker w has a request it has not finished.
Busy(w) == ready[w] \/ wpc[w] \in {"process", "finish"}

Places(r) ==
    {<<"producer", p>> : p \in {q \in Producers : preq[q] = r}}
    \cup {<<"queue", k>> : k \in {j \in 1..Len(requests) : requests[j] = r}}
    \cup {<<"worker", w>> : w \in {v \in Workers : Busy(v) /\ request[v] = r}}
    \cup {<<"finished", r>> : x \in finished \cap {r}}

\* A callback handed to addRequest is always in exactly one place: the
\* producer's hand, the queue, one worker's slot, or done.  It is neither lost
\* nor given to two workers.
InOnePlace == \A r \in submitted : Cardinality(Places(r)) = 1

\* A worker is queued as idle at most once.  Except the front one while a
\* producer hands it a request, a queued worker that has not been told to stop
\* waits in run() and has nothing to do.
IdleQueue ==
    /\ \A j, k \in 1..Len(workers) : workers[j] = workers[k] => j = k
    /\ \A k \in 1..Len(workers) :
          \/ workersMutex # None /\ k = 1
          \/ ~ running[workers[k]]
          \/ wpc[workers[k]] \in {"check", "wait", "waiting"} /\ ~ ready[workers[k]]

\* setRequest, which takes no lock, never replaces a request that its worker
\* has still to run or to finish.
SlotKept == [][\A w \in Workers : request'[w] # request[w] => ~ Busy(w)]_vars

Stopping == spc.at # "idle"

\* A worker that was given a request runs it to the end, although the notification
\* can come before the worker waits: again and again no worker is busy, unless
\* requests keep coming (here they are finitely many) or the pool is stopped.
AssignedRuns == []<>(Stopping \/ \A w \in Workers : ~ Busy(w))

\* The queue is emptied once some worker is given a request, unless the pool is
\* stopped.
QueueIsDrained ==
    requests # <<>> /\ (\E w \in Workers : ready[w]) ~> requests = <<>> \/ Stopping

\* The worker threads have terminated when stop cleans up their objects.
NoUseAfterDelete == touched = {}

\* What the pool promises: each callback runs once, at most PoolSize at a time.
Pool == INSTANCE WorkPool WITH
    active <- {request[w] : w \in {v \in Workers : wpc[v] \in {"process", "finish"}}},
    done   <- finished

\* The pool implements what WorkPool promises.
PoolSpec == Pool!Spec

=============================================================================
