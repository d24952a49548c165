----------------------------- MODULE WorkerPool -----------------------------
(***************************************************************************)
(* pool.py: the WorkerPool facade over a ThreadPoolExecutor, and what it   *)
(* relies on of the executor: a FIFO work queue, NWorkers threads, futures *)
(* that are cancelled with their awaiting task, shutdown(wait=True).       *)
(*                                                                         *)
(* A job is named by the task that awaits it; a task has one at a time.    *)
(* Everything except the executor's and the bootstrap's threads runs on    *)
(* the event loop, which stop() blocks until the executor has drained.     *)
(***************************************************************************)
EXTENDS Integers, Sequences

CONSTANTS
  Tasks, ContextIds, CtxId,   \* as in SynthService
  NWorkers,                   \* n_workers: SupertonicWorkers, and threads
  NoJob                       \* what an idle thread runs

ASSUME PoolAssumption ==
  /\ NWorkers \in Nat \ {0}
  /\ NoJob \notin Tasks
  /\ CtxId \in [Tasks -> ContextIds]

VARIABLES
  phase,      \* what _ready and _executor say, and the start or stop under way
  built,      \* workers built and warmed by the start() under way
  cancelled,  \* _state.cancelled
  next,       \* _next_worker_idx modulo n_workers
  fut,        \* the future of each task's job
  workQ,      \* the executor's work queue
  thread,     \* the job each executor thread runs
  worker      \* the worker each job was given

loopVars == <<phase, built, next, worker>>
jobVars == <<fut, workQ, thread>>
vars == <<cancelled, loopVars, jobVars>>

Phases == {"down", "starting", "ready", "stopping"}
Threads == 1..NWorkers
Workers == 0..(NWorkers - 1)

Init ==
  /\ phase = "down"
  /\ built = 0
  /\ cancelled = {}
  /\ next = 0
  /\ fut = [t \in Tasks |-> "idle"]
  /\ workQ = <<>>
  /\ thread = [i \in Threads |-> NoJob]
  /\ worker = [t \in Tasks |-> 0]

\* The event loop is not inside executor.shutdown(wait=True).
LoopRuns == phase # "stopping"
-----------------------------------------------------------------------------
(***************************************************************************)
(* start(): a bootstrap thread builds the workers one by one.  If one of   *)
(* them cannot be built start() raises and the pool is as before.          *)
(***************************************************************************)
StartBegin ==
  /\ phase = "down"
  /\ phase' = "starting"
  /\ built' = 0
  /\ UNCHANGED <<next, worker, jobVars>>

BuildWorker ==
  /\ phase = "starting"
  /\ built < NWorkers
  /\ built' = built + 1
  /\ UNCHANGED <<phase, next, worker, jobVars>>

BuildFails ==
  /\ phase = "starting"
  /\ built < NWorkers
  /\ phase' = "down"
  /\ UNCHANGED <<built, next, worker, jobVars>>

StartEnd ==
  /\ phase = "starting"
  /\ built = NWorkers
  /\ phase' = "ready"
  /\ UNCHANGED <<built, next, worker, jobVars>>

StopBegin ==
  /\ phase = "ready"
  /\ phase' = "stopping"
  /\ UNCHANGED <<built, next, worker, jobVars>>

\* shutdown(wait=True) returns when all jobs have run; a mutant waits until the
\* results have been read (by the loop that is waiting).
ShutWhenRead == \A t \in Tasks : fut[t] \in {"idle", "dropped"}

Shut == workQ = <<>> /\ \A i \in Threads : thread[i] = NoJob

StopEnd ==
  /\ phase = "stopping"
  /\ Shut
  /\ phase' = "down"
  /\ UNCHANGED <<built, next, worker, jobVars>>
-----------------------------------------------------------------------------
(***************************************************************************)
(* The operations of the sessions.  cancel() and forget() are synchronous  *)
(* and touch the flags only, which the operations on jobs leave alone (the *)
(* task that submits or collects may set them in the same step).           *)
(* synthesize() submits a job and awaits its future; a task may read one   *)
(* result and submit the next job in one step.                             *)
(***************************************************************************)
Cancel(c) ==
  /\ LoopRuns
  /\ cancelled' = cancelled \cup {c}
  /\ UNCHANGED <<loopVars, jobVars>>

Forget(c) ==
  /\ LoopRuns
  /\ cancelled' = cancelled \ {c}
  /\ UNCHANGED <<loopVars, jobVars>>

\* Round robin, and the mutant whose index leaves the range.
IndexAfterUnwrapped(n) == n + 1

IndexAfter(n) == (n + 1) % NWorkers

\* The worker is chosen here, whatever it is doing.
Submit(t) ==
  /\ phase = "ready"
  /\ fut[t] \in {"idle", "ok"}
  /\ CtxId[t] \notin cancelled
  /\ fut' = [fut EXCEPT ![t] = "queued"]
  /\ workQ' = Append(workQ, t)
  /\ worker' = [worker EXCEPT ![t] = next]
  /\ next' = IndexAfter(next)
  /\ UNCHANGED <<phase, built, thread>>

\* RuntimeError("pool not started"), before the flag is looked at.
Refuse(t) ==
  /\ phase \in {"down", "starting"}
  /\ fut[t] \in {"idle", "ok"}
  /\ fut' = [fut EXCEPT ![t] = "idle"]
  /\ UNCHANGED <<loopVars, workQ, thread>>

\* The awaiting task resumes.
Collect(t) ==
  /\ LoopRuns
  /\ fut[t] \in {"ok", "error"}
  /\ fut' = [fut EXCEPT ![t] = "idle"]
  /\ UNCHANGED <<loopVars, workQ, thread>>

\* What becomes of the future of a cancelled task; the mutant reuses it.
DroppedAsIdle(t) == "idle"

DroppedFuture(t) == "dropped"

\* The awaiting task is cancelled, and the future with it.  A job that has
\* not started stays in the work queue; one that runs goes on.
Drop(t) ==
  /\ LoopRuns
  /\ fut[t] \in {"queued", "running", "ok", "error"}
  /\ fut' = [fut EXCEPT ![t] = DroppedFuture(t)]
  /\ UNCHANGED <<loopVars, workQ, thread>>
-----------------------------------------------------------------------------
(***************************************************************************)
(* The executor's threads.  A cancelled job is skipped when its turn       *)
(* comes; a result or exception nobody awaits any more is lost.            *)
(***************************************************************************)
\* Mutant: a cancelled job is run all the same.
TakeAnyway(i) ==
  /\ thread[i] = NoJob
  /\ workQ # <<>>
  /\ workQ' = Tail(workQ)
  /\ thread' = [thread EXCEPT ![i] = Head(workQ)]
  /\ fut' = [fut EXCEPT ![Head(workQ)] = "running"]
  /\ UNCHANGED loopVars

Take(i) ==
  /\ thread[i] = NoJob
  /\ workQ # <<>>
  /\ workQ' = Tail(workQ)
  /\ IF fut[Head(workQ)] = "dropped"
       THEN UNCHANGED <<thread, fut>>
       ELSE /\ thread' = [thread EXCEPT ![i] = Head(workQ)]
            /\ fut' = [fut EXCEPT ![Head(workQ)] = "running"]
  /\ UNCHANGED loopVars

\* Setting the outcome of a job; mutants revive a dropped future, and lose an
\* exception.
RevivingOutcome(t, outcome) == fut' = [fut EXCEPT ![t] = outcome]

SwallowingOutcome(t, outcome) ==
  fut' = [fut EXCEPT ![t] = IF outcome = "error" THEN @ ELSE outcome]

SetOutcome(t, outcome) ==
  fut' = [fut EXCEPT ![t] = IF @ = "dropped" THEN @ ELSE outcome]

Finish(i) ==
  /\ thread[i] # NoJob
  /\ \E outcome \in {"ok", "error"} : SetOutcome(thread[i], outcome)
  /\ thread' = [thread EXCEPT ![i] = NoJob]
  /\ UNCHANGED <<loopVars, workQ>>
-----------------------------------------------------------------------------
Build == BuildWorker \/ BuildFails \/ StartEnd

Run(i) == Take(i) \/ Finish(i)

Lifecycle == StartBegin \/ Build \/ StopBegin \/ StopEnd

Job == \E t \in Tasks : Submit(t) \/ Refuse(t) \/ Collect(t) \/ Drop(t)

Next ==
  \/ \E c \in ContextIds : Cancel(c) \/ Forget(c)
  \/ /\ Lifecycle \/ Job \/ \E i \in Threads : Run(i)
     /\ UNCHANGED cancelled

Spec == Init /\ [][Next]_vars

(***************************************************************************)
(* Fairness: threads take jobs, a synthesis ends, and so does loading a    *)
(* model.  Nothing is assumed of the sessions.                             *)
(***************************************************************************)
FairSpec ==
  /\ Spec
  /\ WF_vars(Build /\ UNCHANGED cancelled)
  /\ WF_vars(StopEnd /\ UNCHANGED cancelled)
  /\ \A i \in Threads : WF_vars(Run(i) /\ UNCHANGED cancelled)
-----------------------------------------------------------------------------
\* Type invariant: the pool's attributes and the executor's state (pool.py)
\* keep to the ranges declared above; the round-robin index names a worker.
TypeOK ==
  /\ phase \in Phases
  /\ built \in 0..NWorkers
  /\ cancelled \subseteq ContextIds
  /\ next \in Workers
  /\ fut \in [Tasks -> {"idle", "queued", "running", "ok", "error", "dropped"}]
  /\ workQ \in Seq(Tasks)
  /\ thread \in [Threads -> Tasks \cup {NoJob}]
  /\ worker \in [Tasks -> Workers]

Queued(t) == \E k \in DOMAIN workQ : workQ[k] = t
OnThread(t) == \E i \in Threads : thread[i] = t

\* A job is in the queue or on one thread, never in both or twice, and its awaiting
\* task waits exactly while it is somewhere (unless it was cancelled).
OnePlace ==
  /\ \A j, k \in DOMAIN workQ : workQ[j] = workQ[k] => j = k
  /\ \A i, j \in Threads : thread[i] = thread[j] /\ thread[i] # NoJob => i = j
  /\ \A t \in Tasks :
       /\ ~(Queued(t) /\ OnThread(t))
       /\ Queued(t) => fut[t] \in {"queued", "dropped"}
       /\ OnThread(t) => fut[t] \in {"running", "dropped"}
       /\ fut[t] = "queued" => Queued(t)
       /\ fut[t] = "running" => OnThread(t)

\* Outside of ready and stopping the executor holds no job: stop() lets every
\* submitted job run and leaves no thread behind with a worker.
RestIsEmpty ==
  phase \in {"down", "starting"} =>
    workQ = <<>> /\ \A i \in Threads : thread[i] = NoJob

\* The worker a job was given is one that start() has built and warmed.
WorkersBuilt == \A t \in Tasks : Queued(t) \/ OnThread(t) => worker[t] < built

\* No job is lost, none runs twice, none outlives the executor that it was submitted
\* to, and none is given to a worker that a failed start() has not built (start,
\* synthesize, run_in_executor, stop).
JobPlaced == OnePlace /\ RestIsEmpty /\ WorkersBuilt

\* How a session sees its job.
callView ==
  [t \in Tasks |-> IF fut[t] \in {"queued", "running"} THEN "waiting" ELSE fut[t]]

Svc == INSTANCE SynthService WITH call <- callView

\* The pool is what the sessions are built on: SynthService.
ImplementsService == Svc!ServiceSpec

\* Every awaited synthesize() call returns, raises or is abandoned, stop() or not.
Answered == \A t \in Tasks : callView[t] = "waiting" ~> callView[t] # "waiting"

\* stop() returns although the event loop stands still meanwhile: draining the
\* executor needs nothing of the loop.
StopEnds == phase = "stopping" ~> phase = "down"
-----------------------------------------------------------------------------
\* worker.py:9-10: "Callers must serialize calls into a given worker (the pool
\* gives each worker its own queue)"; pool.py:143: "Synthesize one chunk on a free worker."
OneCallPerWorker ==
  \A i, j \in Threads :
    (i # j /\ thread[i] # NoJob /\ thread[j] # NoJob) =>
      worker[thread[i]] # worker[thread[j]]
=============================================================================
