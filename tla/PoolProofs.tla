----------------------------- MODULE PoolProofs -----------------------------
(***************************************************************************)
(* Proofs about WorkerPool, for every set of tasks, every assignment of    *)
(* context_ids and every number of workers: its type invariant, the two    *)
(* invariants that say where jobs are, and that it implements the          *)
(* SynthService the sessions are built on.                                 *)
(***************************************************************************)
EXTENDS WorkerPool, SequenceTheorems, TLAPS

\* The round-robin index stays within the workers.
LEMMA IndexInRange ==
  ASSUME NEW n \in Workers
  PROVE  IndexAfter(n) \in Workers
BY PoolAssumption DEF Workers, IndexAfter

\* What a Next step does, lifecycle, job and thread steps apart.
LEMMA NextCases ==
  ASSUME Next
  PROVE  \/ \E c \in ContextIds : Cancel(c) \/ Forget(c)
         \/ Lifecycle /\ UNCHANGED cancelled
         \/ \E t \in Tasks :
              (Submit(t) \/ Refuse(t) \/ Collect(t) \/ Drop(t)) /\ UNCHANGED cancelled
         \/ \E i \in Threads : (Take(i) \/ Finish(i)) /\ UNCHANGED cancelled
BY DEF Next, Job, Run

\* A thread takes the head of the work queue, which is a task's job.
LEMMA TakeShape ==
  ASSUME TypeOK, NEW i \in Threads, Take(i)
  PROVE  /\ Head(workQ) \in Tasks
         /\ workQ' \in Seq(Tasks)
         /\ Len(workQ') = Len(workQ) - 1
         /\ Len(workQ) \in Nat \ {0}
         /\ workQ[1] = Head(workQ)
         /\ \A k \in 1..Len(workQ') : workQ'[k] = workQ[k + 1]
<1>1. workQ \in Seq(Tasks) /\ workQ # <<>>
  BY DEF TypeOK, Take
<1>2. workQ' = Tail(workQ)
  BY DEF Take
<1>. QED
  BY <1>1, <1>2, HeadTailProperties

\* The state of the pool stays well typed.
LEMMA TypeStep == TypeOK /\ [Next]_vars => TypeOK'
<1> SUFFICES ASSUME TypeOK, [Next]_vars
             PROVE  TypeOK'
  OBVIOUS
<1> USE PoolAssumption
<1>1. CASE UNCHANGED vars
  BY <1>1 DEF TypeOK, vars, loopVars, jobVars
<1>2. ASSUME NEW c \in ContextIds, Cancel(c) \/ Forget(c)
      PROVE  TypeOK'
  BY <1>2 DEF TypeOK, Cancel, Forget, loopVars, jobVars
<1>3. CASE Lifecycle /\ UNCHANGED cancelled
  BY <1>3 DEF Lifecycle, Build, StartBegin, BuildWorker, BuildFails, StartEnd, StopBegin,
              StopEnd, TypeOK, Phases, jobVars
<1>4. ASSUME NEW t \in Tasks, UNCHANGED cancelled,
             Submit(t) \/ Refuse(t) \/ Collect(t) \/ Drop(t)
      PROVE  TypeOK'
  <2>1. CASE Submit(t)
    <3>1. workQ' \in Seq(Tasks)
      BY <2>1, AppendProperties DEF Submit, TypeOK
    <3>2. next' \in Workers
      BY <2>1, IndexInRange DEF Submit, TypeOK
    <3>. QED
      BY <1>4, <2>1, <3>1, <3>2 DEF Submit, TypeOK
  <2>2. CASE Refuse(t) \/ Collect(t) \/ Drop(t)
    BY <1>4, <2>2 DEF Refuse, Collect, Drop, DroppedFuture, TypeOK, loopVars
  <2>. QED
    BY <1>4, <2>1, <2>2
<1>5. ASSUME NEW i \in Threads, UNCHANGED cancelled, Take(i) \/ Finish(i)
      PROVE  TypeOK'
  <2>1. CASE Take(i)
    <3>1. Head(workQ) \in Tasks /\ workQ' \in Seq(Tasks)
      BY <2>1, TakeShape
    <3>2. fut' \in [Tasks -> {"idle", "queued", "running", "ok", "error", "dropped"}]
      BY <2>1, <3>1 DEF Take, TypeOK
    <3>3. thread' \in [Threads -> Tasks \cup {NoJob}]
      BY <2>1, <3>1 DEF Take, TypeOK
    <3>. QED
      BY <1>5, <2>1, <3>1, <3>2, <3>3 DEF Take, TypeOK, loopVars
  <2>2. CASE Finish(i)
    BY <1>5, <2>2 DEF Finish, SetOutcome, TypeOK, loopVars
  <2>. QED
    BY <1>5, <2>1, <2>2
<1>. QED
  BY <1>1, <1>2, <1>3, <1>4, <1>5, NextCases

\* The pool starts well typed.
LEMMA TypeInit == Init => TypeOK
BY PoolAssumption DEF Init, TypeOK, Phases, Workers, Threads

\* The attributes of the pool and of the executor are always well typed (pool.py).
THEOREM PoolTyped == Spec => []TypeOK
BY TypeInit, TypeStep, PTL DEF Spec
-----------------------------------------------------------------------------
\* Submitting puts the job at the end of the queue and nowhere else.
LEMMA SubmitPlaces ==
  ASSUME TypeOK, OnePlace, NEW t \in Tasks, Submit(t)
  PROVE  OnePlace'
<1>1. ~Queued(t) /\ ~OnThread(t)
  BY DEF OnePlace, Submit
<1>2. /\ workQ' \in Seq(Tasks) /\ workQ \in Seq(Tasks)
      /\ Len(workQ') = Len(workQ) + 1
      /\ Len(workQ) \in Nat
      /\ \A k \in 1..Len(workQ) : workQ'[k] = workQ[k]
      /\ workQ'[Len(workQ) + 1] = t
  BY AppendProperties DEF TypeOK, Submit
<1>3. DOMAIN workQ = 1..Len(workQ) /\ DOMAIN workQ' = 1..(Len(workQ) + 1)
  BY <1>2
<1>4. UNCHANGED thread /\ fut' = [fut EXCEPT ![t] = "queued"] /\ fut[t] \in {"idle", "ok"}
  BY DEF Submit
<1>5. \A k \in DOMAIN workQ : workQ[k] # t
  BY <1>1 DEF Queued
<1>6. \A j, k \in DOMAIN workQ' : workQ'[j] = workQ'[k] => j = k
  <2> SUFFICES ASSUME NEW j \in DOMAIN workQ', NEW k \in DOMAIN workQ', workQ'[j] = workQ'[k]
               PROVE  j = k
    OBVIOUS
  <2>1. (j \in DOMAIN workQ \/ j = Len(workQ) + 1) /\ (k \in DOMAIN workQ \/ k = Len(workQ) + 1)
    BY <1>2, <1>3
  <2>. QED
    BY <1>2, <1>3, <1>5, <2>1 DEF OnePlace
<1>7. \A u \in Tasks : Queued(u)' <=> Queued(u) \/ u = t
  <2> SUFFICES ASSUME NEW u \in Tasks
               PROVE  Queued(u)' <=> Queued(u) \/ u = t
    OBVIOUS
  <2>1. Queued(u) => Queued(u)'
    BY <1>2, <1>3 DEF Queued
  <2>2. u = t => Queued(u)'
    <3>1. Len(workQ) + 1 \in DOMAIN workQ'
      BY <1>2, <1>3
    <3>. QED
      BY <1>2, <3>1 DEF Queued
  <2>3. Queued(u)' => Queued(u) \/ u = t
    <3>1. \A k \in DOMAIN workQ' : k \in DOMAIN workQ \/ k = Len(workQ) + 1
      BY <1>2, <1>3
    <3>. QED
      BY <1>2, <1>3, <3>1 DEF Queued
  <2>. QED
    BY <2>1, <2>2, <2>3
<1>8. \A u \in Tasks : OnThread(u)' <=> OnThread(u)
  BY <1>4 DEF OnThread
<1>9. \A u \in Tasks : fut'[u] = IF u = t THEN "queued" ELSE fut[u]
  BY <1>4 DEF TypeOK
<1>. QED
  BY <1>1, <1>4, <1>6, <1>7, <1>8, <1>9 DEF OnePlace

\* A thread that takes a job has it alone, and a cancelled one is gone.
LEMMA TakePlaces ==
  ASSUME TypeOK, OnePlace, NEW i \in Threads, Take(i)
  PROVE  OnePlace'
<1> DEFINE t == Head(workQ)
<1>1. /\ t \in Tasks
      /\ workQ \in Seq(Tasks) /\ workQ' \in Seq(Tasks)
      /\ Len(workQ') = Len(workQ) - 1
      /\ Len(workQ) \in Nat \ {0}
      /\ workQ[1] = t
      /\ \A k \in 1..Len(workQ') : workQ'[k] = workQ[k + 1]
  BY TakeShape DEF TypeOK
<1>2. DOMAIN workQ = 1..Len(workQ) /\ DOMAIN workQ' = 1..(Len(workQ) - 1)
  BY <1>1
<1>3. IF fut[t] = "dropped"
        THEN UNCHANGED <<thread, fut>>
        ELSE /\ thread' = [thread EXCEPT ![i] = t]
             /\ fut' = [fut EXCEPT ![t] = "running"]
  BY DEF Take
<1>4. thread[i] = NoJob /\ t # NoJob
  BY <1>1, PoolAssumption DEF Take
<1> HIDE DEF t
<1>5. 1 \in DOMAIN workQ /\ Queued(t) /\ ~OnThread(t) /\ fut[t] \in {"queued", "dropped"}
  <2>1. 1 \in DOMAIN workQ
    BY <1>1, <1>2
  <2>2. Queued(t)
    BY <1>1, <2>1 DEF Queued
  <2>. QED
    BY <1>1, <2>1, <2>2 DEF OnePlace
<1>6. \A j, k \in DOMAIN workQ' : workQ'[j] = workQ'[k] => j = k
  <2> SUFFICES ASSUME NEW j \in DOMAIN workQ', NEW k \in DOMAIN workQ', workQ'[j] = workQ'[k]
               PROVE  j = k
    OBVIOUS
  <2>1. j \in Nat /\ k \in Nat /\ j + 1 \in DOMAIN workQ /\ k + 1 \in DOMAIN workQ
    BY <1>1, <1>2
  <2>2. workQ[j + 1] = workQ[k + 1]
    BY <1>1, <1>2
  <2>3. j + 1 = k + 1
    BY <2>1, <2>2 DEF OnePlace
  <2>. QED
    BY <2>1, <2>3
<1>7. \A u \in Tasks : Queued(u)' <=> Queued(u) /\ u # t
  <2> SUFFICES ASSUME NEW u \in Tasks
               PROVE  Queued(u)' <=> Queued(u) /\ u # t
    OBVIOUS
  <2>1. ASSUME Queued(u)'
        PROVE  Queued(u) /\ u # t
    <3>1. PICK k \in DOMAIN workQ' : workQ'[k] = u
      BY <2>1 DEF Queued
    <3>2. k + 1 \in DOMAIN workQ /\ workQ[k + 1] = u /\ k + 1 # 1
      BY <1>1, <1>2, <3>1
    <3>. QED
      BY <1>1, <1>5, <3>2 DEF Queued, OnePlace
  <2>2. ASSUME Queued(u), u # t
        PROVE  Queued(u)'
    <3>1. PICK k \in DOMAIN workQ : workQ[k] = u
      BY <2>2 DEF Queued
    <3>2. k - 1 \in DOMAIN workQ' /\ workQ'[k - 1] = u
      BY <1>1, <1>2, <2>2, <3>1
    <3>. QED
      BY <3>2 DEF Queued
  <2>. QED
    BY <2>1, <2>2
<1>8. CASE fut[t] = "dropped"
  <2>1. UNCHANGED <<thread, fut>>
    BY <1>3, <1>8
  <2>2. \A u \in Tasks : OnThread(u)' <=> OnThread(u)
    BY <2>1 DEF OnThread
  <2>. QED
    BY <1>6, <1>7, <1>8, <2>1, <2>2 DEF OnePlace
<1>9. CASE fut[t] # "dropped"
  <2>1. /\ \A j \in Threads : thread'[j] = IF j = i THEN t ELSE thread[j]
        /\ \A u \in Tasks : fut'[u] = IF u = t THEN "running" ELSE fut[u]
    BY <1>1, <1>3, <1>9 DEF TypeOK
  <2>2. \A u \in Tasks : OnThread(u)' <=> OnThread(u) \/ u = t
    BY <1>4, <2>1, PoolAssumption DEF OnThread
  <2>3. \A j, k \in Threads : thread'[j] = thread'[k] /\ thread'[j] # NoJob => j = k
    BY <1>4, <1>5, <2>1 DEF OnThread, OnePlace
  <2>. QED
    BY <1>5, <1>6, <1>7, <2>1, <2>2, <2>3 DEF OnePlace
<1>. QED
  BY <1>8, <1>9

\* A thread that is done frees itself and answers the task whose job it had.
LEMMA FinishPlaces ==
  ASSUME TypeOK, OnePlace, NEW i \in Threads, Finish(i)
  PROVE  OnePlace'
<1> DEFINE t == thread[i]
<1>1. t \in Tasks /\ t # NoJob
  BY DEF Finish, TypeOK
<1>2. PICK outcome \in {"ok", "error"} :
        fut' = [fut EXCEPT ![t] = IF fut[t] = "dropped" THEN fut[t] ELSE outcome]
  BY DEF Finish, SetOutcome
<1>3. UNCHANGED workQ /\ thread' = [thread EXCEPT ![i] = NoJob]
  BY DEF Finish
<1>4. OnThread(t) /\ fut[t] \in {"running", "dropped"} /\ ~Queued(t)
  BY <1>1 DEF OnThread, OnePlace
<1>5. /\ \A j \in Threads : thread'[j] = IF j = i THEN NoJob ELSE thread[j]
      /\ \A u \in Tasks :
           fut'[u] = IF u = t THEN (IF fut[t] = "dropped" THEN "dropped" ELSE outcome) ELSE fut[u]
  BY <1>1, <1>2, <1>3 DEF TypeOK
<1>6. \A u \in Tasks : Queued(u)' <=> Queued(u)
  BY <1>3 DEF Queued
<1>7. \A u \in Tasks : OnThread(u)' <=> OnThread(u) /\ u # t
  BY <1>1, <1>5, PoolAssumption DEF OnThread, OnePlace
<1>8. \A j, k \in DOMAIN workQ' : workQ'[j] = workQ'[k] => j = k
  BY <1>3 DEF OnePlace
<1>9. \A j, k \in Threads : thread'[j] = thread'[k] /\ thread'[j] # NoJob => j = k
  BY <1>5 DEF OnePlace
<1> HIDE DEF t
<1>. QED
  BY <1>1, <1>4, <1>5, <1>6, <1>7, <1>8, <1>9 DEF OnePlace

\* A step of the awaiting task moves its future only, and never back to waiting.
LEMMA TaskPlaces ==
  ASSUME TypeOK, OnePlace, NEW t \in Tasks, Refuse(t) \/ Collect(t) \/ Drop(t)
  PROVE  OnePlace'
<1>1. UNCHANGED <<workQ, thread>>
  BY DEF Refuse, Collect, Drop
<1>2. \A u \in Tasks : (Queued(u)' <=> Queued(u)) /\ (OnThread(u)' <=> OnThread(u))
  BY <1>1 DEF Queued, OnThread
<1>3. /\ \A u \in Tasks \ {t} : fut'[u] = fut[u]
      /\ \/ fut[t] \in {"idle", "ok", "error"} /\ fut'[t] \in {"idle", "dropped"}
         \/ fut'[t] = "dropped"
  BY DEF Refuse, Collect, Drop, DroppedFuture, TypeOK
<1>. QED
  BY <1>1, <1>2, <1>3 DEF OnePlace

\* A pool that is ready, or still was when stop() began, has all its workers.
ReadyIsWhole == phase \in {"ready", "stopping"} => built = NWorkers

\* The executor is empty whenever the pool is neither ready nor stopping, no job is
\* in two places, and a failed start() is not taken for a complete one.
PoolInv == TypeOK /\ OnePlace /\ RestIsEmpty /\ ReadyIsWhole

\* No step of the pool puts a job in two places or leaves one in an idle executor.
LEMMA PoolStep == PoolInv /\ [Next]_vars => PoolInv'
<1> SUFFICES ASSUME PoolInv, [Next]_vars
             PROVE  OnePlace' /\ RestIsEmpty' /\ ReadyIsWhole'
  BY TypeStep DEF PoolInv
<1> USE DEF PoolInv
<1>1. ASSUME UNCHANGED jobVars
      PROVE  OnePlace'
  BY <1>1 DEF OnePlace, Queued, OnThread, jobVars
<1>2. ASSUME UNCHANGED jobVars, UNCHANGED phase
      PROVE  RestIsEmpty'
  BY <1>2 DEF RestIsEmpty, jobVars
<1>0. ASSUME UNCHANGED loopVars
      PROVE  ReadyIsWhole'
  BY <1>0 DEF ReadyIsWhole, loopVars
<1>3. CASE UNCHANGED vars
  BY <1>1, <1>2, <1>0, <1>3 DEF vars, loopVars
<1>4. ASSUME NEW c \in ContextIds, Cancel(c) \/ Forget(c)
      PROVE  OnePlace' /\ RestIsEmpty' /\ ReadyIsWhole'
  BY <1>1, <1>2, <1>0, <1>4 DEF Cancel, Forget, loopVars
<1>5. CASE Lifecycle
  <2>1. OnePlace'
    BY <1>1, <1>5 DEF Lifecycle, Build, StartBegin, BuildWorker, BuildFails, StartEnd, StopBegin,
                      StopEnd
  <2>2. RestIsEmpty'
    BY <1>5 DEF Lifecycle, Build, StartBegin, BuildWorker, BuildFails, StartEnd, StopBegin,
                StopEnd, Shut, RestIsEmpty, jobVars
  <2>3. ReadyIsWhole'
    BY <1>5 DEF Lifecycle, Build, StartBegin, BuildWorker, BuildFails, StartEnd, StopBegin,
                StopEnd, ReadyIsWhole
  <2>. QED
    BY <2>1, <2>2, <2>3
<1>6. ASSUME NEW t \in Tasks, Submit(t) \/ Refuse(t) \/ Collect(t) \/ Drop(t)
      PROVE  OnePlace' /\ RestIsEmpty' /\ ReadyIsWhole'
  <2>1. OnePlace'
    BY <1>6, SubmitPlaces, TaskPlaces
  <2>2. RestIsEmpty'
    BY <1>6 DEF Submit, Refuse, Collect, Drop, RestIsEmpty, loopVars
  <2>3. ReadyIsWhole'
    BY <1>6 DEF Submit, Refuse, Collect, Drop, ReadyIsWhole, loopVars
  <2>. QED
    BY <2>1, <2>2, <2>3
<1>7. ASSUME NEW i \in Threads, Take(i) \/ Finish(i)
      PROVE  OnePlace' /\ RestIsEmpty' /\ ReadyIsWhole'
  <2>1. OnePlace'
    BY <1>7, TakePlaces, FinishPlaces
  <2>2. RestIsEmpty'
    BY <1>7 DEF Take, Finish, RestIsEmpty, loopVars
  <2>3. ReadyIsWhole'
    BY <1>0, <1>7 DEF Take, Finish
  <2>. QED
    BY <2>1, <2>2, <2>3
<1>. QED
  BY <1>3, <1>4, <1>5, <1>6, <1>7, NextCases

\* The pool starts with no job anywhere.
LEMMA PoolInit == Init => PoolInv
BY TypeInit, PoolAssumption
DEF Init, PoolInv, OnePlace, RestIsEmpty, ReadyIsWhole, Queued, OnThread, Threads

\* The invariant holds for every number of workers and every set of tasks.
LEMMA PoolSafe == Spec => []PoolInv
BY PoolInit, PoolStep, PTL DEF Spec

\* No job of the executor is lost, runs twice or is left behind when stop() has
\* returned, whatever is cancelled and whenever the pool stops; each has a worker
\* that was built, however often start() failed before.
THEOREM JobsPlaced == Spec => []JobPlaced
<1>1. ASSUME PoolInv, NEW t \in Tasks, Queued(t) \/ OnThread(t)
      PROVE  worker[t] < built
  <2>1. phase \in {"ready", "stopping"}
    <3>1. NoJob # t
      BY PoolAssumption
    <3>. QED
      BY <1>1, <3>1 DEF PoolInv, TypeOK, Phases, RestIsEmpty, Queued, OnThread
  <2>2. worker[t] \in 0..(NWorkers - 1) /\ built = NWorkers
    BY <1>1, <2>1 DEF PoolInv, ReadyIsWhole, TypeOK, Workers
  <2>. QED
    BY <2>2, PoolAssumption
<1>2. PoolInv => JobPlaced
  BY <1>1 DEF PoolInv, JobPlaced, WorkersBuilt
<1>. QED
  BY <1>2, PoolSafe, PTL
-----------------------------------------------------------------------------
\* What a session sees of the call of each task, before and after a step that
\* changes the future of task t only.
LEMMA ViewOfStep ==
  ASSUME TypeOK, NEW t \in Tasks, NEW state, fut' = [fut EXCEPT ![t] = state]
  PROVE  callView' = [callView EXCEPT ![t] =
                        IF state \in {"queued", "running"} THEN "waiting" ELSE state]
BY DEF callView, TypeOK

\* At first no task has a call.
LEMMA ServiceInitially == Init => Svc!ServiceInit
BY DEF Init, Svc!ServiceInit, callView

\* A step of an awaiting task is the step of the service of the same name.
LEMMA TaskServes ==
  ASSUME TypeOK, NEW t \in Tasks, UNCHANGED cancelled,
         Submit(t) \/ Refuse(t) \/ Collect(t) \/ Drop(t)
  PROVE  Svc!ServiceNext
<1> USE DEF Svc!ServiceNext, Svc!CallStep
<1>0. callView[t] = IF fut[t] \in {"queued", "running"} THEN "waiting" ELSE fut[t]
  BY DEF callView
<1>1. CASE Submit(t)
  <2>1. callView' = [callView EXCEPT ![t] = "waiting"]
    BY <1>1, ViewOfStep DEF Submit
  <2>. QED
    BY <1>0, <1>1, <2>1 DEF Submit, Svc!Submit, Svc!IsCancelled
<1>2. CASE Refuse(t)
  <2>1. callView' = [callView EXCEPT ![t] = "idle"]
    BY <1>2, ViewOfStep DEF Refuse
  <2>. QED
    BY <1>0, <1>2, <2>1 DEF Refuse, Svc!Refuse
<1>3. CASE Collect(t)
  <2>1. callView' = [callView EXCEPT ![t] = "idle"]
    BY <1>3, ViewOfStep DEF Collect
  <2>. QED
    BY <1>0, <1>3, <2>1 DEF Collect, Svc!Collect
<1>4. CASE Drop(t)
  <2>1. callView' = [callView EXCEPT ![t] = "dropped"]
    BY <1>4, ViewOfStep DEF Drop, DroppedFuture
  <2>. QED
    BY <1>0, <1>4, <2>1 DEF Drop, Svc!Drop
<1>. QED
  BY <1>1, <1>2, <1>3, <1>4

\* A thread that takes a job changes nothing a session sees; one that ends a job
\* resolves the call, unless that was dropped.
LEMMA ThreadAnswers ==
  ASSUME PoolInv, NEW i \in Threads, Take(i) \/ Finish(i)
  PROVE  \/ UNCHANGED callView
         \/ \E t \in Tasks :
              /\ callView[t] = "waiting"
              /\ \E outcome \in {"ok", "error"} : callView' = [callView EXCEPT ![t] = outcome]
<1> USE DEF PoolInv
<1>1. CASE Take(i)
  <2> DEFINE t == Head(workQ)
  <2>1. t \in Tasks /\ Queued(t)
    BY <1>1, TakeShape DEF Queued, TypeOK
  <2>2. fut[t] \in {"queued", "dropped"}
    BY <2>1 DEF OnePlace
  <2>3. fut' = fut \/ fut' = [fut EXCEPT ![t] = "running"]
    BY <1>1 DEF Take
  <2>4. fut' = fut \/ fut[t] = "queued"
    BY <1>1, <2>2 DEF Take
  <2> HIDE DEF t
  <2>5. callView' = callView
    BY <2>1, <2>3, <2>4, ViewOfStep DEF callView, TypeOK
  <2>. QED
    BY <2>5
<1>2. CASE Finish(i)
  <2> DEFINE t == thread[i]
  <2>1. t \in Tasks /\ OnThread(t)
    BY <1>2 DEF Finish, TypeOK, OnThread
  <2>2. fut[t] \in {"running", "dropped"}
    BY <2>1 DEF OnePlace
  <2>3. PICK outcome \in {"ok", "error"} :
          fut' = [fut EXCEPT ![t] = IF fut[t] = "dropped" THEN fut[t] ELSE outcome]
    BY <1>2 DEF Finish, SetOutcome
  <2> HIDE DEF t
  <2>4. CASE fut[t] = "dropped"
    BY <2>1, <2>3, <2>4 DEF callView, TypeOK
  <2>5. CASE fut[t] = "running"
    <3>1. fut' = [fut EXCEPT ![t] = outcome]
      BY <2>3, <2>5
    <3>2. callView' = [callView EXCEPT ![t] = outcome]
      BY <2>1, <3>1, ViewOfStep
    <3>3. callView[t] = "waiting"
      BY <2>1, <2>5 DEF callView
    <3>. QED
      BY <2>1, <3>2, <3>3
  <2>. QED
    BY <2>2, <2>4, <2>5
<1>. QED
  BY <1>1, <1>2

\* A step of a thread is the service resolving a call, or none.
LEMMA ThreadServes ==
  ASSUME PoolInv, NEW i \in Threads, UNCHANGED cancelled, Take(i) \/ Finish(i)
  PROVE  Svc!ServiceNext \/ UNCHANGED <<cancelled, callView>>
<1>1. CASE UNCHANGED callView
  BY <1>1
<1>2. ASSUME NEW t \in Tasks, callView[t] = "waiting",
             \E outcome \in {"ok", "error"} : callView' = [callView EXCEPT ![t] = outcome]
      PROVE  Svc!ServiceNext
  BY <1>2 DEF Svc!ServiceNext, Svc!CallStep, Svc!Resolve
<1>. QED
  BY <1>1, <1>2, ThreadAnswers

\* Every step of the pool is a step of the service or changes nothing of it.
LEMMA PoolServes == PoolInv /\ [Next]_vars => [Svc!ServiceNext]_(Svc!serviceVars)
<1> SUFFICES ASSUME PoolInv, [Next]_vars
             PROVE  Svc!ServiceNext \/ UNCHANGED <<cancelled, callView>>
  BY DEF Svc!serviceVars
<1>0. UNCHANGED jobVars => UNCHANGED callView
  BY DEF jobVars, callView
<1>1. CASE UNCHANGED vars
  BY <1>0, <1>1 DEF vars
<1>2. ASSUME NEW c \in ContextIds, Cancel(c)
      PROVE  Svc!ServiceNext
  <2>1. Svc!Cancel({c})
    BY <1>2 DEF Cancel, Svc!Cancel
  <2>. QED
    BY <1>0, <1>2, <2>1 DEF Cancel, Svc!ServiceNext, Svc!FlagStep
<1>3. ASSUME NEW c \in ContextIds, Forget(c)
      PROVE  Svc!ServiceNext
  <2>1. Svc!Forget(c)
    BY <1>3 DEF Forget, Svc!Forget
  <2>. QED
    BY <1>0, <1>3, <2>1 DEF Forget, Svc!ServiceNext, Svc!FlagStep
<1>4. CASE Lifecycle /\ UNCHANGED cancelled
  BY <1>0, <1>4 DEF Lifecycle, Build, StartBegin, BuildWorker, BuildFails, StartEnd,
                    StopBegin, StopEnd
<1>5. ASSUME NEW t \in Tasks, UNCHANGED cancelled,
             Submit(t) \/ Refuse(t) \/ Collect(t) \/ Drop(t)
      PROVE  Svc!ServiceNext
  BY <1>5, TaskServes DEF PoolInv
<1>6. ASSUME NEW i \in Threads, UNCHANGED cancelled, Take(i) \/ Finish(i)
      PROVE  Svc!ServiceNext \/ UNCHANGED <<cancelled, callView>>
  BY <1>6, ThreadServes
<1>. QED
  BY <1>1, <1>2, <1>3, <1>4, <1>5, <1>6, NextCases

\* The pool with its queue, threads and workers is the service the sessions rely
\* on: a call is answered at most once and only while it is awaited, and a flagged
\* context_id gets no new call (pool.py, WorkerPool).
THEOREM PoolImplementsService == Spec => ImplementsService
BY ServiceInitially, PoolSafe, PoolServes, PTL DEF Spec, ImplementsService, Svc!ServiceSpec
=============================================================================
