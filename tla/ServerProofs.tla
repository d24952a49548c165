---------------------------- MODULE ServerProofs ----------------------------
(***************************************************************************)
(* Proofs about Server, for every set of sessions and contexts and every   *)
(* number of workers: over the real pool the sessions behave as Session    *)
(* says, so that what is proved of Session holds of the whole server.      *)
(***************************************************************************)
EXTENDS Server, TLAPS

(***************************************************************************)
(* Where jobs are does not depend on the flags: a thread looks at futures  *)
(* only.  The steps of the server are therefore steps of a pool that has   *)
(* no flag, whatever flag the task sets or clears in the same step, and    *)
(* the invariant of PoolProofs holds.                                      *)
(***************************************************************************)
Jobs == INSTANCE PoolProofs WITH Tasks <- Tasks \cup Others, cancelled <- {}

\* The constants of the server are good ones for a pool.
LEMMA JobsAssumption ==
  /\ NWorkers \in Nat \ {0}
  /\ NoJob \notin Tasks \cup Others
  /\ CtxId \in [Tasks \cup Others -> ContextIds]
BY ServerAssumption

\* What a step of the server does to the pool.
LEMMA PoolPart ==
  ASSUME [Next]_vars
  PROVE  \/ UNCHANGED poolVars
         \/ Pool!Lifecycle
         \/ \E t \in Tasks \cup Others :
              Pool!Submit(t) \/ Pool!Collect(t) \/ Pool!Drop(t)
         \/ \E i \in Pool!Threads : Pool!Run(i)
<1>1. CASE UNCHANGED vars
  BY <1>1 DEF vars
<1>2. CASE Boot \/ Shutdown \/ ShutdownEnds
  BY <1>2 DEF Boot, Shutdown, ShutdownEnds, Pool!Lifecycle, Pool!Build
<1>3. ASSUME NEW i \in Pool!Threads, ThreadStep(i)
      PROVE  Pool!Run(i)
  BY <1>3 DEF ThreadStep
<1>4. ASSUME NEW s \in Sessions,
             ClientStep(s) \/ Accept(s) \/ BadStep(s) \/ ReplyStep(s) \/ CloseStep(s)
      PROVE  UNCHANGED poolVars \/ \E t \in Tasks : Pool!Drop(t)
  BY <1>4 DEF ClientStep, Accept, BadStep, ReplyStep, CloseStep
<1>5. ASSUME NEW t \in Tasks, FrameStep(t) \/ EmitStep(t)
      PROVE  UNCHANGED poolVars \/ Pool!Submit(t) \/ Pool!Collect(t)
  BY <1>5 DEF FrameStep, EmitStep
<1>6. ASSUME NEW o \in Others, OtherStep(o)
      PROVE  Pool!Submit(o) \/ Pool!Collect(o) \/ Pool!Drop(o)
  BY <1>6 DEF OtherStep
<1>7. CASE Over
  BY <1>7 DEF Over, vars
<1>. QED
  BY <1>1, <1>2, <1>3, <1>4, <1>5, <1>6, <1>7 DEF Next

\* Every step of the server is one of the pool without flags, or none.
LEMMA JobsStep == [Next]_vars => [Jobs!Next]_(Jobs!vars)
<1> SUFFICES ASSUME [Next]_vars
             PROVE  Jobs!Next \/ UNCHANGED Jobs!vars
  OBVIOUS
<1>1. CASE UNCHANGED poolVars
  BY <1>1 DEF poolVars, Jobs!vars, Jobs!loopVars, Jobs!jobVars
<1>2. CASE Pool!Lifecycle
  <2>1. Jobs!Lifecycle
    BY <1>2 DEF Pool!Lifecycle, Pool!Build, Pool!StartBegin, Pool!BuildWorker,
      Pool!BuildFails, Pool!StartEnd, Pool!StopBegin, Pool!StopEnd, Pool!Shut,
      Pool!Threads, Pool!jobVars,
      Jobs!Lifecycle, Jobs!Build, Jobs!StartBegin, Jobs!BuildWorker,
      Jobs!BuildFails, Jobs!StartEnd, Jobs!StopBegin, Jobs!StopEnd, Jobs!Shut,
      Jobs!Threads, Jobs!jobVars
  <2>. QED
    BY <2>1 DEF Jobs!Next
<1>3. ASSUME NEW t \in Tasks \cup Others, Pool!Submit(t) \/ Pool!Collect(t) \/ Pool!Drop(t)
      PROVE  Jobs!Next
  <2>1. Jobs!Submit(t) \/ Jobs!Collect(t) \/ Jobs!Drop(t)
    BY <1>3 DEF Pool!Submit, Pool!Collect, Pool!Drop, Pool!DroppedFuture, Pool!IndexAfter,
      Pool!LoopRuns, Pool!loopVars,
      Jobs!Submit, Jobs!Collect, Jobs!Drop, Jobs!DroppedFuture, Jobs!IndexAfter,
      Jobs!LoopRuns, Jobs!loopVars
  <2>. QED
    BY <2>1 DEF Jobs!Next, Jobs!Job
<1>4. ASSUME NEW i \in Pool!Threads, Pool!Run(i)
      PROVE  Jobs!Next
  <2>1. i \in Jobs!Threads /\ Jobs!Run(i)
    BY <1>4 DEF Pool!Run, Pool!Take, Pool!Finish, Pool!SetOutcome, Pool!loopVars, Pool!Threads,
      Jobs!Run, Jobs!Take, Jobs!Finish, Jobs!SetOutcome, Jobs!loopVars, Jobs!Threads
  <2>. QED
    BY <2>1 DEF Jobs!Next
<1>. QED
  BY <1>1, <1>2, <1>3, <1>4, PoolPart

\* Under the sessions, too, the executor has every job in one place, and holds none
\* before the lifespan begins and after it has ended (pool.py under server.py).
THEOREM JobsSafe == Spec => []Jobs!PoolInv
<1>1. Init => Jobs!Init
  BY DEF Init, Pool!Init, Jobs!Init, Pool!Threads, Jobs!Threads
<1>2. Jobs!Init => Jobs!PoolInv
  BY Jobs!PoolInit, JobsAssumption
<1>3. Jobs!PoolInv /\ [Jobs!Next]_(Jobs!vars) => Jobs!PoolInv'
  BY Jobs!PoolStep, JobsAssumption
<1>. QED
  BY <1>1, <1>2, <1>3, JobsStep, PTL DEF Spec
-----------------------------------------------------------------------------
\* A step that leaves the calls of the tasks alone, and the sessions, is none of
\* Session.
LEMMA Stutters ==
  ASSUME UNCHANGED <<cancelled, sesVars>>, \A t \in Tasks : Pool!callView'[t] = Pool!callView[t]
  PROVE  UNCHANGED Ses!vars
BY DEF sesVars, Ses!vars, Ses!serviceVars, Ses!sessionVars, Ses!taskVars, Ses!clientVars,
       Ses!emitVars

\* A thread answers the call of a task, or does nothing a session of the server
\* sees: it took a job, it ended one of another connection, or a dropped one.
LEMMA ThreadsAnswer ==
  ASSUME Jobs!PoolInv, NEW i \in Pool!Threads, ThreadStep(i)
  PROVE  (\E t \in Tasks : Ses!PoolAnswers(t)) \/ UNCHANGED Ses!vars
<1>1. Jobs!Take(i) \/ Jobs!Finish(i)
  BY DEF ThreadStep, Pool!Run, Pool!Take, Pool!Finish, Pool!SetOutcome, Pool!loopVars,
    Jobs!Take, Jobs!Finish, Jobs!SetOutcome, Jobs!loopVars
<1>2. i \in Jobs!Threads
  BY DEF Pool!Threads, Jobs!Threads
<1>3. \/ UNCHANGED Jobs!callView
      \/ \E t \in Tasks \cup Others :
           /\ Jobs!callView[t] = "waiting"
           /\ \E outcome \in {"ok", "error"} :
                Jobs!callView' = [Jobs!callView EXCEPT ![t] = outcome]
  BY <1>1, <1>2, JobsAssumption, Jobs!ThreadAnswers
<1>4. Pool!callView = Jobs!callView /\ Pool!callView' = Jobs!callView'
  BY DEF Pool!callView, Jobs!callView
<1>5. UNCHANGED <<cancelled, sesVars>>
  BY DEF ThreadStep
<1>6. CASE UNCHANGED Jobs!callView
  BY <1>4, <1>5, <1>6, Stutters
<1>7. ASSUME NEW t \in Tasks \cup Others, Jobs!callView[t] = "waiting",
             NEW outcome \in {"ok", "error"},
             Jobs!callView' = [Jobs!callView EXCEPT ![t] = outcome]
      PROVE  (\E u \in Tasks : Ses!PoolAnswers(u)) \/ UNCHANGED Ses!vars
  <2> DEFINE view == [u \in Tasks |-> Pool!callView[u]]
  <2>1. \A u \in Tasks : Pool!callView'[u] = IF u = t THEN outcome ELSE Pool!callView[u]
    BY <1>4, <1>7 DEF Pool!callView
  <2>2. CASE t \in Tasks
    <3>1. view[t] = "waiting" /\ view' = [view EXCEPT ![t] = outcome]
      BY <1>4, <1>7, <2>1, <2>2
    <3>2. Ses!Resolve(t)
      BY <3>1 DEF Ses!Resolve
    <3>3. Ses!PoolAnswers(t)
      BY <1>5, <3>2 DEF Ses!PoolAnswers, sesVars, Ses!sessionVars, Ses!taskVars, Ses!clientVars,
        Ses!emitVars
    <3>. QED
      BY <2>2, <3>3
  <2>3. CASE t \notin Tasks
    BY <1>5, <2>1, <2>3, Stutters
  <2>. QED
    BY <2>2, <2>3
<1>. QED
  BY <1>3, <1>6, <1>7

\* The lifespan leaves every future alone, and the calls with it.
LEMMA LifespanStutters ==
  ASSUME Boot \/ Shutdown \/ ShutdownEnds
  PROVE  UNCHANGED Ses!vars
<1>1. UNCHANGED <<fut, cancelled, sesVars>>
  BY DEF Boot, Shutdown, ShutdownEnds, Pool!StartBegin, Pool!Build, Pool!BuildWorker,
    Pool!BuildFails, Pool!StartEnd, Pool!StopBegin, Pool!StopEnd, Pool!jobVars
<1>2. Pool!callView' = Pool!callView
  BY <1>1 DEF Pool!callView
<1>. QED
  BY <1>1, <1>2, Stutters

\* Another connection moves its own call only.
LEMMA OthersStutter ==
  ASSUME NEW o \in Others, OtherStep(o)
  PROVE  UNCHANGED Ses!vars
<1>1. UNCHANGED <<cancelled, sesVars>> /\ o \notin Tasks
  BY ServerAssumption DEF OtherStep
<1>2. \E state : fut' = [fut EXCEPT ![o] = state]
  BY DEF OtherStep, Pool!Submit, Pool!Collect, Pool!Drop
<1>3. \A t \in Tasks : fut'[t] = fut[t]
  BY <1>1, <1>2
<1>4. \A t \in Tasks : Pool!callView'[t] = Pool!callView[t]
  BY <1>3 DEF Pool!callView
<1>. QED
  BY <1>1, <1>4, Stutters

\* A step of a connection or of an emit task is that step of Session.
LEMMA SessionSteps ==
  /\ \A s \in Sessions :
       ClientStep(s) \/ Accept(s) \/ BadStep(s) \/ ReplyStep(s) \/ CloseStep(s) => Ses!Next
  /\ \A t \in Tasks : FrameStep(t) \/ EmitStep(t) => Ses!Next
<1>1. ASSUME NEW s \in Sessions,
             ClientStep(s) \/ Accept(s) \/ BadStep(s) \/ ReplyStep(s) \/ CloseStep(s)
      PROVE  Ses!Next
  BY <1>1 DEF ClientStep, Accept, BadStep, ReplyStep, CloseStep, Ses!Close, Ses!Next
<1>2. ASSUME NEW t \in Tasks, FrameStep(t) \/ EmitStep(t)
      PROVE  Ses!Next
  BY <1>2 DEF FrameStep, EmitStep, Ses!Emit, Ses!Next
<1>. QED
  BY <1>1, <1>2

\* Every step of the server is one step of the sessions, or none.
LEMMA ServerStep == Jobs!PoolInv /\ [Next]_vars => [Ses!Next]_(Ses!vars)
<1> SUFFICES ASSUME Jobs!PoolInv, [Next]_vars
             PROVE  Ses!Next \/ UNCHANGED Ses!vars
  OBVIOUS
<1>1. CASE UNCHANGED vars
  <2>1. UNCHANGED <<fut, cancelled, sesVars>>
    BY <1>1 DEF vars, poolVars
  <2>2. Pool!callView' = Pool!callView
    BY <2>1 DEF Pool!callView
  <2>. QED
    BY <2>1, <2>2, Stutters
<1>2. CASE Boot \/ Shutdown \/ ShutdownEnds
  BY <1>2, LifespanStutters
<1>3. ASSUME NEW i \in Pool!Threads, ThreadStep(i)
      PROVE  Ses!Next \/ UNCHANGED Ses!vars
  <2>1. (\E t \in Tasks : Ses!PoolAnswers(t)) => Ses!Next
    BY DEF Ses!Next
  <2>. QED
    BY <1>3, <2>1, ThreadsAnswer
<1>4. ASSUME NEW o \in Others, OtherStep(o)
      PROVE  UNCHANGED Ses!vars
  BY <1>4, OthersStutter
<1>5. CASE Over
  BY <1>1, <1>5 DEF Over
<1>. QED
  BY <1>1, <1>2, <1>3, <1>4, <1>5, SessionSteps DEF Next

\* At first no session has begun and no call is out.
LEMMA ServerInit == Init => Ses!Init
<1> SUFFICES ASSUME Init
             PROVE  Ses!Init
  OBVIOUS
<1>1. [t \in Tasks |-> Pool!callView[t]] = [t \in Tasks |-> "idle"]
  BY DEF Init, Pool!Init, Pool!callView
<1>. QED
  BY <1>1 DEF Init, Ses!Init, Ses!ServiceInit

\* The sessions behave over the real pool, with its queue, its threads, other
\* connections' jobs and a shutdown under them, as Session says over the service
\* (server.py and session.py over pool.py).
THEOREM ServerImplementsSession == Spec => ImplementsSession
BY ServerInit, ServerStep, JobsSafe, PTL DEF Spec, ImplementsSession, Ses!Spec
-----------------------------------------------------------------------------
(***************************************************************************)
(* What is proved of Session for one session after the other holds over    *)
(* the whole server.  Told is Session as the server has it, with its       *)
(* theorems.                                                               *)
(***************************************************************************)
Told == INSTANCE StreamProofs WITH
  CtxId <- [t \in Tasks |-> CtxId[t]],
  call <- [t \in Tasks |-> Pool!callView[t]]

\* No two contexts of the server have the same id, those of Others included.
AllIdsDistinct == \A t, u \in Tasks \cup Others : CtxId[t] = CtxId[u] => t = u

\* The constants of the server are good ones for its sessions.
LEMMA ToldAssumption ==
  LET id == [t \in Tasks |-> CtxId[t]]
  IN  /\ id \in [Tasks -> ContextIds]
      /\ SessionOf \in [Tasks -> Sessions]
      /\ \A t, u \in Tasks : SessionOf[t] = SessionOf[u] /\ id[t] = id[u] => t = u
      /\ MaxChunks \in Nat
      /\ MaxQueue \in Nat
      /\ Frames \in [1..MaxChunks -> Nat]
BY ServerAssumption

\* The two instances of Session are one.
LEMMA SameSession == (Ses!Init <=> Told!Init) /\ ([Ses!Next]_(Ses!vars) <=> [Told!Next]_(Told!vars))
<1>1. Ses!Init <=> Told!Init
  BY DEF Ses!Init, Told!Init, Ses!ServiceInit, Told!ServiceInit, Ses!Unended, Told!Unended
<1>2. [Ses!Next]_(Ses!vars) <=> [Told!Next]_(Told!vars)
  BY DEF
       Ses!serviceVars, Ses!IsCancelled, Ses!Cancel, Ses!Forget, Ses!Submit, Ses!Refuse,
       Ses!Resolve, Ses!Collect, Ses!Drop, Ses!sessionVars, Ses!clientVars,
       Ses!emitVars, Ses!taskVars, Ses!vars, Ses!EOF, Ses!Unended, Ses!AudioFrame,
       Ses!DoneFrame, Ses!ErrorFrame, Ses!Sending, Ses!Live, Ses!Connect, Ses!Stall,
       Ses!Disconnect, Ses!Enter, Ses!Lookup, Ses!Put, Ses!OnText, Ses!End,
       Ses!PushText, Ses!FlushTail, Ses!FinalText, Ses!FlushText, Ses!DrainAndWake,
       Ses!Known, Ses!CancelFrame, Ses!BadFrame, Ses!ReplyDone, Ses!Send, Ses!GoTo,
       Ses!NoCall, Ses!Finish, Ses!Fail, Ses!ShipFrame, Ses!LoopParks, Ses!LoopQuits,
       Ses!LoopSynthesizes, Ses!LoopEnds, Ses!LoopRefused, Ses!Loop, Ses!EmitGet,
       Ses!EmitResult, Ses!EmitRaises, Ses!ShipOver, Ses!EmitShip, Ses!EmitLast,
       Ses!EmitSendRaises, Ses!Wake, Ses!CancelAll, Ses!CloseRest, Ses!HangUp,
       Ses!Crash, Ses!CloseJoined, Ses!TimesOut, Ses!Abandon, Ses!CloseTimeout,
       Ses!PoolAnswers, Ses!Over, Ses!Next,
       Told!serviceVars, Told!IsCancelled, Told!Cancel, Told!Forget, Told!Submit,
       Told!Refuse, Told!Resolve, Told!Collect, Told!Drop, Told!sessionVars,
       Told!clientVars, Told!emitVars, Told!taskVars, Told!vars, Told!EOF, Told!Unended,
       Told!AudioFrame, Told!DoneFrame, Told!ErrorFrame, Told!Sending, Told!Live,
       Told!Connect, Told!Stall, Told!Disconnect, Told!Enter, Told!Lookup, Told!Put,
       Told!OnText, Told!End, Told!PushText, Told!FlushTail, Told!FinalText,
       Told!FlushText, Told!DrainAndWake, Told!Known, Told!CancelFrame, Told!BadFrame,
       Told!ReplyDone, Told!Send, Told!GoTo, Told!NoCall, Told!Finish, Told!Fail,
       Told!ShipFrame, Told!LoopParks, Told!LoopQuits, Told!LoopSynthesizes,
       Told!LoopEnds, Told!LoopRefused, Told!Loop, Told!EmitGet, Told!EmitResult,
       Told!EmitRaises, Told!ShipOver, Told!EmitShip, Told!EmitLast,
       Told!EmitSendRaises, Told!Wake, Told!CancelAll, Told!CloseRest, Told!HangUp,
       Told!Crash, Told!CloseJoined, Told!TimesOut, Told!Abandon, Told!CloseTimeout,
       Told!PoolAnswers, Told!Over, Told!Next
<1>. QED
  BY <1>1, <1>2

\* The sessions of the server are sessions the theorems are about.
LEMMA ServerTold == Spec => Told!Spec
<1>1. Init => Told!Init
  BY ServerInit, SameSession
<1>2. Jobs!PoolInv /\ [Next]_vars => [Told!Next]_(Told!vars)
  BY ServerStep, SameSession
<1>. QED
  BY <1>1, <1>2, JobsSafe, PTL DEF Spec, Told!Spec

\* On the running server, with the pool's queue and threads and a shutdown at any
\* time: a done frame means all the audio was sent, a context that was not
\* cancelled ends with a done or an error frame, a cancelled one is woken, and a
\* closed session has no emit task (session.py, server.py, pool.py).
THEOREM ServerKeepsPromises ==
  ASSUME AllIdsDistinct
  PROVE  Spec => [](Ses!DoneMeansComplete /\ Ses!TerminalFrame /\ Ses!CancelWakes
                      /\ Ses!CloseLeavesNothing)
<1>1. Told!DistinctIds
  BY DEF AllIdsDistinct, Told!DistinctIds
<1>2. Told!Spec => []Told!DoneMeansComplete
  BY <1>1, ToldAssumption, Told!DoneIsComplete
<1>3. Told!Spec => []Told!TerminalFrame
  BY <1>1, ToldAssumption, Told!StreamsEnd
<1>4. Told!Spec => []Told!CancelWakes
  BY <1>1, ToldAssumption, Told!CancelledWakes
<1>5. Told!Spec => []Told!CloseLeavesNothing
  BY ToldAssumption, Told!ClosedIsQuiet
<1>6. Told!DoneMeansComplete => Ses!DoneMeansComplete
  BY DEF Told!DoneMeansComplete, Ses!DoneMeansComplete, Told!FramesOf, Ses!FramesOf,
         Told!DoneFrame, Ses!DoneFrame, Told!AudioFrame, Ses!AudioFrame
<1>7. Told!TerminalFrame => Ses!TerminalFrame
  BY DEF Told!TerminalFrame, Ses!TerminalFrame, Told!FramesOf, Ses!FramesOf,
         Told!DoneFrame, Ses!DoneFrame, Told!ErrorFrame, Ses!ErrorFrame
<1>8. (Told!CancelWakes => Ses!CancelWakes) /\ (Told!CloseLeavesNothing => Ses!CloseLeavesNothing)
  BY DEF Told!CancelWakes, Ses!CancelWakes, Told!EOF, Ses!EOF, Told!CloseLeavesNothing,
         Ses!CloseLeavesNothing, Told!Live, Ses!Live, Told!Sending, Ses!Sending
<1>. QED
  BY <1>2, <1>3, <1>4, <1>5, <1>6, <1>7, <1>8, ServerTold, PTL

\* On the running server a cancelled context sends no more audio and submits no
\* more chunks, also while its job is behind others in the queue (_cancel, close).
THEOREM ServerCancelHolds ==
  ASSUME AllIdsDistinct
  PROVE  Spec => Ses!CancelIsFinal
<1> DEFINE calls == [t \in Tasks |-> Pool!callView[t]]
<1>1. Told!DistinctIds
  BY DEF AllIdsDistinct, Told!DistinctIds
<1>2. Told!Spec => []Told!SessionInv
  BY <1>1, ToldAssumption, Told!SessionSafe
<1>3. Told!SessionInv /\ [Ses!Next]_(Ses!vars) =>
        [\A t \in Tasks : dropped[t] =>
           /\ sent'[t] = sent[t] \/ sent'[t] = Append(sent[t], Ses!ErrorFrame)
           /\ calls[t] # "waiting" => calls'[t] # "waiting"]_(Ses!vars)
  <2>1. [Ses!Next]_(Ses!vars) => [Told!Next]_(Told!vars)
    BY SameSession
  <2>2. Told!ErrorFrame = Ses!ErrorFrame
    BY DEF Told!ErrorFrame, Ses!ErrorFrame
  <2>. QED
    BY <1>1, <2>1, <2>2, ToldAssumption, Told!CancelledStep
<1>4. Jobs!PoolInv /\ [Next]_vars => [Ses!Next]_(Ses!vars)
  BY ServerStep
<1>. QED
  BY <1>2, <1>3, <1>4, JobsSafe, ServerTold, PTL DEF Spec, Ses!CancelIsFinal

\* What the client of each context hears over the running server is a ContextStream,
\* with the pool's queue and threads and a shutdown under its emit task.
THEOREM ServerStreams ==
  ASSUME AllIdsDistinct
  PROVE  Spec => Told!ImplementsStream
<1>1. Told!DistinctIds
  BY DEF AllIdsDistinct, Told!DistinctIds
<1>2. Told!Spec => Told!ImplementsStream
  BY <1>1, ToldAssumption, Told!SessionImplementsStream
<1>. QED
  BY <1>2, ServerTold, PTL
-----------------------------------------------------------------------------
(***************************************************************************)
(* The client of the server is a sound one, in the sense of StreamProofs.  *)
(***************************************************************************)

\* A frame it sends is one that a sound client may send.
LEMMA SoundFrame ==
  ASSUME NEW t \in Tasks, FrameStep(t)
  PROVE  Told!SoundNext
<1>1. \/ promised[t] = Told!Unended /\ (Told!PushText(t) \/ Told!FinalText(t) \/ Told!FlushText(t))
      \/ Told!CancelFrame(t)
  BY DEF FrameStep,
    Ses!PushText, Ses!FinalText, Ses!FlushText, Ses!FlushTail, Ses!CancelFrame, Ses!OnText,
    Ses!Lookup, Ses!Enter, Ses!Put, Ses!End, Ses!EOF, Ses!Unended, Ses!Known, Ses!Cancel,
    Ses!DrainAndWake, Ses!serviceVars, Ses!sessionVars, Ses!clientVars, Ses!emitVars,
    Told!PushText, Told!FinalText, Told!FlushText, Told!FlushTail, Told!CancelFrame,
    Told!OnText, Told!Lookup, Told!Enter, Told!Put, Told!End, Told!EOF, Told!Unended,
    Told!Known, Told!Cancel, Told!DrainAndWake, Told!serviceVars, Told!sessionVars,
    Told!clientVars, Told!emitVars
<1>. QED
  BY <1>1 DEF Told!SoundNext

\* So is all that its connections do.
LEMMA SoundConnection ==
  ASSUME NEW s \in Sessions,
         ClientStep(s) \/ Accept(s) \/ BadStep(s) \/ ReplyStep(s) \/ CloseStep(s)
  PROVE  Told!SoundNext
<1>1. \/ Told!Connect(s) \/ Told!Stall(s) \/ Told!Disconnect(s) \/ Told!BadFrame(s)
      \/ Told!ReplyDone(s) \/ Told!Crash(s) \/ Told!Close(s)
  BY DEF ClientStep, Accept, BadStep, ReplyStep, CloseStep,
    Ses!Connect, Ses!Stall, Ses!Disconnect, Ses!BadFrame, Ses!ReplyDone, Ses!Crash,
    Ses!Close, Ses!HangUp, Ses!CloseJoined, Ses!CloseTimeout, Ses!CloseRest, Ses!CancelAll,
    Ses!Wake, Ses!Cancel, Ses!EOF, Ses!TimesOut, Ses!Abandon, Ses!Live, Ses!Sending,
    Ses!Finish, Ses!GoTo, Ses!Forget, Ses!Drop, Ses!serviceVars, Ses!sessionVars,
    Ses!taskVars, Ses!clientVars, Ses!emitVars,
    Told!Connect, Told!Stall, Told!Disconnect, Told!BadFrame, Told!ReplyDone, Told!Crash,
    Told!Close, Told!HangUp, Told!CloseJoined, Told!CloseTimeout, Told!CloseRest,
    Told!CancelAll, Told!Wake, Told!Cancel, Told!EOF, Told!TimesOut, Told!Abandon,
    Told!Live, Told!Sending, Told!Finish, Told!GoTo, Told!Forget, Told!Drop,
    Told!serviceVars, Told!sessionVars, Told!taskVars, Told!clientVars, Told!emitVars
<1>. QED
  BY <1>1 DEF Told!SoundNext

\* So is a step of an emit task, or the pool's answer to it.
LEMMA SoundTask ==
  ASSUME NEW t \in Tasks, Ses!Emit(t) \/ Ses!PoolAnswers(t)
  PROVE  Told!SoundNext
<1>1. Told!Emit(t) \/ Told!PoolAnswers(t)
  BY DEF
    Ses!Emit, Ses!EmitGet, Ses!EmitResult, Ses!EmitRaises, Ses!EmitShip, Ses!EmitLast,
    Ses!EmitSendRaises, Ses!Loop, Ses!LoopParks, Ses!LoopQuits, Ses!LoopSynthesizes,
    Ses!LoopEnds, Ses!LoopRefused, Ses!ShipOver, Ses!ShipFrame, Ses!Fail, Ses!Finish,
    Ses!Forget, Ses!Send, Ses!GoTo, Ses!NoCall, Ses!Submit, Ses!Refuse, Ses!Collect,
    Ses!Resolve, Ses!PoolAnswers, Ses!IsCancelled, Ses!EOF, Ses!Sending, Ses!AudioFrame,
    Ses!DoneFrame, Ses!ErrorFrame, Ses!sessionVars, Ses!taskVars, Ses!clientVars,
    Ses!emitVars,
    Told!Emit, Told!EmitGet, Told!EmitResult, Told!EmitRaises, Told!EmitShip,
    Told!EmitLast, Told!EmitSendRaises, Told!Loop, Told!LoopParks, Told!LoopQuits,
    Told!LoopSynthesizes, Told!LoopEnds, Told!LoopRefused, Told!ShipOver,
    Told!ShipFrame, Told!Fail, Told!Finish, Told!Forget, Told!Send, Told!GoTo,
    Told!NoCall, Told!Submit, Told!Refuse, Told!Collect, Told!Resolve,
    Told!PoolAnswers, Told!IsCancelled, Told!EOF, Told!Sending, Told!AudioFrame,
    Told!DoneFrame, Told!ErrorFrame, Told!sessionVars, Told!taskVars, Told!clientVars,
    Told!emitVars
<1>. QED
  BY <1>1 DEF Told!SoundNext

\* Every step of the server is one of its sessions with a sound client, or none.
LEMMA SoundStep == Jobs!PoolInv /\ [Next]_vars => [Told!SoundNext]_(Told!vars)
<1> SUFFICES ASSUME Jobs!PoolInv, [Next]_vars
             PROVE  Told!SoundNext \/ UNCHANGED Told!vars
  OBVIOUS
<1>0. UNCHANGED Ses!vars => UNCHANGED Told!vars
  BY DEF Ses!vars, Ses!serviceVars, Ses!sessionVars, Ses!taskVars, Ses!clientVars,
    Ses!emitVars, Told!vars, Told!serviceVars, Told!sessionVars, Told!taskVars,
    Told!clientVars, Told!emitVars
<1>1. CASE UNCHANGED vars
  <2>1. UNCHANGED <<fut, cancelled, sesVars>>
    BY <1>1 DEF vars, poolVars
  <2>2. Pool!callView' = Pool!callView
    BY <2>1 DEF Pool!callView
  <2>. QED
    BY <1>0, <2>1, <2>2, Stutters
<1>2. CASE Boot \/ Shutdown \/ ShutdownEnds
  BY <1>0, <1>2, LifespanStutters
<1>3. ASSUME NEW i \in Pool!Threads, ThreadStep(i)
      PROVE  Told!SoundNext \/ UNCHANGED Told!vars
  BY <1>0, <1>3, ThreadsAnswer, SoundTask
<1>4. ASSUME NEW s \in Sessions,
             ClientStep(s) \/ Accept(s) \/ BadStep(s) \/ ReplyStep(s) \/ CloseStep(s)
      PROVE  Told!SoundNext
  BY <1>4, SoundConnection
<1>5. ASSUME NEW t \in Tasks, FrameStep(t) \/ EmitStep(t)
      PROVE  Told!SoundNext
  BY <1>5, SoundFrame, SoundTask DEF EmitStep
<1>6. ASSUME NEW o \in Others, OtherStep(o)
      PROVE  UNCHANGED Told!vars
  BY <1>0, <1>6, OthersStutter
<1>7. CASE Over
  BY <1>1, <1>7 DEF Over
<1>. QED
  BY <1>1, <1>2, <1>3, <1>4, <1>5, <1>6, <1>7 DEF Next

\* On the running server, with a client that sends no text to a context whose text
\* it has ended, no chunk is left behind in a context that ended well.
THEOREM ServerStrandsNothing ==
  ASSUME AllIdsDistinct
  PROVE  Spec => []NothingStranded
<1>1. Told!DistinctIds
  BY DEF AllIdsDistinct, Told!DistinctIds
<1>2. Told!SoundSpec => []Told!NoStrandedText
  BY <1>1, ToldAssumption, Told!SoundStrandsNothing
<1>3. Init => Told!Init
  BY ServerInit, SameSession
<1>4. Spec => Told!SoundSpec
  BY <1>3, SoundStep, JobsSafe, PTL DEF Spec, Told!SoundSpec
<1>5. Told!NoStrandedText => NothingStranded
  BY DEF NothingStranded, Told!NoStrandedText, Ses!NoStrandedText, Told!FramesOf,
    Ses!FramesOf, Told!ErrorFrame, Ses!ErrorFrame, Told!EOF, Ses!EOF
<1>. QED
  BY <1>2, <1>4, <1>5, PTL
=============================================================================
