------------------------------- MODULE Server -------------------------------
(***************************************************************************)
(* The whole server: the sessions over the real pool, inside the lifespan  *)
(* that starts the pool before the first connection and stops it at the    *)
(* end.  The sessions see the pool's futures as the calls of SynthService. *)
(*                                                                         *)
(* When the lifespan ends is up to the ASGI server; connections may still  *)
(* be open then, and their emit tasks meet a pool that is not running.     *)
(***************************************************************************)
EXTENDS Integers, Sequences

CONSTANTS
  Sessions, Tasks, SessionOf, MaxChunks, MaxQueue, Frames,   \* as in Session
  Others,       \* contexts of further connections, of which only the calls are modelled
  ContextIds,
  CtxId,        \* the context_id of every context, those of Others included
  NWorkers, NoJob   \* as in WorkerPool

ASSUME ServerAssumption ==
  /\ Tasks \cap Others = {}
  /\ NWorkers \in Nat \ {0}
  /\ NoJob \notin Tasks \cup Others
  /\ CtxId \in [Tasks \cup Others -> ContextIds]
  /\ SessionOf \in [Tasks -> Sessions]
  /\ \A t, u \in Tasks :
       SessionOf[t] = SessionOf[u] /\ CtxId[t] = CtxId[u] => t = u
  /\ MaxChunks \in Nat
  /\ MaxQueue \in Nat
  /\ Frames \in [1..MaxChunks -> Nat]

VARIABLES
  lifespan,   \* "boot" until the pool has started, "serving", then "over"
  cancelled,                                                \* shared
  phase, built, next, worker, fut, workQ, thread,           \* of the pool
  handler, link, contexts, pc, queue, buffered, made, rateOk, cur, pos,
  sent, dropped, promised                                   \* of the sessions

Pool == INSTANCE WorkerPool WITH Tasks <- Tasks \cup Others
Ses == INSTANCE Session WITH
  CtxId <- [t \in Tasks |-> CtxId[t]],
  call <- [t \in Tasks |-> Pool!callView[t]]

poolVars == <<phase, built, next, worker, fut, workQ, thread>>
sesVars == <<handler, link, contexts, pc, queue, buffered, made, rateOk, cur, pos,
             sent, dropped, promised>>
vars == <<lifespan, cancelled, poolVars, sesVars>>

Init == lifespan = "boot" /\ Pool!Init /\ Ses!Init
-----------------------------------------------------------------------------
(***************************************************************************)
(* _lifespan().  If the pool cannot start, the server never serves.        *)
(***************************************************************************)
Boot ==
  /\ lifespan = "boot"
  /\ Pool!StartBegin \/ Pool!Build
  /\ lifespan' = CASE phase' = "ready" -> "serving"
                   [] phase' = "starting" -> "boot"
                   [] phase' = "down" -> "over"
  /\ UNCHANGED <<cancelled, sesVars>>

Shutdown ==
  /\ lifespan = "serving"
  /\ Pool!StopBegin
  /\ lifespan' = "over"
  /\ UNCHANGED <<cancelled, sesVars>>

ShutdownEnds ==
  /\ Pool!StopEnd
  /\ UNCHANGED <<lifespan, cancelled, sesVars>>

\* An executor thread.  It needs nothing of the event loop.
ThreadStep(i) ==
  /\ Pool!Run(i)
  /\ UNCHANGED <<lifespan, cancelled, sesVars>>
-----------------------------------------------------------------------------
\* The client's end of a connection.
ClientStep(s) ==
  /\ UNCHANGED <<lifespan, cancelled, poolVars>>
  /\ Ses!Stall(s) \/ Ses!Disconnect(s)

\* Uvicorn accepts connections between the start and the end of the lifespan.
Accept(s) ==
  /\ lifespan = "serving"
  /\ UNCHANGED <<lifespan, cancelled, poolVars>>
  /\ Ses!Connect(s)

\* A frame arrives.  This client is a sound one: it sends no text after the end
\* of a context or its cancel, and cancels once.
FrameStep(t) ==
  /\ Pool!LoopRuns
  /\ ~dropped[t]
  /\ UNCHANGED <<lifespan, poolVars>>
  /\ \/ /\ promised[t] = Ses!Unended
        /\ Ses!PushText(t) \/ Ses!FinalText(t) \/ Ses!FlushText(t)
     \/ Ses!CancelFrame(t)

BadStep(s) ==
  /\ Pool!LoopRuns
  /\ UNCHANGED <<lifespan, poolVars>>
  /\ Ses!BadFrame(s) \/ Ses!Crash(s)

ReplyStep(s) ==
  /\ Pool!LoopRuns
  /\ UNCHANGED <<lifespan, poolVars>>
  /\ Ses!ReplyDone(s)

\* close(), which may abandon the job of the task it waits for.
CloseStep(s) ==
  /\ Pool!LoopRuns
  /\ UNCHANGED poolVars \/ \E t \in Tasks : Pool!Drop(t)
  /\ Ses!Close(s)
  /\ UNCHANGED lifespan

\* The emit task reads a result, submits a chunk, does both, or neither; its
\* chunk is refused only by a pool that is not running.
EmitStep(t) ==
  /\ Pool!LoopRuns
  /\ UNCHANGED poolVars \/ Pool!Submit(t) \/ Pool!Collect(t)
  /\ Ses!Emit(t)
  /\ Ses!LoopRefused(t) => Pool!Refuse(t)
  /\ UNCHANGED lifespan

\* A context of another connection submits a chunk, reads its result or is
\* abandoned.
OtherStep(o) ==
  /\ Pool!LoopRuns
  /\ Pool!Submit(o) \/ Pool!Collect(o) \/ Pool!Drop(o)
  /\ UNCHANGED <<lifespan, cancelled, sesVars>>

\* The process is over, and so are all connections.
Over ==
  /\ lifespan = "over" /\ phase = "down"
  /\ \A s \in Sessions : handler[s] \in {"idle", "closed"}
  /\ UNCHANGED vars

Next ==
  \/ Boot \/ Shutdown \/ ShutdownEnds
  \/ \E i \in Pool!Threads : ThreadStep(i)
  \/ \E s \in Sessions :
       \/ ClientStep(s) \/ Accept(s) \/ BadStep(s) \/ ReplyStep(s)
       \/ CloseStep(s)
  \/ \E t \in Tasks : FrameStep(t) \/ EmitStep(t)
  \/ \E o \in Others : OtherStep(o)
  \/ Over

Spec == Init /\ [][Next]_vars

(***************************************************************************)
(* Fairness: the event loop runs every task that can run, close()'s timer  *)
(* fires, the threads take jobs and every synthesis ends or raises.  The   *)
(* clients need not do anything, and the server need never be stopped.      *)
(***************************************************************************)
FairSpec ==
  /\ Spec
  /\ WF_vars(ShutdownEnds)
  /\ \A i \in Pool!Threads : WF_vars(ThreadStep(i))
  /\ \A t \in Tasks : WF_vars(EmitStep(t))
  /\ \A s \in Sessions : WF_vars(CloseStep(s)) /\ WF_vars(ReplyStep(s))
-----------------------------------------------------------------------------
\* The sessions behave over the real pool, with its queue, threads and shutdown,
\* as Session says, so that what is checked and proved of Session holds here.
ImplementsSession == Ses!Spec

\* Since this client sends no text to a context whose text it has ended, a context
\* that ends well has had all of it synthesized: no chunk is queued behind the EOF
\* at which its emit task stops (_on_text, _emit_loop).
NothingStranded == Ses!NoStrandedText

\* close() returns: a stuck client, a lost connection, a long synthesis or a pool
\* that is being stopped holds it up for a while only.
CloseTerminates ==
  \A s \in Sessions : handler[s] = "close" ~> handler[s] = "closed"

\* A lost connection ends its session, whatever the handler was doing.
LossCloses ==
  \A s \in Sessions :
    (handler[s] # "idle" /\ link[s] = "down") ~> handler[s] = "closed"

\* A context whose text has ended or which was cancelled finishes, unless its
\* client does not read: behind other contexts in the work queue, with failing
\* calls, and when the pool is stopped under it.
EndedFinishes ==
  \A t \in Tasks :
    (promised[t] # Ses!Unended \/ dropped[t]) ~>
      (pc[t] = "finished" \/ link[SessionOf[t]] = "stalled")
=============================================================================
