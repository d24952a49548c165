------------------------------ MODULE Session ------------------------------
(***************************************************************************)
(* The sessions of the server: the WebSocket handler of server.py, the     *)
(* Session of session.py and its emit tasks, over the worker pool's        *)
(* interface (SynthService).                                               *)
(*                                                                         *)
(* asyncio runs one coroutine at a time and switches only where an await   *)
(* really suspends.  Queue.put on the unbounded queue never suspends, and  *)
(* Queue.get does so only on an empty queue, so a text or cancel frame is  *)
(* handled in one step.  The emit task suspends in queue.get(), in the     *)
(* executor's future and in send_text(); each action of it runs from one   *)
(* of these points to the next.                                            *)
(***************************************************************************)
EXTENDS SynthService, Integers, Sequences

CONSTANTS
  Sessions,   \* the WebSocket connections over the server's lifetime
  SessionOf,  \* the session each task belongs to
  MaxChunks,  \* bound: chunks the coalescer pops per context
  MaxQueue,   \* bound: queue length at which the client sends no more text
  Frames      \* Frames[k]: how many 20 ms frames the audio of chunk k has

(***************************************************************************)
(* A context is a key of the _contexts dict of one session, so a session   *)
(* has no two tasks with the same id.                                      *)
(***************************************************************************)
ASSUME SessionAssumption ==
  /\ SessionOf \in [Tasks -> Sessions]
  /\ \A t, u \in Tasks :
       SessionOf[t] = SessionOf[u] /\ CtxId[t] = CtxId[u] => t = u
  /\ MaxChunks \in Nat
  /\ MaxQueue \in Nat
  /\ Frames \in [1..MaxChunks -> Nat]

VARIABLES
  \* per session
  handler,    \* where the WebSocket handler coroutine is
  link,       \* the client's end of the connection
  contexts,   \* _contexts in insertion order; while closing, those not yet joined
  \* per task, i.e. per context
  pc,         \* where the emit task is
  queue,      \* ctx.queue: chunk numbers and EOF
  buffered,   \* the coalescer holds text
  made,       \* how many chunks the coalescer has popped
  rateOk,     \* the first frame's sample rate gives a nonempty 20 ms frame
  cur,        \* the chunk taken from the queue last
  pos,        \* frames of chunk cur handed to send_text
  sent,       \* history: the frames sent for this context
  dropped,    \* history: the session cancelled this context
  promised    \* history: chunks made when the stream was first ended, or -1

sessionVars == <<handler, link, contexts>>
clientVars == <<buffered, made, rateOk, promised>>
emitVars == <<pc, cur, pos, sent>>
taskVars == <<clientVars, emitVars, queue, dropped>>
vars == <<serviceVars, sessionVars, taskVars>>

EOF == 0      \* the None that ends a queue; chunks are numbered from 1
Unended == -1

AudioFrame(k, i) == [type |-> "chunk", chunk |-> k, frame |-> i]
DoneFrame == [type |-> "done", chunk |-> 0, frame |-> 0]
ErrorFrame == [type |-> "error", chunk |-> 0, frame |-> 0]
Frame == [type : {"chunk", "done", "error"}, chunk : Nat, frame : Nat]

Sending == {"ship", "done", "error"}
Live == {"get", "synth"} \cup Sending

Init ==
  /\ ServiceInit
  /\ handler = [s \in Sessions |-> "idle"]
  /\ link = [s \in Sessions |-> "down"]
  /\ contexts = [s \in Sessions |-> <<>>]
  /\ pc = [t \in Tasks |-> "none"]
  /\ queue = [t \in Tasks |-> <<>>]
  /\ buffered = [t \in Tasks |-> FALSE]
  /\ made = [t \in Tasks |-> 0]
  /\ rateOk = [t \in Tasks |-> TRUE]
  /\ cur = [t \in Tasks |-> 0]
  /\ pos = [t \in Tasks |-> 0]
  /\ sent = [t \in Tasks |-> <<>>]
  /\ dropped = [t \in Tasks |-> FALSE]
  /\ promised = [t \in Tasks |-> Unended]
-----------------------------------------------------------------------------
(***************************************************************************)
(* The client.  It comes and goes, and may stop reading: send_text() then  *)
(* stays suspended until the connection is lost.                           *)
(***************************************************************************)
Connect(s) ==
  /\ handler[s] = "idle"
  /\ handler' = [handler EXCEPT ![s] = "recv"]
  /\ link' = [link EXCEPT ![s] = "up"]
  /\ UNCHANGED <<serviceVars, contexts, taskVars>>

Stall(s) ==
  /\ link[s] = "up"
  /\ link' = [link EXCEPT ![s] = "stalled"]
  /\ UNCHANGED <<serviceVars, handler, contexts, taskVars>>

Disconnect(s) ==
  /\ link[s] # "down"
  /\ link' = [link EXCEPT ![s] = "down"]
  /\ UNCHANGED <<serviceVars, handler, contexts, taskVars>>
-----------------------------------------------------------------------------
\* _contexts[context_id] = ctx, and the mutant that drops the other contexts.
EnterAlone(t) == contexts' = [contexts EXCEPT ![SessionOf[t]] = <<t>>]

Enter(t) == contexts' = [contexts EXCEPT ![SessionOf[t]] = Append(@, t)]

(***************************************************************************)
(* Text frames.  The first one with a new context_id creates the context   *)
(* and its emit task; rateOk records the sample rate it asks for.          *)
(***************************************************************************)
Lookup(t) ==
  \/ pc[t] # "none" /\ UNCHANGED <<contexts, pc, rateOk>>
  \/ /\ pc[t] = "none"
     /\ Enter(t)
     /\ pc' = [pc EXCEPT ![t] = "get"]
     /\ \E ok \in BOOLEAN : rateOk' = [rateOk EXCEPT ![t] = ok]

\* Mutants: chunks are numbered from one too many; the tail is queued first.
PutOffByOne(t, n, tail) ==
  /\ made' = [made EXCEPT ![t] = @ + n]
  /\ queue' = [queue EXCEPT ![t] = @ \o [i \in 1..n |-> made[t] + i + 1] \o tail]

PutTailFirst(t, n, tail) ==
  /\ made' = [made EXCEPT ![t] = @ + n]
  /\ queue' = [queue EXCEPT ![t] = @ \o tail \o [i \in 1..n |-> made[t] + i]]

\* Queue the next n chunks of the context's text, and then the given tail.
Put(t, n, tail) ==
  /\ made' = [made EXCEPT ![t] = @ + n]
  /\ queue' = [queue EXCEPT ![t] = @ \o [i \in 1..n |-> made[t] + i] \o tail]

OnText(t) ==
  /\ handler[SessionOf[t]] = "recv"
  /\ Len(queue[t]) < MaxQueue
  /\ Lookup(t)
  /\ UNCHANGED <<serviceVars, handler, link, cur, pos, sent, dropped>>

End(t) == promised' =
  [promised EXCEPT ![t] = IF @ = Unended THEN made'[t] ELSE @]

\* The coalescer pops n chunks.  If it pops none the text stays buffered,
\* except for an empty transcript, which changes nothing.
PushText(t) ==
  /\ OnText(t)
  /\ \E n \in 0..(MaxChunks - made[t]), left \in BOOLEAN :
       /\ n = 0 => left \/ left = buffered[t]
       /\ Put(t, n, <<>>)
       /\ buffered' = [buffered EXCEPT ![t] = left]
  /\ UNCHANGED promised

\* The end of a flush, and the mutant that ends only a flush of some text.
TailIfText(n) == IF n = 0 THEN <<>> ELSE <<EOF>>

FlushTail(n) == <<EOF>>

\* Last text frame (continue=False): what push() leaves is flushed as well.
FinalText(t) ==
  /\ OnText(t)
  /\ \E n \in 1..(MaxChunks - made[t]) : Put(t, n, FlushTail(n))
  /\ buffered' = [buffered EXCEPT ![t] = FALSE]
  /\ End(t)

\* Empty transcript with continue=False: flush what is buffered, if anything.
FlushText(t) ==
  /\ OnText(t)
  /\ \E n \in 0..(MaxChunks - made[t]) :
       /\ n = IF buffered[t] THEN 1 ELSE 0
       /\ Put(t, n, FlushTail(n))
  /\ buffered' = [buffered EXCEPT ![t] = FALSE]
  /\ End(t)

\* Drain the queue and inject EOF, and the mutant that only drains.
Drain(t) == queue' = [queue EXCEPT ![t] = <<>>]

DrainAndWake(t) == queue' = [queue EXCEPT ![t] = <<EOF>>]

\* Whether _contexts has the context, and the mutant that does not look.
AnyContext(t) == TRUE

Known(t) == pc[t] # "none"

\* A cancel frame for a context the session knows, finished or not.
CancelFrame(t) ==
  /\ handler[SessionOf[t]] = "recv"
  /\ Known(t)
  /\ Cancel({CtxId[t]})
  /\ DrainAndWake(t)
  /\ dropped' = [dropped EXCEPT ![t] = TRUE]
  /\ UNCHANGED <<call, sessionVars, clientVars, emitVars>>

\* A frame that does not decode is answered by an error frame without a
\* context_id; the handler awaits that send.
BadFrame(s) ==
  /\ handler[s] = "recv"
  /\ handler' = [handler EXCEPT ![s] = "reply"]
  /\ UNCHANGED <<serviceVars, link, contexts, taskVars>>

ReplyDone(s) ==
  /\ handler[s] = "reply"
  /\ link[s] # "stalled"
  /\ handler' = [handler EXCEPT ![s] = "recv"]
  /\ UNCHANGED <<serviceVars, link, contexts, taskVars>>
-----------------------------------------------------------------------------
(***************************************************************************)
(* The emit task.                                                          *)
(***************************************************************************)
Send(t, frame) ==
  sent' = IF link[SessionOf[t]] = "down" THEN sent
          ELSE [sent EXCEPT ![t] = Append(@, frame)]

GoTo(t, point) == pc' = [pc EXCEPT ![t] = point]

\* The result of the last call, if any, has been read.
NoCall(t) == call' = [call EXCEPT ![t] = "idle"]

\* The finally clause: ctx.finished = True and pool.forget().
Finish(t) == GoTo(t, "finished") /\ Forget(CtxId[t])

\* Mutants: the exception costs the chunk only; the exception is only logged.
FailSkips(t) ==
  /\ GoTo(t, "get")
  /\ UNCHANGED <<cancelled, sent>>

FailSilently(t) ==
  /\ GoTo(t, "error")
  /\ UNCHANGED <<cancelled, sent>>

\* The exception handler sends an error frame, cancelled or not.
Fail(t) ==
  /\ GoTo(t, "error")
  /\ Send(t, ErrorFrame)
  /\ UNCHANGED cancelled

ShipFrame(t, k, i) ==
  /\ GoTo(t, "ship")
  /\ pos' = [pos EXCEPT ![t] = i]
  /\ Send(t, AudioFrame(k, i))
  /\ UNCHANGED <<cancelled, queue, cur>>

(***************************************************************************)
(* The while loop from its head to the next suspension: queue.get() on an  *)
(* empty queue, run_in_executor for the next chunk, or the send of the     *)
(* final frame.  A flagged context drops its chunks up to the first EOF.   *)
(***************************************************************************)
LoopParks(t) ==
  /\ IF IsCancelled(t) THEN \A i \in DOMAIN queue[t] : queue[t][i] # EOF
                       ELSE queue[t] = <<>>
  /\ queue' = [queue EXCEPT ![t] = <<>>]
  /\ GoTo(t, "get")
  /\ NoCall(t)
  /\ UNCHANGED <<cancelled, cur, pos, sent>>

LoopQuits(t) ==
  /\ IsCancelled(t)
  /\ \E i \in DOMAIN queue[t] :
       /\ queue[t][i] = EOF
       /\ \A j \in 1..(i - 1) : queue[t][j] # EOF
       /\ queue' = [queue EXCEPT ![t] = SubSeq(@, i + 1, Len(@))]
  /\ Finish(t)
  /\ NoCall(t)
  /\ UNCHANGED <<cur, pos, sent>>

LoopSynthesizes(t) ==
  /\ queue[t] # <<>>
  /\ Head(queue[t]) # EOF
  /\ Submit(t)
  /\ queue' = [queue EXCEPT ![t] = Tail(@)]
  /\ cur' = [cur EXCEPT ![t] = Head(queue[t])]
  /\ pos' = [pos EXCEPT ![t] = 0]
  /\ GoTo(t, "synth")
  /\ UNCHANGED <<cancelled, sent>>

LoopEnds(t) ==
  /\ ~IsCancelled(t)
  /\ queue[t] # <<>>
  /\ Head(queue[t]) = EOF
  /\ queue' = [queue EXCEPT ![t] = Tail(@)]
  /\ GoTo(t, "done")
  /\ Send(t, DoneFrame)
  /\ NoCall(t)
  /\ UNCHANGED <<cancelled, cur, pos>>

\* The pool is not running: synthesize() raises without suspending.
LoopRefused(t) ==
  /\ ~IsCancelled(t)
  /\ queue[t] # <<>>
  /\ Head(queue[t]) # EOF
  /\ queue' = [queue EXCEPT ![t] = Tail(@)]
  /\ cur' = [cur EXCEPT ![t] = Head(queue[t])]
  /\ pos' = [pos EXCEPT ![t] = 0]
  /\ Refuse(t)
  /\ Fail(t)

Loop(t) ==
  \/ LoopParks(t) \/ LoopQuits(t) \/ LoopEnds(t)
  \/ LoopSynthesizes(t) \/ LoopRefused(t)

\* queue.get() returns.
EmitGet(t) ==
  /\ pc[t] = "get"
  /\ queue[t] # <<>>
  /\ Loop(t)
  /\ UNCHANGED <<sessionVars, clientVars, dropped>>

\* synthesize() returns a result, which is dropped if the context is flagged
\* by now; otherwise the first frame of its audio is shipped, if there is one.
EmitResult(t) ==
  /\ pc[t] = "synth"
  /\ call[t] = "ok"
  /\ \/ IsCancelled(t) /\ Loop(t)
     \/ ~IsCancelled(t) /\ rateOk[t] /\ Frames[cur[t]] = 0 /\ Loop(t)
     \/ /\ ~IsCancelled(t) /\ rateOk[t] /\ Frames[cur[t]] > 0
        /\ Collect(t)
        /\ ShipFrame(t, cur[t], 1)
  /\ UNCHANGED <<sessionVars, clientVars, dropped>>

\* synthesize() raises, or pipeline() does because of the sample rate.
EmitRaises(t) ==
  /\ pc[t] = "synth"
  /\ \/ call[t] = "error"
     \/ call[t] = "ok" /\ ~IsCancelled(t) /\ ~rateOk[t]
  /\ Collect(t)
  /\ Fail(t)
  /\ UNCHANGED <<sessionVars, clientVars, dropped, queue, cur, pos>>

\* When _ship() returns, and mutants of it: it leaves the last frame out; it
\* does not look at the flag between frames.
ShipOverEarly(t) == pos[t] + 1 >= Frames[cur[t]] \/ IsCancelled(t)

ShipOverUnchecked(t) == pos[t] = Frames[cur[t]]

ShipOver(t) == pos[t] = Frames[cur[t]] \/ IsCancelled(t)

\* The send of an audio frame returns.
EmitShip(t) ==
  /\ pc[t] = "ship"
  /\ link[SessionOf[t]] # "stalled"
  /\ IF ShipOver(t)
       THEN Loop(t)
       ELSE ShipFrame(t, cur[t], pos[t] + 1) /\ UNCHANGED call
  /\ UNCHANGED <<sessionVars, clientVars, dropped>>

\* The send of the done or error frame returns.
EmitLast(t) ==
  /\ pc[t] \in {"done", "error"}
  /\ link[SessionOf[t]] # "stalled"
  /\ Finish(t)
  /\ UNCHANGED <<call, sessionVars, clientVars, cur, pos, sent, queue, dropped>>

\* A send on a lost connection raises, and so does that of the error frame.
EmitSendRaises(t) ==
  /\ pc[t] \in Sending
  /\ link[SessionOf[t]] = "down"
  /\ Finish(t)
  /\ UNCHANGED <<call, sessionVars, clientVars, cur, pos, sent, queue, dropped>>

Emit(t) ==
  \/ EmitGet(t) \/ EmitResult(t) \/ EmitRaises(t)
  \/ EmitShip(t) \/ EmitLast(t) \/ EmitSendRaises(t)
-----------------------------------------------------------------------------
\* Queue EOF for the tasks in T.
Wake(T) ==
  queue' = [t \in Tasks |-> IF t \in T THEN Append(queue[t], EOF) ELSE queue[t]]

\* What close() does to contexts before it waits, and the mutant that flags none.
CancelNone(T) ==
  /\ Wake(T)
  /\ dropped' = [t \in Tasks |-> dropped[t] \/ t \in T]
  /\ UNCHANGED cancelled

CancelAll(T) ==
  /\ Cancel({CtxId[t] : t \in T})
  /\ Wake(T)
  /\ dropped' = [t \in Tasks |-> dropped[t] \/ t \in T]

(***************************************************************************)
(* Session.close(), run by the handler when its receive loop ends.  It     *)
(* takes the contexts one by one: flags the next, queues EOF for it and    *)
(* waits up to two seconds for its emit task.  It waits for the first that *)
(* is not finished, the (n+1)st of those left; waiting for a finished task *)
(* does not suspend.                                                       *)
(***************************************************************************)
CloseRest(s, rest) ==
  \E n \in 0..Len(rest) :
    /\ \A i \in 1..n : pc[rest[i]] = "finished"
    /\ n < Len(rest) => pc[rest[n + 1]] # "finished"
    /\ CancelAll({rest[i] : i \in 1..(n + 1) \cap DOMAIN rest})
    /\ contexts' = [contexts EXCEPT ![s] = SubSeq(rest, n + 1, Len(rest))]
    /\ handler' =
         [handler EXCEPT ![s] = IF n < Len(rest) THEN "close" ELSE "closed"]
    /\ UNCHANGED <<call, link, clientVars, emitVars>>

\* Mutant: the handler waits for its contexts before it looks at the connection.
HangUpWhenDone(s) ==
  /\ handler[s] \in {"recv", "reply"}
  /\ link[s] = "down"
  /\ \A i \in DOMAIN contexts[s] : pc[contexts[s][i]] = "finished"
  /\ CloseRest(s, contexts[s])

\* The client is gone: receive_text(), or the send of a reply, raises.
HangUp(s) ==
  /\ handler[s] \in {"recv", "reply"}
  /\ link[s] = "down"
  /\ CloseRest(s, contexts[s])

\* receive_text() or decode() raises on a frame of a connected client.
Crash(s) ==
  /\ handler[s] = "recv"
  /\ CloseRest(s, contexts[s])

\* Mutant: close() does not wait for the emit task.
CloseNotJoined(s) ==
  /\ handler[s] = "close"
  /\ CloseRest(s, Tail(contexts[s]))

CloseJoined(s) ==
  /\ handler[s] = "close"
  /\ pc[Head(contexts[s])] = "finished"
  /\ CloseRest(s, Tail(contexts[s]))

\* Where a task can be when the timeout fires (with an item in its queue it runs
\* before that), and the mutant in which a send has no timeout.
SynthTimesOut(t) == pc[t] = "synth"

TimesOut(t) == pc[t] \in Live /\ (pc[t] = "get" => queue[t] = <<>>)

\* The call the cancelled task awaited, and the mutant that keeps it.
KeepCall(t) == UNCHANGED call

Abandon(t) == IF pc[t] = "synth" THEN Drop(t) ELSE UNCHANGED call

(***************************************************************************)
(* After two seconds wait_for cancels the emit task, whose finally clause  *)
(* runs.                                                                   *)
(***************************************************************************)
CloseTimeout(s) ==
  /\ handler[s] = "close"
  /\ \E t \in Tasks :
       /\ t = Head(contexts[s])
       /\ TimesOut(t)
       /\ Finish(t)
       /\ Abandon(t)
  /\ UNCHANGED <<sessionVars, clientVars, cur, pos, sent, queue, dropped>>

Close(s) == HangUp(s) \/ CloseJoined(s) \/ CloseTimeout(s)
-----------------------------------------------------------------------------
\* A worker thread finishes the call of a task.
PoolAnswers(t) ==
  /\ Resolve(t)
  /\ UNCHANGED <<cancelled, sessionVars, taskVars>>

\* All connections have come and gone.
Over ==
  /\ \A s \in Sessions : handler[s] = "closed" /\ link[s] = "down"
  /\ UNCHANGED vars

Next ==
  \/ \E s \in Sessions :
       \/ Connect(s) \/ Stall(s) \/ Disconnect(s)
       \/ BadFrame(s) \/ ReplyDone(s)
       \/ Crash(s) \/ HangUp(s) \/ CloseJoined(s) \/ CloseTimeout(s)
  \/ \E t \in Tasks :
       \/ PushText(t) \/ FinalText(t) \/ FlushText(t) \/ CancelFrame(t)
       \/ EmitGet(t) \/ EmitResult(t) \/ EmitRaises(t)
       \/ EmitShip(t) \/ EmitLast(t) \/ EmitSendRaises(t)
       \/ PoolAnswers(t)
  \/ Over

Spec == Init /\ [][Next]_vars
-----------------------------------------------------------------------------
\* Type invariant: the state of the sessions, their contexts and emit tasks
\* (session.py, _Context and Session) keeps to the ranges declared above.
TypeOK ==
  /\ ServiceTypeOK
  /\ handler \in [Sessions -> {"idle", "recv", "reply", "close", "closed"}]
  /\ link \in [Sessions -> {"up", "stalled", "down"}]
  /\ contexts \in [Sessions -> Seq(Tasks)]
  /\ pc \in [Tasks -> {"none", "finished"} \cup Live]
  /\ queue \in [Tasks -> Seq(0..MaxChunks)]
  /\ buffered \in [Tasks -> BOOLEAN]
  /\ made \in [Tasks -> 0..MaxChunks]
  /\ rateOk \in [Tasks -> BOOLEAN]
  /\ cur \in [Tasks -> 0..MaxChunks]
  /\ pos \in [Tasks -> Nat]
  /\ sent \in [Tasks -> Seq(Frame)]
  /\ dropped \in [Tasks -> BOOLEAN]
  /\ promised \in [Tasks -> -1..MaxChunks]

FramesOf(t) == {sent[t][i] : i \in DOMAIN sent[t]}

\* A done frame says that all audio of the text before the flush was shipped:
\* a context whose ids nobody shares never loses a chunk and still reports
\* success (_on_text, _emit_loop).
DoneMeansComplete ==
  \A t \in Tasks : DoneFrame \in FramesOf(t) =>
    FramesOf(t) \ {DoneFrame} =
      UNION {{AudioFrame(k, i) : i \in 1..Frames[k]} : k \in 1..promised[t]}

\* A context that was not cancelled ends with a done or an error frame: its
\* client is never left waiting by a task that exited silently (_emit_loop).
TerminalFrame ==
  \A t \in Tasks :
    (pc[t] = "finished" /\ ~dropped[t] /\ link[SessionOf[t]] # "down") =>
      DoneFrame \in FramesOf(t) \/ ErrorFrame \in FramesOf(t)

\* Once its session has cancelled a context no audio and no done frame of it is
\* shipped and no chunk of it is submitted any more; an error still may be
\* reported (_cancel, close, pool.synthesize).
CancelIsFinal ==
  [][\A t \in Tasks : dropped[t] =>
       /\ sent'[t] = sent[t] \/ sent'[t] = Append(sent[t], ErrorFrame)
       /\ call[t] # "waiting" => call'[t] # "waiting"]_vars

\* A cancelled context whose emit task may still wait for text has an EOF in
\* its queue: _cancel's drain never removes the wake-up without replacing it,
\* and the task never eats it and goes on.
CancelWakes ==
  \A t \in Tasks : dropped[t] /\ pc[t] \in {"get", "synth", "ship"} =>
    \E i \in DOMAIN queue[t] : queue[t][i] = EOF

\* Two contexts never share an id (across connections: within one they cannot).
DistinctIds == \A t, u \in Tasks : CtxId[t] = CtxId[u] => t = u

\* The flag of a cancelled context is there for as long as its emit task lives;
\* only that task's finally clause forgets it.
FlagHeld ==
  \A t \in Tasks : dropped[t] /\ pc[t] \in Live => IsCancelled(t)

\* A flag is only ever set for a context that exists and that its own session
\* cancelled: a stray cancel frame cannot silence a context created later.
FlagOwned == \A t \in Tasks : IsCancelled(t) => dropped[t] /\ pc[t] # "none"

\* A task has a synthesize() call outstanding exactly while it awaits it; a call
\* abandoned at close()'s timeout belongs to a finished task, so that its late
\* result reaches nobody.
CallMatchesTask ==
  \A t \in Tasks :
    /\ pc[t] = "synth" <=> call[t] \in {"waiting", "ok", "error"}
    /\ call[t] = "dropped" => pc[t] = "finished"

\* When close() has returned, no emit task of the session runs any more, however
\* the contexts, the timeouts and late results interleaved.
CloseLeavesNothing ==
  \A t \in Tasks : handler[SessionOf[t]] = "closed" => pc[t] \notin Live

\* While close() waits, every context it is done with is finished and every one
\* it still has to visit is in its list: none is skipped.
CloseVisitsAll ==
  \A t \in Tasks : handler[SessionOf[t]] = "close" /\ pc[t] \in Live =>
    \E i \in DOMAIN contexts[SessionOf[t]] : contexts[SessionOf[t]][i] = t
-----------------------------------------------------------------------------
\* pool.py:130-131 on forget(): "Call when the session is done with this
\* context_id so memory doesn't grow."  Once every session is closed no flag
\* should be left.
NoFlagLeft ==
  (\A s \in Sessions : handler[s] = "closed") => cancelled = {}

\* session.py:12-13: "Each subsequent text frame pushes into the coalescer; any
\* chunks that pop out are queued for synthesis on the pool."  A context whose
\* task ended well should hold no chunk nobody will synthesize.
NoStrandedText ==
  \A t \in Tasks :
    pc[t] = "finished" /\ ~dropped[t] /\ ErrorFrame \notin FramesOf(t)
      /\ link[SessionOf[t]] # "down" =>
      \A i \in DOMAIN queue[t] : queue[t][i] = EOF
=============================================================================
