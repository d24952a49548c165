--------------------------- MODULE SessionProofs ---------------------------
(***************************************************************************)
(* Proofs about Session, for every set of sessions and tasks, every        *)
(* assignment of contexts and ids, and every value of the bounds.          *)
(***************************************************************************)
EXTENDS Session, SequenceTheorems, TLAPS

USE DEF EOF, Unended

\* What is left of a sequence after its first n elements.
LEMMA Suffix ==
  ASSUME NEW S, NEW q \in Seq(S), NEW n \in 0..Len(q)
  PROVE  /\ SubSeq(q, n + 1, Len(q)) \in Seq(S)
         /\ Len(SubSeq(q, n + 1, Len(q))) = Len(q) - n
         /\ \A i \in 1..(Len(q) - n) : SubSeq(q, n + 1, Len(q))[i] = q[n + i]
<1>1. n + 1 \in Int /\ Len(q) \in Int
  OBVIOUS
<1>2. \A i \in (n + 1)..Len(q) : q[i] \in S
  <2>. SUFFICES ASSUME NEW i \in (n + 1)..Len(q)
                PROVE  q[i] \in S
    OBVIOUS
  <2>1. i \in 1..Len(q)
    OBVIOUS
  <2>. QED
    BY <2>1, ElementOfSeq
<1>. QED
  BY <1>1, <1>2, SubSeqProperties

\* The frames that are sent are frames.
LEMMA FramesTyped ==
  /\ DoneFrame \in Frame
  /\ ErrorFrame \in Frame
  /\ \A k, i \in Nat : AudioFrame(k, i) \in Frame
BY DEF DoneFrame, ErrorFrame, AudioFrame, Frame

\* Sending a frame keeps the history of frames well typed.
LEMMA SendTyped ==
  ASSUME sent \in [Tasks -> Seq(Frame)], NEW t \in Tasks, NEW f \in Frame, Send(t, f)
  PROVE  sent' \in [Tasks -> Seq(Frame)]
BY DEF Send

\* Queueing chunks and a tail keeps the queue and the counter well typed.
LEMMA PutTyped ==
  ASSUME queue \in [Tasks -> Seq(0..MaxChunks)], made \in [Tasks -> 0..MaxChunks],
         NEW t \in Tasks, NEW n \in Nat, n <= MaxChunks - made[t],
         NEW tail \in Seq(0..MaxChunks), Put(t, n, tail)
  PROVE  /\ queue' \in [Tasks -> Seq(0..MaxChunks)]
         /\ made' \in [Tasks -> 0..MaxChunks]
<1> DEFINE new == [i \in 1..n |-> made[t] + i]
<1>0. MaxChunks \in Nat
  BY SessionAssumption
<1>1. made[t] \in 0..MaxChunks /\ made[t] + n \in 0..MaxChunks
  BY <1>0
<1>2. new \in [1..n -> 0..MaxChunks]
  BY <1>0, <1>1
<1>3. new \in Seq(0..MaxChunks)
  BY <1>2, SeqDef
<1>4. queue[t] \o new \o tail \in Seq(0..MaxChunks)
  BY <1>3, ConcatProperties
<1>. QED
  BY <1>1, <1>4 DEF Put

\* The loop of the emit task keeps everything it changes well typed.
LEMMA LoopTyped ==
  ASSUME TypeOK, NEW t \in Tasks, Loop(t)
  PROVE  /\ ServiceTypeOK'
         /\ pc' \in [Tasks -> {"none", "finished"} \cup Live]
         /\ queue' \in [Tasks -> Seq(0..MaxChunks)]
         /\ cur' \in [Tasks -> 0..MaxChunks]
         /\ pos' \in [Tasks -> Nat]
         /\ sent' \in [Tasks -> Seq(Frame)]
<1>1. CASE LoopParks(t)
  <2>1. <<>> \in Seq(0..MaxChunks)
    OBVIOUS
  <2>. QED
    BY <1>1, <2>1 DEF LoopParks, TypeOK, ServiceTypeOK, CallStates, GoTo, NoCall, Live, Sending
<1>2. CASE LoopQuits(t)
  <2>1. PICK i \in DOMAIN queue[t] :
          queue' = [queue EXCEPT ![t] = SubSeq(queue[t], i + 1, Len(queue[t]))]
    BY <1>2 DEF LoopQuits
  <2>2. SubSeq(queue[t], i + 1, Len(queue[t])) \in Seq(0..MaxChunks)
    <3>1. queue[t] \in Seq(0..MaxChunks)
      BY DEF TypeOK
    <3>2. i \in 0..Len(queue[t])
      BY <3>1
    <3>. QED
      BY <3>1, <3>2, Suffix
  <2>. QED
    BY <1>2, <2>1, <2>2
    DEF LoopQuits, TypeOK, ServiceTypeOK, CallStates, Finish, Forget, GoTo, NoCall, Live, Sending
<1>3. CASE LoopSynthesizes(t)
  <2>1. Head(queue[t]) \in 0..MaxChunks /\ Tail(queue[t]) \in Seq(0..MaxChunks)
    <3>1. queue[t] \in Seq(0..MaxChunks) /\ queue[t] # <<>>
      BY <1>3 DEF LoopSynthesizes, TypeOK
    <3>. QED
      BY <3>1, HeadTailProperties
  <2>. QED
    BY <1>3, <2>1
    DEF LoopSynthesizes, Submit, TypeOK, ServiceTypeOK, CallStates, GoTo, Live, Sending
<1>4. CASE LoopEnds(t)
  <2>1. Tail(queue[t]) \in Seq(0..MaxChunks)
    BY <1>4 DEF LoopEnds, TypeOK
  <2>2. sent' \in [Tasks -> Seq(Frame)]
    BY <1>4, SendTyped, FramesTyped DEF LoopEnds, TypeOK
  <2>. QED
    BY <1>4, <2>1, <2>2
    DEF LoopEnds, TypeOK, ServiceTypeOK, CallStates, GoTo, NoCall, Live, Sending
<1>5. CASE LoopRefused(t)
  <2>1. Head(queue[t]) \in 0..MaxChunks /\ Tail(queue[t]) \in Seq(0..MaxChunks)
    <3>1. queue[t] \in Seq(0..MaxChunks) /\ queue[t] # <<>>
      BY <1>5 DEF LoopRefused, TypeOK
    <3>. QED
      BY <3>1, HeadTailProperties
  <2>2. sent' \in [Tasks -> Seq(Frame)]
    BY <1>5, SendTyped, FramesTyped DEF LoopRefused, Fail, TypeOK
  <2>. QED
    BY <1>5, <2>1, <2>2
    DEF LoopRefused, Refuse, Fail, TypeOK, ServiceTypeOK, CallStates, GoTo, Live, Sending
<1>. QED
  BY <1>1, <1>2, <1>3, <1>4, <1>5 DEF Loop

\* A text frame queues some chunks, and EOF at the end of a stream.
LEMMA TextPuts ==
  ASSUME TypeOK, NEW t \in Tasks, PushText(t) \/ FinalText(t) \/ FlushText(t)
  PROVE  \E n \in Nat, tail \in Seq(0..MaxChunks) :
           n <= MaxChunks - made[t] /\ Put(t, n, tail)
<1>0. MaxChunks \in Nat
  BY SessionAssumption
<1>1. <<>> \in Seq(0..MaxChunks) /\ <<EOF>> \in Seq(0..MaxChunks)
  BY <1>0
<1>2. made[t] \in 0..MaxChunks
  BY DEF TypeOK
<1>3. CASE PushText(t)
  <2>1. PICK n \in 0..(MaxChunks - made[t]) : Put(t, n, <<>>)
    BY <1>3 DEF PushText
  <2>2. n \in Nat /\ n <= MaxChunks - made[t]
    BY <1>0, <1>2
  <2>. QED
    BY <1>1, <2>1, <2>2
<1>4. CASE FinalText(t)
  <2>1. PICK n \in 1..(MaxChunks - made[t]) : Put(t, n, FlushTail(n))
    BY <1>4 DEF FinalText
  <2>2. n \in Nat /\ n <= MaxChunks - made[t]
    BY <1>0, <1>2
  <2>. QED
    BY <1>1, <2>1, <2>2 DEF FlushTail
<1>5. CASE FlushText(t)
  <2>1. PICK n \in 0..(MaxChunks - made[t]) : Put(t, n, FlushTail(n))
    BY <1>5 DEF FlushText
  <2>2. n \in Nat /\ n <= MaxChunks - made[t]
    BY <1>0, <1>2
  <2>. QED
    BY <1>1, <2>1, <2>2 DEF FlushTail
<1>. QED
  BY <1>3, <1>4, <1>5

\* A text frame keeps everything it changes well typed.
LEMMA TextTyped ==
  ASSUME TypeOK, NEW t \in Tasks, PushText(t) \/ FinalText(t) \/ FlushText(t)
  PROVE  TypeOK'
<1>0. MaxChunks \in Nat /\ SessionOf[t] \in Sessions
  BY SessionAssumption
<1>1. /\ contexts' \in [Sessions -> Seq(Tasks)]
      /\ pc' \in [Tasks -> {"none", "finished"} \cup Live]
      /\ rateOk' \in [Tasks -> BOOLEAN]
  <2>1. OnText(t)
    BY DEF PushText, FinalText, FlushText
  <2>2. CASE UNCHANGED <<contexts, pc, rateOk>>
    BY <2>2 DEF TypeOK
  <2>3. CASE /\ Enter(t)
             /\ pc' = [pc EXCEPT ![t] = "get"]
             /\ \E ok \in BOOLEAN : rateOk' = [rateOk EXCEPT ![t] = ok]
    <3>1. contexts \in [Sessions -> Seq(Tasks)]
      BY DEF TypeOK
    <3>2. Append(contexts[SessionOf[t]], t) \in Seq(Tasks)
      BY <1>0, <3>1
    <3>3. contexts' \in [Sessions -> Seq(Tasks)]
      BY <2>3, <3>1, <3>2 DEF Enter
    <3>. QED
      BY <2>3, <3>3 DEF TypeOK, Live
  <2>. QED
    BY <2>1, <2>2, <2>3 DEF OnText, Lookup
<1>2. PICK n \in Nat, tail \in Seq(0..MaxChunks) :
        n <= MaxChunks - made[t] /\ Put(t, n, tail)
  BY TextPuts
<1>3. queue' \in [Tasks -> Seq(0..MaxChunks)] /\ made' \in [Tasks -> 0..MaxChunks]
  BY <1>2, PutTyped DEF TypeOK
<1>4. buffered' \in [Tasks -> BOOLEAN] /\ promised' \in [Tasks -> -1..MaxChunks]
  <2>1. made'[t] \in 0..MaxChunks
    BY <1>3
  <2>2. End(t) => promised' \in [Tasks -> -1..MaxChunks]
    <3>1. promised \in [Tasks -> -1..MaxChunks] /\ -1 \in -1..MaxChunks
      BY <1>0 DEF TypeOK
    <3>. QED
      BY <1>0, <2>1, <3>1 DEF End
  <2>3. CASE PushText(t)
    BY <2>3 DEF PushText, TypeOK
  <2>4. CASE FinalText(t) \/ FlushText(t)
    BY <2>2, <2>4 DEF FinalText, FlushText, TypeOK
  <2>. QED
    BY <2>3, <2>4
<1>5. UNCHANGED <<serviceVars, handler, link, cur, pos, sent, dropped>>
  BY DEF PushText, FinalText, FlushText, OnText
<1>. QED
  BY <1>1, <1>3, <1>4, <1>5 DEF TypeOK, ServiceTypeOK, serviceVars

\* So does a step of the emit task.
LEMMA EmitTyped ==
  ASSUME TypeOK, NEW t \in Tasks, Emit(t)
  PROVE  TypeOK'
<1>0. cur[t] \in Nat /\ pos[t] \in Nat /\ ServiceTypeOK
  BY SessionAssumption DEF TypeOK
<1>1. UNCHANGED <<sessionVars, clientVars, dropped>>
  BY DEF Emit, EmitGet, EmitResult, EmitRaises, EmitShip, EmitLast, EmitSendRaises
<1>2. CASE Loop(t)
  BY <1>1, <1>2, LoopTyped DEF TypeOK, sessionVars, clientVars
<1>3. CASE /\ \E k, i \in Nat : ShipFrame(t, k, i)
           /\ Collect(t) \/ UNCHANGED call
  <2>1. sent' \in [Tasks -> Seq(Frame)]
    BY <1>3, SendTyped, FramesTyped DEF ShipFrame, TypeOK
  <2>2. call' \in [Tasks -> CallStates] /\ UNCHANGED cancelled
    BY <1>0, <1>3 DEF ShipFrame, Collect, ServiceTypeOK, CallStates
  <2>3. pc' \in [Tasks -> {"none", "finished"} \cup Live]
    BY <1>3 DEF ShipFrame, GoTo, TypeOK, Live, Sending
  <2>4. pos' \in [Tasks -> Nat] /\ UNCHANGED <<queue, cur>>
    BY <1>3 DEF ShipFrame, TypeOK
  <2>. QED
    BY <1>1, <2>1, <2>2, <2>3, <2>4 DEF TypeOK, ServiceTypeOK, sessionVars, clientVars
<1>4. CASE Fail(t) /\ Collect(t) /\ UNCHANGED <<queue, cur, pos>>
  <2>1. sent' \in [Tasks -> Seq(Frame)]
    BY <1>4, SendTyped, FramesTyped DEF Fail, TypeOK
  <2>2. call' \in [Tasks -> CallStates] /\ UNCHANGED cancelled
    BY <1>0, <1>4 DEF Fail, Collect, ServiceTypeOK, CallStates
  <2>3. pc' \in [Tasks -> {"none", "finished"} \cup Live]
    BY <1>4 DEF Fail, GoTo, TypeOK, Live, Sending
  <2>. QED
    BY <1>1, <1>4, <2>1, <2>2, <2>3 DEF TypeOK, ServiceTypeOK, sessionVars, clientVars
<1>5. CASE Finish(t) /\ UNCHANGED <<call, cur, pos, sent, queue>>
  BY <1>1, <1>5
  DEF Finish, Forget, GoTo, TypeOK, ServiceTypeOK, sessionVars, clientVars
<1>6. EmitGet(t) => Loop(t)
  BY DEF EmitGet
<1>7. EmitResult(t) =>
        Loop(t) \/ (Collect(t) /\ \E k, i \in Nat : ShipFrame(t, k, i))
  BY <1>0 DEF EmitResult
<1>8. EmitRaises(t) => Fail(t) /\ Collect(t) /\ UNCHANGED <<queue, cur, pos>>
  BY DEF EmitRaises
<1>9. EmitShip(t) =>
        Loop(t) \/ (UNCHANGED call /\ \E k, i \in Nat : ShipFrame(t, k, i))
  <2>1. pos[t] + 1 \in Nat
    BY <1>0
  <2>. QED
    BY <1>0, <2>1 DEF EmitShip
<1>10. EmitLast(t) \/ EmitSendRaises(t) =>
         Finish(t) /\ UNCHANGED <<call, cur, pos, sent, queue>>
  BY DEF EmitLast, EmitSendRaises
<1>. QED
  BY <1>2, <1>3, <1>4, <1>5, <1>6, <1>7, <1>8, <1>9, <1>10 DEF Emit

\* So does a step of close().
LEMMA CloseTyped ==
  ASSUME TypeOK, NEW s \in Sessions, NEW rest \in Seq(Tasks), CloseRest(s, rest)
  PROVE  TypeOK'
<1>1. PICK n \in 0..Len(rest) :
        /\ CancelAll({rest[i] : i \in 1..(n + 1) \cap DOMAIN rest})
        /\ contexts' = [contexts EXCEPT ![s] = SubSeq(rest, n + 1, Len(rest))]
        /\ handler' =
             [handler EXCEPT ![s] = IF n < Len(rest) THEN "close" ELSE "closed"]
        /\ UNCHANGED <<call, link, clientVars, emitVars>>
  BY DEF CloseRest
<1> DEFINE T == {rest[i] : i \in 1..(n + 1) \cap DOMAIN rest}
<1>2. T \subseteq Tasks
  BY ElementOfSeq, LenProperties
<1>3. SubSeq(rest, n + 1, Len(rest)) \in Seq(Tasks)
  BY Suffix
<1>4. queue' \in [Tasks -> Seq(0..MaxChunks)] /\ dropped' \in [Tasks -> BOOLEAN]
  <2>1. \A t \in Tasks : Append(queue[t], EOF) \in Seq(0..MaxChunks)
    <3>1. EOF \in 0..MaxChunks
      BY SessionAssumption
    <3>2. \A q \in Seq(0..MaxChunks) : Append(q, EOF) \in Seq(0..MaxChunks)
      BY <3>1
    <3>. QED
      BY <3>2 DEF TypeOK
  <2>. HIDE DEF T
  <2>. QED
    BY <1>1, <2>1 DEF CancelAll, Wake, TypeOK, T
<1>5. cancelled' \subseteq ContextIds
  BY <1>1, <1>2, CtxIdAssumption DEF CancelAll, Cancel, TypeOK, ServiceTypeOK
<1>. QED
  BY <1>1, <1>3, <1>4, <1>5 DEF TypeOK, ServiceTypeOK, clientVars, emitVars

\* While close() waits there is a context it waits for.
Closing == \A s \in Sessions : handler[s] = "close" => contexts[s] # <<>>

\* What is left of a list of contexts when close() waits is not empty.
LEMMA CloseWaits ==
  ASSUME TypeOK, Closing, NEW s \in Sessions, NEW rest \in Seq(Tasks), CloseRest(s, rest)
  PROVE  Closing'
<1>1. PICK n \in 0..Len(rest) :
        /\ contexts' = [contexts EXCEPT ![s] = SubSeq(rest, n + 1, Len(rest))]
        /\ handler' =
             [handler EXCEPT ![s] = IF n < Len(rest) THEN "close" ELSE "closed"]
  BY DEF CloseRest
<1>2. n < Len(rest) => SubSeq(rest, n + 1, Len(rest)) # <<>>
  <2> DEFINE r == SubSeq(rest, n + 1, Len(rest))
  <2>1. r \in Seq(Tasks) /\ Len(r) = Len(rest) - n
    BY Suffix
  <2>. HIDE DEF r
  <2>2. n < Len(rest) => Len(r) # 0
    BY <2>1
  <2>3. n < Len(rest) => r # <<>>
    BY <2>1, <2>2, EmptySeq
  <2>. QED
    BY <2>3 DEF r
<1>. QED
  BY <1>1, <1>2 DEF Closing, TypeOK

\* Every step keeps Closing.
LEMMA ClosingStep == TypeOK /\ Closing /\ [Next]_vars => Closing'
<1> SUFFICES ASSUME TypeOK, Closing, [Next]_vars
             PROVE  Closing'
  OBVIOUS
<1>1. ASSUME NEW s \in Sessions, Crash(s) \/ HangUp(s) \/ CloseJoined(s)
      PROVE  Closing'
  <2>1. contexts[s] \in Seq(Tasks)
    BY DEF TypeOK
  <2>2. CASE CloseRest(s, contexts[s])
    BY <2>1, <2>2, CloseWaits
  <2>3. CASE CloseJoined(s)
    BY <2>1, <2>3, CloseWaits, HeadTailProperties DEF CloseJoined, Closing
  <2>. QED
    BY <1>1, <2>2, <2>3 DEF Crash, HangUp
<1>2. ASSUME NEW s \in Sessions,
             Connect(s) \/ Stall(s) \/ Disconnect(s) \/ BadFrame(s) \/ ReplyDone(s)
      PROVE  Closing'
  BY <1>2 DEF Connect, Stall, Disconnect, BadFrame, ReplyDone, Closing, TypeOK
<1>3. ASSUME NEW t \in Tasks, OnText(t)
      PROVE  Closing'
  <2>1. contexts' = contexts \/ Enter(t)
    BY <1>3 DEF OnText, Lookup
  <2>2. handler' = handler /\ handler[SessionOf[t]] = "recv"
    BY <1>3 DEF OnText
  <2>. QED
    BY <2>1, <2>2, SessionAssumption DEF Closing, Enter, TypeOK
<1>4. CASE UNCHANGED <<handler, contexts>>
  BY <1>4 DEF Closing
<1>5. ASSUME NEW t \in Tasks, Emit(t)
      PROVE  UNCHANGED <<handler, contexts>>
  BY <1>5 DEF Emit, EmitGet, EmitResult, EmitRaises, EmitShip, EmitLast, EmitSendRaises, sessionVars
<1>. QED
  BY <1>1, <1>2, <1>3, <1>4, <1>5
  DEF Next, Emit, PushText, FinalText, FlushText, CancelFrame, CloseTimeout, PoolAnswers,
      Over, vars, sessionVars

\* The type invariant is inductive relative to Closing.
LEMMA TypeStep == TypeOK /\ Closing /\ [Next]_vars => TypeOK'
<1> SUFFICES ASSUME TypeOK, Closing, [Next]_vars
             PROVE  TypeOK'
  OBVIOUS
<1>1. ASSUME NEW s \in Sessions,
             Connect(s) \/ Stall(s) \/ Disconnect(s) \/ BadFrame(s) \/ ReplyDone(s)
      PROVE  TypeOK'
  <2>1. UNCHANGED <<serviceVars, contexts, taskVars>>
    BY <1>1 DEF Connect, Stall, Disconnect, BadFrame, ReplyDone
  <2>2. /\ handler' \in [Sessions -> {"idle", "recv", "reply", "close", "closed"}]
        /\ link' \in [Sessions -> {"up", "stalled", "down"}]
    BY <1>1 DEF Connect, Stall, Disconnect, BadFrame, ReplyDone, TypeOK
  <2>. QED
    BY <2>1, <2>2
    DEF TypeOK, ServiceTypeOK, serviceVars, taskVars, clientVars, emitVars
<1>2. ASSUME NEW s \in Sessions, Crash(s) \/ HangUp(s) \/ CloseJoined(s)
      PROVE  TypeOK'
  <2>1. contexts[s] \in Seq(Tasks)
    BY DEF TypeOK
  <2>2. CASE CloseRest(s, contexts[s])
    BY <2>1, <2>2, CloseTyped
  <2>3. CASE CloseJoined(s)
    BY <2>1, <2>3, CloseTyped, HeadTailProperties DEF CloseJoined, Closing
  <2>. QED
    BY <1>2, <2>2, <2>3 DEF Crash, HangUp
<1>3. ASSUME NEW s \in Sessions, CloseTimeout(s)
      PROVE  TypeOK'
  <2>1. PICK t \in Tasks : Finish(t) /\ Abandon(t)
    BY <1>3 DEF CloseTimeout
  <2>2. ServiceTypeOK'
    BY <2>1 DEF Finish, Forget, Abandon, Drop, TypeOK, ServiceTypeOK, CallStates
  <2>3. pc' \in [Tasks -> {"none", "finished"} \cup Live]
    BY <2>1 DEF Finish, GoTo, TypeOK
  <2>. QED
    BY <1>3, <2>2, <2>3 DEF CloseTimeout, TypeOK, sessionVars, clientVars
<1>4. ASSUME NEW t \in Tasks, PushText(t) \/ FinalText(t) \/ FlushText(t)
      PROVE  TypeOK'
  BY <1>4, TextTyped
<1>5. ASSUME NEW t \in Tasks, CancelFrame(t)
      PROVE  TypeOK'
  <2>1. <<EOF>> \in Seq(0..MaxChunks) /\ CtxId[t] \in ContextIds
    BY SessionAssumption, CtxIdAssumption
  <2>. QED
    BY <1>5, <2>1
    DEF CancelFrame, Cancel, DrainAndWake, TypeOK, ServiceTypeOK,
        sessionVars, clientVars, emitVars
<1>6. ASSUME NEW t \in Tasks, Emit(t)
      PROVE  TypeOK'
  BY <1>6, EmitTyped
<1>7. ASSUME NEW t \in Tasks, PoolAnswers(t)
      PROVE  TypeOK'
  BY <1>7
  DEF PoolAnswers, Resolve, TypeOK, ServiceTypeOK, CallStates,
      sessionVars, taskVars, clientVars, emitVars
<1>8. CASE UNCHANGED vars
  BY <1>8
  DEF TypeOK, ServiceTypeOK, vars, serviceVars, sessionVars, taskVars, clientVars, emitVars
<1>. QED
  BY <1>1, <1>2, <1>3, <1>4, <1>5, <1>6, <1>7, <1>8 DEF Next, Emit, Over

\* The initial states are well typed.
LEMMA InitTyped == Init => TypeOK /\ Closing
BY SessionAssumption, CtxIdAssumption
DEF Init, ServiceInit, TypeOK, ServiceTypeOK, CallStates, Closing

\* Every variable of the sessions keeps to its type.
THEOREM TypeCorrect == Spec => []TypeOK
<1>1. Init => TypeOK /\ Closing
  BY InitTyped
<1>2. TypeOK /\ Closing /\ [Next]_vars => (TypeOK /\ Closing)'
  BY TypeStep, ClosingStep
<1>. QED
  BY <1>1, <1>2, PTL DEF Spec
-----------------------------------------------------------------------------
(***************************************************************************)
(* Safety: the calls of the emit tasks, close(), the cancel flags and what *)
(* a cancelled context may still do.                                       *)
(*                                                                         *)
(* Each property is an invariant relative to those before it.  The proofs  *)
(* split a step by who makes it: the emit task of one context, close(),    *)
(* a text or cancel frame, or a part that touches none of the variables    *)
(* the properties are about.                                               *)
(***************************************************************************)

(***************************************************************************)
(* The shapes of the steps.                                                *)
(***************************************************************************)

\* An emit task changes only its own call, place, queue and frames; it clears
\* its flag exactly when it finishes.
LEMMA EmitShape ==
  ASSUME TypeOK, NEW t \in Tasks, Emit(t)
  PROVE  /\ UNCHANGED <<sessionVars, clientVars, dropped>>
         /\ pc[t] \in Live
         /\ \E p \in Live \cup {"finished"} :
              /\ pc' = [pc EXCEPT ![t] = p]
              /\ p \in Live => UNCHANGED cancelled
              /\ p = "finished" => Forget(CtxId[t])
<1>1. UNCHANGED <<sessionVars, clientVars, dropped>>
  BY DEF Emit, EmitGet, EmitResult, EmitRaises, EmitShip, EmitLast, EmitSendRaises
<1>2. pc[t] \in Live
  BY DEF Emit, EmitGet, EmitResult, EmitRaises, EmitShip, EmitLast, EmitSendRaises, Live, Sending
<1>3. ASSUME Loop(t)
      PROVE  \E p \in Live \cup {"finished"} :
               /\ pc' = [pc EXCEPT ![t] = p]
               /\ p \in Live => UNCHANGED cancelled
               /\ p = "finished" => Forget(CtxId[t])
  BY <1>3
  DEF Loop, LoopParks, LoopQuits, LoopSynthesizes, LoopRefused, LoopEnds, Fail, Finish,
      GoTo, Live, Sending
<1>4. ASSUME NEW k, NEW i, ShipFrame(t, k, i)
      PROVE  pc' = [pc EXCEPT ![t] = "ship"] /\ UNCHANGED cancelled
  BY <1>4 DEF ShipFrame, GoTo
<1>5. ASSUME Fail(t)
      PROVE  pc' = [pc EXCEPT ![t] = "error"] /\ UNCHANGED cancelled
  BY <1>5 DEF Fail, GoTo
<1>6. ASSUME Finish(t)
      PROVE  pc' = [pc EXCEPT ![t] = "finished"] /\ Forget(CtxId[t])
  BY <1>6 DEF Finish, GoTo
<1>7. \/ Loop(t)
      \/ \E k, i : ShipFrame(t, k, i)
      \/ Fail(t)
      \/ Finish(t)
  BY DEF Emit, EmitGet, EmitResult, EmitRaises, EmitShip, EmitLast, EmitSendRaises
<1>8. "ship" \in Live /\ "error" \in Live /\ "finished" \notin Live
  BY DEF Live, Sending
<1>. QED
  BY <1>1, <1>2, <1>3, <1>4, <1>5, <1>6, <1>7, <1>8

\* An emit task touches neither the call nor the frames of another.
LEMMA EmitLocal ==
  ASSUME NEW t \in Tasks, Emit(t), NEW u \in Tasks, u # t,
         call \in [Tasks -> CallStates], sent \in [Tasks -> Seq(Frame)]
  PROVE  sent'[u] = sent[u] /\ call'[u] = call[u]
<1>1. CASE Loop(t)
  BY <1>1
  DEF Loop, LoopParks, LoopQuits, LoopSynthesizes, LoopRefused, LoopEnds, Send, NoCall,
      Submit, Refuse, Fail
<1>2. CASE /\ Fail(t) \/ \E k, i : ShipFrame(t, k, i)
           /\ Collect(t) \/ UNCHANGED call
  BY <1>2 DEF Fail, ShipFrame, Send, Collect
<1>3. CASE UNCHANGED <<call, sent>>
  BY <1>3
<1>. QED
  BY <1>1, <1>2, <1>3
  DEF Emit, EmitGet, EmitResult, EmitRaises, EmitShip, EmitLast, EmitSendRaises

\* A text frame creates its context or finds it.
LEMMA TextShape ==
  ASSUME NEW t \in Tasks, PushText(t) \/ FinalText(t) \/ FlushText(t)
  PROVE  /\ handler[SessionOf[t]] = "recv"
         /\ UNCHANGED <<cancelled, call, handler, dropped, sent>>
         /\ \/ UNCHANGED <<contexts, pc>> /\ pc[t] # "none"
            \/ /\ pc[t] = "none"
               /\ pc' = [pc EXCEPT ![t] = "get"]
               /\ contexts' = [contexts EXCEPT ![SessionOf[t]] = Append(@, t)]
BY DEF PushText, FinalText, FlushText, OnText, Lookup, Enter, serviceVars

\* The steps that run the loop of close() over what is left of the contexts.
LEMMA CloseShape ==
  ASSUME TypeOK, Closing, NEW s \in Sessions, Crash(s) \/ HangUp(s) \/ CloseJoined(s)
  PROVE  \E rest \in Seq(Tasks) :
           /\ CloseRest(s, rest)
           /\ \/ rest = contexts[s] /\ handler[s] \in {"recv", "reply"}
              \/ /\ rest = Tail(contexts[s])
                 /\ contexts[s] # <<>>
                 /\ handler[s] = "close"
                 /\ pc[Head(contexts[s])] = "finished"
<1>1. contexts[s] \in Seq(Tasks)
  BY DEF TypeOK
<1>2. CASE CloseJoined(s)
  BY <1>1, <1>2, HeadTailProperties DEF CloseJoined, Closing
<1>3. CASE Crash(s) \/ HangUp(s)
  BY <1>1, <1>3 DEF Crash, HangUp
<1>. QED
  BY <1>2, <1>3

-----------------------------------------------------------------------------
(***************************************************************************)
(* Calls of the emit tasks.                                                *)
(***************************************************************************)

\* A step of an emit task keeps its call in step with its place.
LEMMA EmitCalls ==
  ASSUME TypeOK, CallMatchesTask, NEW t \in Tasks, Emit(t)
  PROVE  CallMatchesTask'
<1>0. call \in [Tasks -> CallStates] /\ pc \in [Tasks -> {"none", "finished"} \cup Live]
  BY DEF TypeOK, ServiceTypeOK
<1>1. CASE Loop(t)
  BY <1>0, <1>1
  DEF Loop, LoopParks, LoopQuits, LoopSynthesizes, LoopRefused, LoopEnds, Submit, Refuse,
      Fail, Finish, GoTo, NoCall,
      CallMatchesTask, CallStates, Live, Sending
<1>2. CASE Collect(t) /\ (Fail(t) \/ \E k, i : ShipFrame(t, k, i))
  BY <1>0, <1>2 DEF Collect, Fail, ShipFrame, GoTo, CallMatchesTask
<1>3. CASE /\ pc[t] \in Sending
           /\ UNCHANGED call
           /\ Finish(t) \/ \E k, i : ShipFrame(t, k, i)
  BY <1>0, <1>3 DEF Finish, ShipFrame, GoTo, CallMatchesTask, Sending
<1>. QED
  BY <1>1, <1>2, <1>3
  DEF Emit, EmitGet, EmitResult, EmitRaises, EmitShip, EmitLast, EmitSendRaises, Sending

\* CallMatchesTask is inductive relative to the type invariant.
LEMMA CallsStep == TypeOK /\ Closing /\ CallMatchesTask /\ [Next]_vars => CallMatchesTask'
<1> SUFFICES ASSUME TypeOK, Closing, CallMatchesTask, [Next]_vars
             PROVE  CallMatchesTask'
  OBVIOUS
<1>0. call \in [Tasks -> CallStates] /\ pc \in [Tasks -> {"none", "finished"} \cup Live]
  BY DEF TypeOK, ServiceTypeOK
<1>1. CASE UNCHANGED <<call, pc>>
  BY <1>1 DEF CallMatchesTask
<1>2. ASSUME NEW s \in Sessions, Crash(s) \/ HangUp(s) \/ CloseJoined(s)
      PROVE  UNCHANGED <<call, pc>>
  BY <1>2, CloseShape DEF CloseRest, emitVars
<1>3. ASSUME NEW s \in Sessions,
             Connect(s) \/ Stall(s) \/ Disconnect(s) \/ BadFrame(s) \/ ReplyDone(s)
      PROVE  UNCHANGED <<call, pc>>
  BY <1>3 DEF Connect, Stall, Disconnect, BadFrame, ReplyDone, serviceVars, taskVars, emitVars
<1>4. ASSUME NEW s \in Sessions, CloseTimeout(s)
      PROVE  CallMatchesTask'
  BY <1>0, <1>4
  DEF CloseTimeout, TimesOut, Finish, Abandon, Drop, GoTo, CallMatchesTask, Live, Sending, CallStates
<1>5. ASSUME NEW t \in Tasks, PushText(t) \/ FinalText(t) \/ FlushText(t)
      PROVE  CallMatchesTask'
  BY <1>0, <1>5, TextShape DEF CallMatchesTask
<1>6. ASSUME NEW t \in Tasks, CancelFrame(t)
      PROVE  UNCHANGED <<call, pc>>
  BY <1>6 DEF CancelFrame, emitVars
<1>7. ASSUME NEW t \in Tasks, Emit(t)
      PROVE  CallMatchesTask'
  BY <1>7, EmitCalls
<1>8. ASSUME NEW t \in Tasks, PoolAnswers(t)
      PROVE  CallMatchesTask'
  BY <1>0, <1>8 DEF PoolAnswers, Resolve, CallMatchesTask, taskVars, emitVars
<1>. QED
  BY <1>1, <1>2, <1>3, <1>4, <1>5, <1>6, <1>7, <1>8
  DEF Next, Emit, Over, vars, serviceVars, taskVars, emitVars

\* An emit task has a synthesize() call outstanding exactly while it awaits it,
\* and a call abandoned at close()'s timeout belongs to a finished task.
THEOREM CallsMatch == Spec => []CallMatchesTask
<1>1. Init => TypeOK /\ Closing /\ CallMatchesTask
  BY InitTyped DEF Init, ServiceInit, CallMatchesTask
<1>2. TypeOK /\ Closing /\ CallMatchesTask /\ [Next]_vars
        => (TypeOK /\ Closing /\ CallMatchesTask)'
  BY TypeStep, ClosingStep, CallsStep
<1>. QED
  BY <1>1, <1>2, PTL DEF Spec
-----------------------------------------------------------------------------
(***************************************************************************)
(* What close() leaves.  A live emit task is always among the contexts of  *)
(* its session, so that close() comes to it and waits for it.              *)
(***************************************************************************)
Registered ==
  \A t \in Tasks : pc[t] \in Live =>
    /\ handler[SessionOf[t]] # "closed"
    /\ \E i \in DOMAIN contexts[SessionOf[t]] : contexts[SessionOf[t]][i] = t

\* close() only passes over tasks that are finished.
LEMMA CloseRegistered ==
  ASSUME TypeOK, Closing, Registered,
         NEW s \in Sessions, Crash(s) \/ HangUp(s) \/ CloseJoined(s)
  PROVE  Registered'
<1>1. PICK rest \in Seq(Tasks) :
        /\ CloseRest(s, rest)
        /\ \/ rest = contexts[s]
           \/ /\ rest = Tail(contexts[s])
              /\ contexts[s] # <<>>
              /\ pc[Head(contexts[s])] = "finished"
  BY CloseShape
<1>2. PICK n \in 0..Len(rest) :
        /\ \A i \in 1..n : pc[rest[i]] = "finished"
        /\ contexts' = [contexts EXCEPT ![s] = SubSeq(rest, n + 1, Len(rest))]
        /\ handler' =
             [handler EXCEPT ![s] = IF n < Len(rest) THEN "close" ELSE "closed"]
        /\ pc' = pc
  BY <1>1 DEF CloseRest, emitVars
<1> SUFFICES ASSUME NEW t \in Tasks, pc[t] \in Live
             PROVE  /\ handler'[SessionOf[t]] # "closed"
                    /\ \E i \in DOMAIN contexts'[SessionOf[t]] :
                         contexts'[SessionOf[t]][i] = t
  BY <1>2 DEF Registered
<1>3. CASE SessionOf[t] # s
  BY <1>2, <1>3, SessionAssumption DEF Registered, TypeOK
<1>4. CASE SessionOf[t] = s
  <2>1. PICK i \in DOMAIN contexts[s] : contexts[s][i] = t
    BY <1>4 DEF Registered
  <2>2. contexts[s] \in Seq(Tasks) /\ i \in 1..Len(contexts[s])
    <3>1. contexts[s] \in Seq(Tasks)
      BY DEF TypeOK
    <3>. QED
      BY <2>1, <3>1
  <2>3. PICK j \in 1..Len(rest) : rest[j] = t
    <3>1. CASE rest = contexts[s]
      BY <2>1, <2>2, <3>1
    <3>2. CASE /\ rest = Tail(contexts[s])
               /\ contexts[s] # <<>>
               /\ pc[Head(contexts[s])] = "finished"
      <4>1. i # 1
        BY <2>1, <2>2, <3>2 DEF Live, Sending
      <4>2. i - 1 \in 1..Len(rest) /\ rest[i - 1] = contexts[s][i]
        BY <2>2, <3>2, <4>1
      <4>. QED
        BY <2>1, <4>2
    <3>. QED
      BY <1>1, <3>1, <3>2
  <2>4. j > n
    BY <1>2, <2>3 DEF Live, Sending
  <2>5. handler'[s] = "close" /\ contexts'[s] = SubSeq(rest, n + 1, Len(rest))
    <3>1. n < Len(rest)
      BY <2>3, <2>4
    <3>. QED
      BY <1>2, <3>1 DEF TypeOK
  <2> DEFINE r == SubSeq(rest, n + 1, Len(rest))
  <2>6. /\ r \in Seq(Tasks)
        /\ Len(r) = Len(rest) - n
        /\ \A k \in 1..(Len(rest) - n) : r[k] = rest[n + k]
    BY Suffix
  <2>. HIDE DEF r
  <2>7. j - n \in DOMAIN r /\ r[j - n] = rest[j]
    BY <2>3, <2>4, <2>6
  <2>. QED
    BY <1>4, <2>3, <2>5, <2>7 DEF r
<1>. QED
  BY <1>3, <1>4

\* Registered is inductive relative to the type invariant.
LEMMA RegisteredStep == TypeOK /\ Closing /\ Registered /\ [Next]_vars => Registered'
<1> SUFFICES ASSUME TypeOK, Closing, Registered, [Next]_vars
             PROVE  Registered'
  OBVIOUS
<1>0. pc \in [Tasks -> {"none", "finished"} \cup Live] /\ "finished" \notin Live
  BY DEF TypeOK, Live, Sending
<1>1. CASE UNCHANGED <<handler, contexts, pc>>
  BY <1>1 DEF Registered
<1>2. ASSUME NEW s \in Sessions, Crash(s) \/ HangUp(s) \/ CloseJoined(s)
      PROVE  Registered'
  BY <1>2, CloseRegistered
<1>3. ASSUME NEW s \in Sessions,
             Connect(s) \/ Stall(s) \/ Disconnect(s) \/ BadFrame(s) \/ ReplyDone(s)
      PROVE  Registered'
  <2>1. UNCHANGED <<contexts, pc>>
    BY <1>3 DEF Connect, Stall, Disconnect, BadFrame, ReplyDone, taskVars, emitVars
  <2>2. \A r \in Sessions : handler'[r] = "closed" => handler[r] = "closed"
    BY <1>3 DEF Connect, Stall, Disconnect, BadFrame, ReplyDone, TypeOK
  <2>. QED
    BY <2>1, <2>2, SessionAssumption DEF Registered
<1>4. ASSUME NEW s \in Sessions, CloseTimeout(s)
      PROVE  Registered'
  BY <1>0, <1>4 DEF CloseTimeout, Finish, GoTo, Registered, sessionVars
<1>5. ASSUME NEW t \in Tasks, PushText(t) \/ FinalText(t) \/ FlushText(t)
      PROVE  Registered'
  <2>1. CASE UNCHANGED <<handler, contexts, pc>>
    BY <1>1, <2>1
  <2>2. CASE /\ handler[SessionOf[t]] = "recv"
             /\ handler' = handler
             /\ pc' = [pc EXCEPT ![t] = "get"]
             /\ contexts' = [contexts EXCEPT ![SessionOf[t]] = Append(@, t)]
    <3> DEFINE s == SessionOf[t]
    <3>1. s \in Sessions /\ contexts[s] \in Seq(Tasks)
      BY SessionAssumption DEF TypeOK
    <3>2. contexts'[s] = Append(contexts[s], t)
      BY <2>2, <3>1 DEF TypeOK
    <3>3. \A r \in Sessions : r # s => contexts'[r] = contexts[r]
      BY <2>2, <3>1 DEF TypeOK
    <3>4. /\ Len(contexts[s]) + 1 \in DOMAIN contexts'[s]
          /\ contexts'[s][Len(contexts[s]) + 1] = t
          /\ \A i \in DOMAIN contexts[s] :
               i \in DOMAIN contexts'[s] /\ contexts'[s][i] = contexts[s][i]
      BY <3>1, <3>2
    <3> SUFFICES ASSUME NEW u \in Tasks, pc'[u] \in Live
                 PROVE  /\ handler'[SessionOf[u]] # "closed"
                        /\ \E i \in DOMAIN contexts'[SessionOf[u]] :
                             contexts'[SessionOf[u]][i] = u
      BY DEF Registered
    <3>5. CASE u = t
      BY <2>2, <3>4, <3>5
    <3>6. CASE u # t
      <4>1. pc[u] \in Live
        BY <1>0, <2>2, <3>6
      <4>2. PICK i \in DOMAIN contexts[SessionOf[u]] : contexts[SessionOf[u]][i] = u
        BY <4>1 DEF Registered
      <4>3. SessionOf[u] \in Sessions
        BY SessionAssumption
      <4>. QED
        BY <2>2, <3>3, <3>4, <4>1, <4>2, <4>3 DEF Registered
    <3>. QED
      BY <3>5, <3>6
  <2>. QED
    BY <1>5, <2>1, <2>2, TextShape
<1>6. ASSUME NEW t \in Tasks, CancelFrame(t)
      PROVE  UNCHANGED <<handler, contexts, pc>>
  BY <1>6 DEF CancelFrame, sessionVars, emitVars
<1>7. ASSUME NEW t \in Tasks, Emit(t)
      PROVE  Registered'
  BY <1>0, <1>7, EmitShape DEF Registered, sessionVars
<1>8. ASSUME NEW t \in Tasks, PoolAnswers(t)
      PROVE  UNCHANGED <<handler, contexts, pc>>
  BY <1>8 DEF PoolAnswers, sessionVars, taskVars, emitVars
<1>. QED
  BY <1>1, <1>2, <1>3, <1>4, <1>5, <1>6, <1>7, <1>8
  DEF Next, Emit, Over, vars, sessionVars, taskVars, emitVars

\* Registered is an invariant.
LEMMA AlwaysRegistered == Spec => []Registered
<1>1. Init => TypeOK /\ Closing /\ Registered
  BY InitTyped DEF Init, Registered, Live, Sending
<1>2. TypeOK /\ Closing /\ Registered /\ [Next]_vars => (TypeOK /\ Closing /\ Registered)'
  BY TypeStep, ClosingStep, RegisteredStep
<1>. QED
  BY <1>1, <1>2, PTL DEF Spec

\* When close() has returned no emit task of its session runs any more.
THEOREM ClosedIsQuiet == Spec => []CloseLeavesNothing
<1>1. Registered => CloseLeavesNothing
  BY DEF Registered, CloseLeavesNothing
<1>. QED
  BY <1>1, AlwaysRegistered, PTL

\* While close() waits, every task that still runs is one it will come to.
THEOREM NoneSkipped == Spec => []CloseVisitsAll
<1>1. Registered => CloseVisitsAll
  BY DEF Registered, CloseVisitsAll
<1>. QED
  BY <1>1, AlwaysRegistered, PTL
-----------------------------------------------------------------------------
(***************************************************************************)
(* Cancel flags.  What follows is about contexts with distinct ids: two    *)
(* contexts with one id share a flag, and then none of it holds (the run   *)
(* shared_id).                                                             *)
(***************************************************************************)
ContextsOf(s) == {contexts[s][i] : i \in DOMAIN contexts[s]}

\* The contexts of a session, and those it has cancelled, have been created.
ContextsExist ==
  /\ \A s \in Sessions : \A t \in ContextsOf(s) : pc[t] # "none"
  /\ \A t \in Tasks : dropped[t] => pc[t] # "none"

\* close() cancels some of its contexts and keeps some.
LEMMA CloseMarks ==
  ASSUME TypeOK, Closing, NEW s \in Sessions, Crash(s) \/ HangUp(s) \/ CloseJoined(s)
  PROVE  /\ \E T \in SUBSET ContextsOf(s) : CancelAll(T)
         /\ ContextsOf(s)' \subseteq ContextsOf(s)
         /\ \A r \in Sessions \ {s} : contexts'[r] = contexts[r]
         /\ UNCHANGED <<call, pc, sent>>
<1>1. PICK rest \in Seq(Tasks) :
        /\ CloseRest(s, rest)
        /\ \/ rest = contexts[s]
           \/ rest = Tail(contexts[s]) /\ contexts[s] # <<>>
  BY CloseShape
<1>2. PICK n \in 0..Len(rest) :
        /\ CancelAll({rest[i] : i \in 1..(n + 1) \cap DOMAIN rest})
        /\ contexts' = [contexts EXCEPT ![s] = SubSeq(rest, n + 1, Len(rest))]
        /\ UNCHANGED <<call, pc, sent>>
  BY <1>1 DEF CloseRest, emitVars
<1>3. \A i \in DOMAIN rest : rest[i] \in ContextsOf(s)
  <2>1. contexts[s] \in Seq(Tasks)
    BY DEF TypeOK
  <2>2. CASE rest = contexts[s]
    BY <2>2 DEF ContextsOf
  <2>3. CASE rest = Tail(contexts[s]) /\ contexts[s] # <<>>
    <3>1. \A i \in DOMAIN rest :
            i + 1 \in DOMAIN contexts[s] /\ rest[i] = contexts[s][i + 1]
      BY <2>1, <2>3
    <3>. QED
      BY <3>1 DEF ContextsOf
  <2>. QED
    BY <1>1, <2>2, <2>3
<1>4. ContextsOf(s)' \subseteq ContextsOf(s)
  <2> DEFINE r == SubSeq(rest, n + 1, Len(rest))
  <2>1. contexts'[s] = r
    BY <1>2 DEF TypeOK
  <2>2. /\ r \in Seq(Tasks)
        /\ Len(r) = Len(rest) - n
        /\ \A k \in 1..(Len(rest) - n) : r[k] = rest[n + k]
    BY Suffix
  <2>. HIDE DEF r
  <2>3. \A k \in DOMAIN r : n + k \in DOMAIN rest /\ r[k] = rest[n + k]
    BY <2>2
  <2>. QED
    BY <1>3, <2>1, <2>3 DEF ContextsOf
<1>5. {rest[i] : i \in 1..(n + 1) \cap DOMAIN rest} \subseteq ContextsOf(s)
  BY <1>3
<1>. QED
  BY <1>2, <1>4, <1>5 DEF TypeOK

\* ContextsExist is inductive relative to the type invariant.
LEMMA ExistStep == TypeOK /\ Closing /\ ContextsExist /\ [Next]_vars => ContextsExist'
<1> SUFFICES ASSUME TypeOK, Closing, ContextsExist, [Next]_vars
             PROVE  ContextsExist'
  OBVIOUS
<1>0. /\ pc \in [Tasks -> {"none", "finished"} \cup Live]
      /\ "none" \notin Live
      /\ \A s \in Sessions : ContextsOf(s) \subseteq Tasks
  <2>1. \A s \in Sessions : contexts[s] \in Seq(Tasks)
    BY DEF TypeOK
  <2>2. \A s \in Sessions : \A i \in DOMAIN contexts[s] : contexts[s][i] \in Tasks
    BY <2>1, ElementOfSeq
  <2>. QED
    BY <2>2 DEF TypeOK, Live, Sending, ContextsOf
<1>1. CASE UNCHANGED <<contexts, pc, dropped>>
  BY <1>1 DEF ContextsExist, ContextsOf
<1>2. ASSUME NEW s \in Sessions, Crash(s) \/ HangUp(s) \/ CloseJoined(s)
      PROVE  ContextsExist'
  <2>1. \A r \in Sessions : ContextsOf(r)' \subseteq ContextsOf(r)
    <3>1. ContextsOf(s)' \subseteq ContextsOf(s)
      BY <1>2, CloseMarks
    <3>2. \A r \in Sessions \ {s} : contexts'[r] = contexts[r]
      BY <1>2, CloseMarks
    <3>. QED
      BY <3>1, <3>2 DEF ContextsOf
  <2>2. \A t \in Tasks : dropped'[t] => dropped[t] \/ t \in ContextsOf(s)
    <3>1. PICK T \in SUBSET ContextsOf(s) : CancelAll(T)
      BY <1>2, CloseMarks
    <3>. QED
      BY <3>1 DEF CancelAll
  <2>3. pc' = pc
    BY <1>2, CloseMarks
  <2>. QED
    BY <2>1, <2>2, <2>3 DEF ContextsExist
<1>3. ASSUME NEW s \in Sessions,
             Connect(s) \/ Stall(s) \/ Disconnect(s) \/ BadFrame(s) \/ ReplyDone(s)
      PROVE  UNCHANGED <<contexts, pc, dropped>>
  BY <1>3 DEF Connect, Stall, Disconnect, BadFrame, ReplyDone, taskVars, emitVars
<1>4. ASSUME NEW t \in Tasks, NEW p \in Live \cup {"finished"},
             pc' = [pc EXCEPT ![t] = p], UNCHANGED <<contexts, dropped>>
      PROVE  ContextsExist'
  BY <1>0, <1>4 DEF ContextsExist, ContextsOf
<1>5. ASSUME NEW s \in Sessions, CloseTimeout(s)
      PROVE  ContextsExist'
  BY <1>4, <1>5 DEF CloseTimeout, Finish, GoTo, sessionVars
<1>6. ASSUME NEW t \in Tasks, PushText(t) \/ FinalText(t) \/ FlushText(t)
      PROVE  ContextsExist'
  <2>1. CASE UNCHANGED <<contexts, pc>>
    BY <1>1, <1>6, <2>1, TextShape
  <2>2. CASE /\ pc' = [pc EXCEPT ![t] = "get"]
             /\ contexts' = [contexts EXCEPT ![SessionOf[t]] = Append(@, t)]
    <3>1. \A s \in Sessions : ContextsOf(s)' \subseteq ContextsOf(s) \cup {t}
      <4>1. \A s \in Sessions : contexts[s] \in Seq(Tasks)
        BY DEF TypeOK
      <4>2. \A s \in Sessions : \A i \in DOMAIN Append(contexts[s], t) :
              \/ i \in DOMAIN contexts[s] /\ Append(contexts[s], t)[i] = contexts[s][i]
              \/ Append(contexts[s], t)[i] = t
        BY <4>1
      <4>3. \A s \in Sessions :
              contexts'[s] = contexts[s] \/ contexts'[s] = Append(contexts[s], t)
        BY <2>2 DEF TypeOK
      <4>. QED
        BY <4>2, <4>3 DEF ContextsOf
    <3>2. pc'[t] # "none" /\ \A u \in Tasks : pc[u] # "none" => pc'[u] # "none"
      BY <1>0, <2>2
    <3>3. dropped' = dropped
      BY <1>6, TextShape
    <3>. QED
      BY <1>0, <3>1, <3>2, <3>3 DEF ContextsExist
  <2>. QED
    BY <1>6, <2>1, <2>2, TextShape
<1>7. ASSUME NEW t \in Tasks, CancelFrame(t)
      PROVE  ContextsExist'
  BY <1>7 DEF CancelFrame, Known, ContextsExist, ContextsOf, sessionVars, emitVars
<1>8. ASSUME NEW t \in Tasks, Emit(t)
      PROVE  ContextsExist'
  BY <1>4, <1>8, EmitShape DEF sessionVars
<1>9. ASSUME NEW t \in Tasks, PoolAnswers(t)
      PROVE  UNCHANGED <<contexts, pc, dropped>>
  BY <1>9 DEF PoolAnswers, sessionVars, taskVars, emitVars
<1>. QED
  BY <1>1, <1>2, <1>3, <1>5, <1>6, <1>7, <1>8, <1>9
  DEF Next, Emit, Over, vars, sessionVars, taskVars, emitVars

(***************************************************************************)
(* Flags: what the session knows to be cancelled is flagged, what is       *)
(* flagged is known to be cancelled, and the emit task has its wake-up.    *)
(***************************************************************************)
Flags == FlagHeld /\ FlagOwned /\ CancelWakes

SessionInv == TypeOK /\ Closing /\ ContextsExist /\ Flags

\* A queue with an EOF.
HasEOF(q) == \E i \in DOMAIN q : q[i] = EOF

\* Appending does not remove an EOF, and brings one that is appended.
LEMMA AppendEOF ==
  ASSUME NEW q \in Seq(0..MaxChunks), NEW r \in Seq(0..MaxChunks)
  PROVE  /\ HasEOF(q) => HasEOF(q \o r)
         /\ HasEOF(Append(q, EOF))
<1>1. ASSUME HasEOF(q)
      PROVE  HasEOF(q \o r)
  <2>1. PICK i \in DOMAIN q : q[i] = EOF
    BY <1>1 DEF HasEOF
  <2>2. i \in DOMAIN (q \o r) /\ (q \o r)[i] = EOF
    BY <2>1
  <2>. QED
    BY <2>2 DEF HasEOF
<1>2. HasEOF(Append(q, EOF))
  <2>1. /\ Len(q) + 1 \in DOMAIN Append(q, EOF)
        /\ Append(q, EOF)[Len(q) + 1] = EOF
    OBVIOUS
  <2>. QED
    BY <2>1 DEF HasEOF
<1>. QED
  BY <1>1, <1>2

\* close() sets the flags of the contexts it cancels, and wakes their tasks.
LEMMA CancelAllFlags ==
  ASSUME SessionInv, DistinctIds, NEW s \in Sessions,
         NEW T \in SUBSET ContextsOf(s), CancelAll(T), pc' = pc
  PROVE  Flags'
<1>0. /\ T \subseteq Tasks
      /\ \A t \in T : pc[t] # "none"
  <2>1. contexts[s] \in Seq(Tasks)
    BY DEF SessionInv, TypeOK
  <2>2. \A i \in DOMAIN contexts[s] : contexts[s][i] \in Tasks
    BY <2>1, ElementOfSeq
  <2>. QED
    BY <2>2 DEF SessionInv, ContextsExist, ContextsOf
<1>1. /\ cancelled' = cancelled \cup {CtxId[t] : t \in T}
      /\ dropped' = [t \in Tasks |-> dropped[t] \/ t \in T]
      /\ queue' = [t \in Tasks |-> IF t \in T THEN Append(queue[t], EOF) ELSE queue[t]]
  BY DEF CancelAll, Cancel, Wake
<1>2. FlagHeld'
  BY <1>1 DEF FlagHeld, IsCancelled, SessionInv, Flags
<1>3. FlagOwned'
  <2> SUFFICES ASSUME NEW t \in Tasks, IsCancelled(t)'
               PROVE  dropped'[t] /\ pc[t] # "none"
    BY DEF FlagOwned
  <2>1. CASE IsCancelled(t)
    BY <1>1, <2>1 DEF FlagOwned, SessionInv, Flags
  <2>2. CASE ~IsCancelled(t)
    <3>1. t \in T
      BY <1>0, <1>1, <2>2 DEF IsCancelled, DistinctIds
    <3>. QED
      BY <1>0, <1>1, <3>1
  <2>. QED
    BY <2>1, <2>2
<1>4. CancelWakes'
  <2> SUFFICES ASSUME NEW t \in Tasks, dropped'[t], pc[t] \in {"get", "synth", "ship"}
               PROVE  HasEOF(queue'[t])
    BY DEF CancelWakes, HasEOF
  <2>1. CASE t \in T
    <3>1. queue[t] \in Seq(0..MaxChunks)
      BY DEF SessionInv, TypeOK
    <3>. QED
      BY <1>1, <2>1, <3>1, AppendEOF
  <2>2. CASE t \notin T
    BY <1>1, <2>2 DEF CancelWakes, HasEOF, SessionInv, Flags
  <2>. QED
    BY <2>1, <2>2
<1>. QED
  BY <1>2, <1>3, <1>4 DEF Flags

\* A text frame adds to a queue.
LEMMA TextFlags ==
  ASSUME SessionInv, NEW t \in Tasks, PushText(t) \/ FinalText(t) \/ FlushText(t)
  PROVE  Flags'
<1>0. pc \in [Tasks -> {"none", "finished"} \cup Live]
  BY DEF SessionInv, TypeOK
<1>1. UNCHANGED <<cancelled, dropped>>
  BY TextShape
<1>2. pc[t] = "none" => ~dropped[t] /\ ~IsCancelled(t)
  BY DEF SessionInv, ContextsExist, Flags, FlagOwned
<1>3. \A u \in Tasks : pc'[u] = pc[u] \/ (u = t /\ pc[t] = "none" /\ pc'[t] = "get")
  BY <1>0, TextShape
<1>4. \A u \in Tasks : HasEOF(queue[u]) => HasEOF(queue'[u])
  <2>1. PICK n \in Nat, tail \in Seq(0..MaxChunks) :
          n <= MaxChunks - made[t] /\ Put(t, n, tail)
    BY TextPuts DEF SessionInv
  <2> DEFINE new == [i \in 1..n |-> made[t] + i]
  <2>2. queue \in [Tasks -> Seq(0..MaxChunks)] /\ new \in Seq(0..MaxChunks)
    <3>1. MaxChunks \in Nat /\ made[t] \in 0..MaxChunks
      BY SessionAssumption DEF SessionInv, TypeOK
    <3>2. new \in [1..n -> 0..MaxChunks]
      BY <2>1, <3>1
    <3>3. new \in Seq(0..MaxChunks)
      BY <3>2, SeqDef
    <3>. QED
      BY <3>3 DEF SessionInv, TypeOK
  <2>3. HasEOF(queue[t]) => HasEOF(queue[t] \o new \o tail)
    <3>1. queue[t] \o new \in Seq(0..MaxChunks)
      BY <2>2, ConcatProperties
    <3>. QED
      BY <2>2, <3>1, AppendEOF
  <2>. QED
    BY <2>1, <2>2, <2>3 DEF Put
<1>. QED
  BY <1>1, <1>2, <1>3, <1>4
  DEF SessionInv, Flags, FlagHeld, FlagOwned, CancelWakes, IsCancelled, HasEOF, Live

\* A cancel frame replaces the queue by a wake-up.
LEMMA CancelFlags ==
  ASSUME SessionInv, DistinctIds, NEW t \in Tasks, CancelFrame(t)
  PROVE  Flags'
<1>1. /\ cancelled' = cancelled \cup {CtxId[t]}
      /\ dropped' = [dropped EXCEPT ![t] = TRUE]
      /\ queue' = [queue EXCEPT ![t] = <<EOF>>]
      /\ pc' = pc /\ pc[t] # "none"
  BY DEF CancelFrame, Cancel, DrainAndWake, Known, emitVars
<1>2. dropped \in [Tasks -> BOOLEAN] /\ queue \in [Tasks -> Seq(0..MaxChunks)]
  BY DEF SessionInv, TypeOK
<1>3. HasEOF(<<EOF>>)
  BY DEF HasEOF
<1>4. FlagHeld'
  BY <1>1, <1>2 DEF FlagHeld, IsCancelled, SessionInv, Flags
<1>5. FlagOwned'
  BY <1>1, <1>2 DEF FlagOwned, IsCancelled, DistinctIds, SessionInv, Flags
<1>6. CancelWakes'
  <2> SUFFICES ASSUME NEW u \in Tasks, dropped'[u], pc[u] \in {"get", "synth", "ship"}
               PROVE  HasEOF(queue'[u])
    BY <1>1 DEF CancelWakes, HasEOF
  <2>. QED
    BY <1>1, <1>2, <1>3 DEF CancelWakes, HasEOF, SessionInv, Flags
<1>. QED
  BY <1>4, <1>5, <1>6 DEF Flags

\* A cancelled context leaves the loop of its emit task at its wake-up.
LEMMA CancelledLoop ==
  ASSUME SessionInv, NEW t \in Tasks, dropped[t], pc[t] \in {"get", "synth", "ship"}, Loop(t)
  PROVE  LoopQuits(t)
<1>1. IsCancelled(t) /\ \E i \in DOMAIN queue[t] : queue[t][i] = EOF
  BY DEF SessionInv, Flags, FlagHeld, CancelWakes, Live, Sending
<1>. QED
  BY <1>1 DEF Loop, LoopParks, LoopSynthesizes, LoopRefused, LoopEnds, Submit

\* The steps of the emit task of a cancelled context.
LEMMA CancelledEmit ==
  ASSUME SessionInv, NEW t \in Tasks, dropped[t], Emit(t)
  PROVE  /\ pc'[t] \in {"error", "finished"}
         /\ sent'[t] = sent[t] \/ sent'[t] = Append(sent[t], ErrorFrame)
         /\ call[t] # "waiting" => call'[t] # "waiting"
<1>0. /\ IsCancelled(t)
      /\ pc \in [Tasks -> {"none", "finished"} \cup Live]
      /\ call \in [Tasks -> CallStates]
      /\ sent \in [Tasks -> Seq(Frame)]
  BY EmitShape DEF SessionInv, Flags, FlagHeld, TypeOK, ServiceTypeOK
<1>1. CASE Loop(t) /\ pc[t] \in {"get", "synth", "ship"}
  BY <1>0, <1>1, CancelledLoop DEF LoopQuits, Finish, GoTo, NoCall
<1>2. CASE Fail(t) /\ Collect(t)
  BY <1>0, <1>2 DEF Fail, GoTo, Send, Collect
<1>3. CASE Finish(t) /\ UNCHANGED <<call, sent>>
  BY <1>0, <1>3 DEF Finish, GoTo
<1>4. EmitShip(t) => Loop(t) /\ pc[t] = "ship"
  BY <1>0 DEF EmitShip, ShipOver
<1>5. EmitResult(t) => Loop(t) /\ pc[t] = "synth"
  BY <1>0 DEF EmitResult
<1>. QED
  BY <1>1, <1>2, <1>3, <1>4, <1>5 DEF Emit, EmitGet, EmitRaises, EmitLast, EmitSendRaises

\* An emit task clears its flag only when it finishes.
LEMMA EmitFlags ==
  ASSUME SessionInv, DistinctIds, NEW t \in Tasks, Emit(t)
  PROVE  Flags'
<1>1. PICK p \in Live \cup {"finished"} :
        /\ pc' = [pc EXCEPT ![t] = p]
        /\ p \in Live => UNCHANGED cancelled
        /\ p = "finished" => Forget(CtxId[t])
  BY EmitShape DEF SessionInv
<1>2. /\ pc \in [Tasks -> {"none", "finished"} \cup Live]
      /\ "finished" \notin Live
      /\ pc[t] \in Live
      /\ dropped' = dropped
      /\ "none" \notin Live
  BY EmitShape DEF SessionInv, TypeOK, Live, Sending
<1>3. \A u \in Tasks : u # t => pc'[u] = pc[u] /\ queue'[u] = queue[u]
  <2>1. \A u \in Tasks : u # t => queue'[u] = queue[u]
    BY DEF Emit, EmitGet, EmitResult, EmitRaises, EmitShip, EmitLast, EmitSendRaises,
           Loop, LoopParks, LoopQuits, LoopSynthesizes, LoopRefused, LoopEnds, ShipFrame,
           SessionInv, TypeOK
  <2>. QED
    BY <1>1, <1>2, <2>1
<1>4. \A u \in Tasks : u # t => IsCancelled(u)' = IsCancelled(u)
  BY <1>1 DEF IsCancelled, Forget, DistinctIds
<1>5. IsCancelled(t)' => IsCancelled(t) /\ p # "finished"
  BY <1>1, <1>2 DEF IsCancelled, Forget
<1>6. pc'[t] = p
  BY <1>1, <1>2
<1>7. p # "finished" => cancelled' = cancelled
  BY <1>1
<1>8. FlagHeld'
  BY <1>2, <1>3, <1>4, <1>6, <1>7 DEF FlagHeld, IsCancelled, SessionInv, Flags
<1>9. FlagOwned'
  BY <1>2, <1>3, <1>4, <1>5, <1>6 DEF FlagOwned, SessionInv, Flags
<1>10. CancelWakes'
  <2>1. dropped[t] => pc'[t] \notin {"get", "synth", "ship"}
    BY CancelledEmit
  <2>. QED
    BY <1>2, <1>3, <2>1 DEF CancelWakes, SessionInv, Flags
<1>. QED
  BY <1>8, <1>9, <1>10 DEF Flags

\* The invariant is inductive for contexts with distinct ids.
LEMMA InvStep == DistinctIds /\ SessionInv /\ [Next]_vars => SessionInv'
<1> SUFFICES ASSUME DistinctIds, SessionInv, [Next]_vars
             PROVE  Flags'
  BY TypeStep, ClosingStep, ExistStep DEF SessionInv
<1>1. CASE UNCHANGED <<cancelled, pc, queue, dropped>>
  BY <1>1 DEF SessionInv, Flags, FlagHeld, FlagOwned, CancelWakes, IsCancelled
<1>2. ASSUME NEW s \in Sessions, Crash(s) \/ HangUp(s) \/ CloseJoined(s)
      PROVE  Flags'
  BY <1>2, CloseMarks, CancelAllFlags DEF SessionInv
<1>3. ASSUME NEW s \in Sessions,
             Connect(s) \/ Stall(s) \/ Disconnect(s) \/ BadFrame(s) \/ ReplyDone(s)
      PROVE  UNCHANGED <<cancelled, pc, queue, dropped>>
  BY <1>3
  DEF Connect, Stall, Disconnect, BadFrame, ReplyDone, serviceVars, taskVars, emitVars
<1>4. ASSUME NEW s \in Sessions, CloseTimeout(s)
      PROVE  Flags'
  <2>1. PICK t \in Tasks : Finish(t) /\ pc[t] \in Live
    BY <1>4 DEF CloseTimeout, TimesOut
  <2>2. pc' = [pc EXCEPT ![t] = "finished"] /\ cancelled' = cancelled \ {CtxId[t]}
    BY <2>1 DEF Finish, GoTo, Forget
  <2>3. UNCHANGED <<queue, dropped>>
    BY <1>4 DEF CloseTimeout
  <2>4. pc \in [Tasks -> {"none", "finished"} \cup Live] /\ "finished" \notin Live
    BY DEF SessionInv, TypeOK, Live, Sending
  <2>5. \A u \in Tasks : u # t => pc'[u] = pc[u] /\ IsCancelled(u)' = IsCancelled(u)
    BY <2>2, <2>4 DEF IsCancelled, DistinctIds
  <2>6. pc'[t] = "finished" /\ ~IsCancelled(t)'
    BY <2>2, <2>4 DEF IsCancelled
  <2>. QED
    BY <2>3, <2>4, <2>5, <2>6 DEF SessionInv, Flags, FlagHeld, FlagOwned, CancelWakes
<1>5. ASSUME NEW t \in Tasks, PushText(t) \/ FinalText(t) \/ FlushText(t)
      PROVE  Flags'
  BY <1>5, TextFlags
<1>6. ASSUME NEW t \in Tasks, CancelFrame(t)
      PROVE  Flags'
  BY <1>6, CancelFlags
<1>7. ASSUME NEW t \in Tasks, Emit(t)
      PROVE  Flags'
  BY <1>7, EmitFlags
<1>8. ASSUME NEW t \in Tasks, PoolAnswers(t)
      PROVE  UNCHANGED <<cancelled, pc, queue, dropped>>
  BY <1>8 DEF PoolAnswers, taskVars, emitVars
<1>. QED
  BY <1>1, <1>2, <1>3, <1>4, <1>5, <1>6, <1>7, <1>8
  DEF Next, Emit, Over, vars, serviceVars, taskVars, emitVars

\* The initial states satisfy it.
LEMMA InvInit == Init => SessionInv
<1>1. Init => Flags /\ ContextsExist
  BY DEF Init, ServiceInit, Flags, FlagHeld, FlagOwned, CancelWakes, ContextsExist,
         ContextsOf, IsCancelled
<1>. QED
  BY <1>1, InitTyped DEF SessionInv

\* The inductive invariant holds of every behaviour.
LEMMA SessionSafe ==
  ASSUME DistinctIds
  PROVE  Spec => []SessionInv
<1>1. SessionInv /\ [Next]_vars => SessionInv'
  BY InvStep
<1>. QED
  BY <1>1, InvInit, PTL DEF Spec

\* If no two contexts have the same id, the flag of a cancelled context is held
\* until its emit task has finished (CancellationSet, _emit_loop's finally).
THEOREM FlagsHeld ==
  ASSUME DistinctIds
  PROVE  Spec => []FlagHeld
<1>1. SessionInv => FlagHeld
  BY DEF SessionInv, Flags
<1>. QED
  BY <1>1, SessionSafe, PTL

\* If no two contexts have the same id, the flag of a context is set only after its
\* own session has cancelled it: nothing of another session stops it.
THEOREM FlagsOwned ==
  ASSUME DistinctIds
  PROVE  Spec => []FlagOwned
<1>1. SessionInv => FlagOwned
  BY DEF SessionInv, Flags
<1>. QED
  BY <1>1, SessionSafe, PTL

\* If no two contexts have the same id, the queue of a cancelled context holds the
\* wake-up for as long as its emit task may still wait on it (cancel, close).
THEOREM CancelledWakes ==
  ASSUME DistinctIds
  PROVE  Spec => []CancelWakes
<1>1. SessionInv => CancelWakes
  BY DEF SessionInv, Flags
<1>. QED
  BY <1>1, SessionSafe, PTL

\* A step of the sessions leaves the calls and the stream of a cancelled context
\* alone, but for its error frame and the end of its call (_cancel, close).
LEMMA CancelledStep ==
  ASSUME DistinctIds, SessionInv, [Next]_vars, NEW t \in Tasks, dropped[t]
  PROVE  /\ sent'[t] = sent[t] \/ sent'[t] = Append(sent[t], ErrorFrame)
         /\ call[t] # "waiting" => call'[t] # "waiting"
<1>0. call \in [Tasks -> CallStates] /\ sent \in [Tasks -> Seq(Frame)]
  BY DEF SessionInv, TypeOK, ServiceTypeOK
<1>1. CASE UNCHANGED <<sent, call>>
  BY <1>1
<1>2. ASSUME NEW s \in Sessions, Crash(s) \/ HangUp(s) \/ CloseJoined(s)
      PROVE  UNCHANGED <<sent, call>>
  BY <1>2, CloseMarks DEF SessionInv
<1>3. ASSUME NEW s \in Sessions,
             Connect(s) \/ Stall(s) \/ Disconnect(s) \/ BadFrame(s) \/ ReplyDone(s)
      PROVE  UNCHANGED <<sent, call>>
  BY <1>3
  DEF Connect, Stall, Disconnect, BadFrame, ReplyDone, serviceVars, taskVars, emitVars
<1>4. ASSUME NEW s \in Sessions, CloseTimeout(s)
      PROVE  sent' = sent /\ (call[t] # "waiting" => call'[t] # "waiting")
  BY <1>0, <1>4 DEF CloseTimeout, Abandon, Drop
<1>5. ASSUME NEW u \in Tasks, PushText(u) \/ FinalText(u) \/ FlushText(u)
      PROVE  UNCHANGED <<sent, call>>
  BY <1>5, TextShape
<1>6. ASSUME NEW u \in Tasks, CancelFrame(u)
      PROVE  UNCHANGED <<sent, call>>
  BY <1>6 DEF CancelFrame, emitVars
<1>7. ASSUME Emit(t)
      PROVE  /\ sent'[t] = sent[t] \/ sent'[t] = Append(sent[t], ErrorFrame)
             /\ call[t] # "waiting" => call'[t] # "waiting"
  BY <1>7, CancelledEmit
<1>8. ASSUME NEW u \in Tasks, u # t, Emit(u)
      PROVE  sent'[t] = sent[t] /\ call'[t] = call[t]
  BY <1>0, <1>8, EmitLocal
<1>9. ASSUME NEW u \in Tasks, PoolAnswers(u)
      PROVE  sent' = sent /\ (call[t] # "waiting" => call'[t] # "waiting")
  BY <1>0, <1>9 DEF PoolAnswers, Resolve, taskVars, emitVars
<1>. QED
  BY <1>1, <1>2, <1>3, <1>4, <1>5, <1>6, <1>7, <1>8, <1>9
  DEF Next, Emit, Over, vars, serviceVars, taskVars, emitVars

\* If no two contexts have the same id, a cancelled context ships no audio and no
\* done frame any more and submits no chunk.
THEOREM CancelHolds ==
  ASSUME DistinctIds
  PROVE  Spec => CancelIsFinal
<1>1. SessionInv /\ [Next]_vars =>
        [\A t \in Tasks : dropped[t] =>
           /\ sent'[t] = sent[t] \/ sent'[t] = Append(sent[t], ErrorFrame)
           /\ call[t] # "waiting" => call'[t] # "waiting"]_vars
  BY CancelledStep
<1>. QED
  BY <1>1, SessionSafe, PTL DEF Spec, CancelIsFinal
=============================================================================
