---------------------------- MODULE StreamProofs ----------------------------
(***************************************************************************)
(* What the client of a context hears: proofs that Session delivers the    *)
(* audio of the text completely and in order, ends every stream that was   *)
(* not cancelled with a last frame, and so implements ContextStream.       *)
(***************************************************************************)
EXTENDS SessionProofs, SessionStream

USE DEF EOF, Unended

\* The audio of the first n chunks, and the first i frames of chunk k.
Chunks(n) == UNION {{AudioFrame(k, i) : i \in 1..Frames[k]} : k \in 1..n}
Part(k, n) == {AudioFrame(k, i) : i \in 1..n}

\* The emit task has not come to the end of its stream.
Open == {"none", "get", "synth", "ship"}

\* The queue q of a context that was not cancelled, when c is its current chunk, m
\* chunks are made, and p of them when the text ended: the chunks after the current
\* one, in order and up to the end of the text, and then EOF.
InOrder(q, c, m, p) ==
  LET n == (IF p = Unended THEN m ELSE p) - c
  IN  /\ n >= 0
      /\ Len(q) >= n
      /\ \A i \in 1..n : q[i] = c + i
      /\ IF p = Unended THEN Len(q) = n ELSE Len(q) > n /\ q[n + 1] = EOF

\* The audio an open stream has brought to the client by now: all of the chunks
\* before the current one, and of that what _ship() has got to.
Played(t) ==
  IF pc[t] \in {"synth", "ship"}
    THEN Chunks(cur[t] - 1) \cup Part(cur[t], pos[t])
    ELSE Chunks(cur[t])

\* Nothing else is sent, and nothing is missing unless the connection is lost.
InStep(t) ==
  /\ FramesOf(t) \subseteq Played(t)
  /\ link[SessionOf[t]] # "down" => FramesOf(t) = Played(t)
  /\ pc[t] = "none" => cur[t] = 0
  /\ pc[t] \in {"synth", "ship"} => cur[t] >= 1 /\ pos[t] <= Frames[cur[t]]
  /\ pc[t] = "synth" => pos[t] = 0

\* A stream that was not cancelled and whose client is there ends with a frame.
Ended(t) ==
  link[SessionOf[t]] # "down" =>
    /\ pc[t] = "done" => DoneFrame \in FramesOf(t)
    /\ pc[t] = "error" => ErrorFrame \in FramesOf(t)
    /\ pc[t] = "finished" /\ ~dropped[t] =>
         DoneFrame \in FramesOf(t) \/ ErrorFrame \in FramesOf(t)

\* A done frame keeps its promise.
Kept(t) ==
  DoneFrame \in FramesOf(t) =>
    /\ promised[t] # Unended
    /\ FramesOf(t) \ {DoneFrame} = Chunks(promised[t])

\* What close() waits for has been cancelled; a connection with contexts was
\* accepted, so that it is not made again.
Closed ==
  /\ \A s \in Sessions : handler[s] = "close" => dropped[Head(contexts[s])]
  /\ \A t \in Tasks : pc[t] # "none" => handler[SessionOf[t]] # "idle"

StreamOf(t) ==
  /\ pc[t] \in Open => InStep(t)
  /\ pc[t] \in Open /\ ~dropped[t] => InOrder(queue[t], cur[t], made[t], promised[t])
  /\ Ended(t)
  /\ Kept(t)

StreamInv == SessionInv /\ Closed /\ \A t \in Tasks : StreamOf(t)
-----------------------------------------------------------------------------
(***************************************************************************)
(* Audio and queues.                                                       *)
(***************************************************************************)

\* The audio of n chunks is that of all but the last, and the last one's frames.
LEMMA ChunksSplit ==
  ASSUME NEW n \in 1..MaxChunks
  PROVE  Chunks(n) = Chunks(n - 1) \cup Part(n, Frames[n])
<1>1. MaxChunks \in Nat
  BY SessionAssumption
<1>2. \A k : k \in 1..n <=> k \in 1..(n - 1) \/ k = n
  BY <1>1
<1>. QED
  BY <1>2 DEF Chunks, Part

\* No last frame is among the audio, and of no chunk there is no audio.
LEMMA AudioOnly ==
  /\ \A n : DoneFrame \notin Chunks(n) /\ ErrorFrame \notin Chunks(n)
  /\ \A k, n : DoneFrame \notin Part(k, n) /\ ErrorFrame \notin Part(k, n)
  /\ \A k : Part(k, 0) = {}
  /\ Chunks(0) = {}
  /\ DoneFrame # ErrorFrame
<1>1. \A k, i : AudioFrame(k, i) # DoneFrame /\ AudioFrame(k, i) # ErrorFrame
  BY DEF AudioFrame, DoneFrame, ErrorFrame
<1>2. DoneFrame # ErrorFrame
  BY DEF DoneFrame, ErrorFrame
<1>3. Chunks(0) = {} /\ \A k : Part(k, 0) = {}
  <2>1. 1..0 = {}
    OBVIOUS
  <2>. QED
    BY <2>1 DEF Chunks, Part
<1>4. \A n : DoneFrame \notin Chunks(n) /\ ErrorFrame \notin Chunks(n)
  BY <1>1 DEF Chunks
<1>5. \A k, n : DoneFrame \notin Part(k, n) /\ ErrorFrame \notin Part(k, n)
  BY <1>1 DEF Part
<1>. QED
  BY <1>2, <1>3, <1>4, <1>5

\* One more frame of a chunk.
LEMMA PartGrows ==
  ASSUME NEW k, NEW n \in Nat
  PROVE  Part(k, n + 1) = Part(k, n) \cup {AudioFrame(k, n + 1)}
<1>1. \A i : i \in 1..(n + 1) <=> i \in 1..n \/ i = n + 1
  OBVIOUS
<1>. QED
  BY <1>1 DEF Part

\* The head of a queue in order is the next chunk, or EOF after the last one.
LEMMA HeadInOrder ==
  ASSUME NEW q \in Seq(0..MaxChunks), q # <<>>, NEW c \in 0..MaxChunks,
         NEW m \in 0..MaxChunks, NEW p \in -1..MaxChunks, InOrder(q, c, m, p)
  PROVE  /\ Head(q) = EOF => p # Unended /\ c = p
         /\ Head(q) # EOF => Head(q) = c + 1 /\ InOrder(Tail(q), c + 1, m, p)
<1>0. MaxChunks \in Nat
  BY SessionAssumption
<1>1. /\ Head(q) = q[1]
      /\ Len(q) \in Nat \ {0}
      /\ Tail(q) \in Seq(0..MaxChunks)
      /\ Len(Tail(q)) = Len(q) - 1
      /\ \A i \in 1..(Len(q) - 1) : Tail(q)[i] = q[i + 1]
  BY HeadTailProperties
<1> DEFINE n == (IF p = Unended THEN m ELSE p) - c
<1>2. /\ n \in Nat
      /\ Len(q) >= n
      /\ \A i \in 1..n : q[i] = c + i
      /\ IF p = Unended THEN Len(q) = n ELSE Len(q) > n /\ q[n + 1] = EOF
  BY <1>0 DEF InOrder
<1>3. CASE n = 0
  <2>1. p # Unended /\ Head(q) = EOF
    BY <1>1, <1>2, <1>3
  <2>. QED
    BY <1>0, <1>3, <2>1
<1>4. CASE n > 0
  <2>1. Head(q) = c + 1 /\ c + 1 # EOF
    BY <1>0, <1>1, <1>2, <1>4
  <2> DEFINE r == Tail(q)
  <2>2. \A i \in 1..(n - 1) : r[i] = c + 1 + i
    BY <1>0, <1>1, <1>2, <1>4
  <2>3. p # Unended => Len(r) > n - 1 /\ r[n] = EOF
    <3> HIDE DEF n
    <3>1. SUFFICES ASSUME p # Unended
                   PROVE  Len(r) > n - 1 /\ r[n] = EOF
      OBVIOUS
    <3>2. Len(q) > n /\ q[n + 1] = EOF /\ n \in 1..(Len(q) - 1) /\ Len(r) = Len(q) - 1
      <4>1. Len(q) > n /\ q[n + 1] = EOF
        BY <1>2, <3>1
      <4>2. n \in Nat \ {0} /\ Len(q) \in Nat
        <5>1. n \in Nat
          BY <1>2
        <5>2. Len(q) \in Nat
          BY <1>1
        <5>. QED
          BY <1>4, <5>1, <5>2
      <4>3. n \in 1..(Len(q) - 1)
        BY <4>1, <4>2
      <4>4. Len(r) = Len(q) - 1
        BY <1>1
      <4>. QED
        BY <4>1, <4>3, <4>4
    <3>3. r[n] = q[n + 1]
      BY <1>1, <3>2
    <3>4. n \in Nat
      BY <1>2
    <3>. QED
      BY <3>2, <3>3, <3>4
  <2>4. (IF p = Unended THEN m ELSE p) - (c + 1) = n - 1
    BY <1>0
  <2>5. Len(r) >= n - 1 /\ (p = Unended => Len(r) = n - 1) /\ (n - 1) + 1 = n
    BY <1>0, <1>1, <1>2, <1>4
  <2>6. InOrder(r, c + 1, m, p)
    <3> HIDE DEF n, r
    <3>1. n - 1 >= 0
      BY <1>2, <1>4
    <3>2. IF p = Unended THEN Len(r) = n - 1 ELSE Len(r) > n - 1 /\ r[(n - 1) + 1] = EOF
      BY <2>3, <2>5
    <3>. QED
      BY <2>2, <2>4, <2>5, <3>1, <3>2 DEF InOrder
  <2>. QED
    BY <2>1, <2>6
<1>. QED
  BY <1>2, <1>3, <1>4

\* Where the elements of a concatenation come from.
LEMMA ConcatParts ==
  ASSUME NEW S, NEW q \in Seq(S), NEW r \in Seq(S)
  PROVE  /\ q \o r \in Seq(S)
         /\ Len(q \o r) = Len(q) + Len(r)
         /\ Len(q) \in Nat /\ Len(r) \in Nat
         /\ \A i \in 1..Len(q) : (q \o r)[i] = q[i]
         /\ \A i \in 1..Len(r) : (q \o r)[Len(q) + i] = r[i]
<1>1. /\ q \o r \in Seq(S)
      /\ Len(q \o r) = Len(q) + Len(r)
      /\ \A i \in 1..(Len(q) + Len(r)) :
           (q \o r)[i] = IF i <= Len(q) THEN q[i] ELSE r[i - Len(q)]
  BY ConcatProperties
<1>2. Len(q) \in Nat /\ Len(r) \in Nat
  BY LenProperties
<1>3. \A i \in 1..Len(q) : (q \o r)[i] = q[i]
  BY <1>1, <1>2
<1>4. \A i \in 1..Len(r) : (q \o r)[Len(q) + i] = r[i]
  <2> SUFFICES ASSUME NEW i \in 1..Len(r)
               PROVE  (q \o r)[Len(q) + i] = r[i]
    OBVIOUS
  <2>1. Len(q) + i \in 1..(Len(q) + Len(r)) /\ ~(Len(q) + i <= Len(q)) /\ (Len(q) + i) - Len(q) = i
    BY <1>2
  <2>. QED
    BY <1>1, <2>1
<1>. QED
  BY <1>1, <1>2, <1>3, <1>4

\* Of a concatenation of three.
LEMMA ThreeParts ==
  ASSUME NEW S, NEW q \in Seq(S), NEW r \in Seq(S), NEW e \in Seq(S)
  PROVE  /\ q \o r \o e \in Seq(S)
         /\ Len(q \o r \o e) = Len(q) + Len(r) + Len(e)
         /\ Len(q) \in Nat /\ Len(r) \in Nat /\ Len(e) \in Nat
         /\ \A i \in 1..Len(q) : (q \o r \o e)[i] = q[i]
         /\ \A i \in 1..Len(r) : (q \o r \o e)[Len(q) + i] = r[i]
         /\ \A i \in 1..Len(e) : (q \o r \o e)[Len(q) + Len(r) + i] = e[i]
<1> DEFINE qr == q \o r
<1>1. /\ qr \in Seq(S)
      /\ Len(qr) = Len(q) + Len(r)
      /\ Len(q) \in Nat /\ Len(r) \in Nat
      /\ \A i \in 1..Len(q) : qr[i] = q[i]
      /\ \A i \in 1..Len(r) : qr[Len(q) + i] = r[i]
  BY ConcatParts
<1> HIDE DEF qr
<1> DEFINE qre == qr \o e
<1>2. /\ qre \in Seq(S)
      /\ Len(qre) = Len(qr) + Len(e)
      /\ Len(qr) \in Nat /\ Len(e) \in Nat
      /\ \A i \in 1..Len(qr) : qre[i] = qr[i]
      /\ \A i \in 1..Len(e) : qre[Len(qr) + i] = e[i]
  <2>1. qr \in Seq(S)
    BY <1>1
  <2>. QED
    BY <2>1, ConcatParts
<1> HIDE DEF qre
<1>3. \A i \in 1..Len(q) : qre[i] = q[i]
  BY <1>1, <1>2
<1>4. \A i \in 1..Len(r) : qre[Len(q) + i] = r[i]
  BY <1>1, <1>2
<1>. QED
  BY <1>1, <1>2, <1>3, <1>4 DEF qr, qre

\* A queue r that continues q with n more chunks stays in order, and so it does
\* if the text ends there.
LEMMA LongerInOrder ==
  ASSUME NEW q, NEW r, NEW c \in 0..MaxChunks, Len(q) \in Nat, Len(r) \in Nat,
         NEW m \in 0..MaxChunks, NEW p \in -1..MaxChunks, InOrder(q, c, m, p),
         NEW n \in Nat, m + n <= MaxChunks,
         \A i \in 1..Len(q) : r[i] = q[i],
         \A i \in 1..n : r[Len(q) + i] = m + i
  PROVE  /\ p # Unended /\ Len(r) >= Len(q) => InOrder(r, c, m + n, p)
         /\ Len(r) = Len(q) + n => InOrder(r, c, m + n, p)
         /\ p = Unended /\ Len(r) = Len(q) + n + 1 /\ r[Len(q) + n + 1] = EOF =>
              InOrder(r, c, m + n, m + n)
<1> DEFINE rest == (IF p = Unended THEN m ELSE p) - c
<1>0. MaxChunks \in Nat
  BY SessionAssumption
<1>1. /\ rest \in Nat
      /\ Len(q) >= rest
      /\ \A i \in 1..rest : q[i] = c + i
      /\ IF p = Unended THEN Len(q) = rest ELSE Len(q) > rest /\ q[rest + 1] = EOF
  BY <1>0 DEF InOrder
<1>2. /\ p = Unended => m - c = rest
      /\ p # Unended => p - c = rest
  BY <1>0
<1> HIDE DEF rest
<1>3. CASE p = Unended
  <2>1. \A i \in 1..(rest + n) : r[i] = c + i
    <3> SUFFICES ASSUME NEW i \in 1..(rest + n)
                 PROVE  r[i] = c + i
      OBVIOUS
    <3>1. CASE i \in 1..rest
      BY <1>1, <1>3, <3>1
    <3>2. CASE i \notin 1..rest
      <4>1. i - rest \in 1..n
        BY <1>1, <3>2
      <4>2. i = Len(q) + (i - rest) /\ m + (i - rest) = c + i
        BY <1>0, <1>1, <1>2, <1>3
      <4>3. r[Len(q) + (i - rest)] = m + (i - rest)
        BY <4>1
      <4>. QED
        BY <4>2, <4>3
    <3>. QED
      BY <3>1, <3>2
  <2>2. (m + n) - c = rest + n /\ rest + n \in Nat /\ m + n # Unended /\ Len(q) = rest
    BY <1>0, <1>1, <1>2, <1>3
  <2>3. Len(r) = Len(q) + n => InOrder(r, c, m + n, p)
    BY <1>1, <1>3, <2>1, <2>2 DEF InOrder
  <2>4. Len(r) = Len(q) + n + 1 /\ r[Len(q) + n + 1] = EOF => InOrder(r, c, m + n, m + n)
    BY <1>1, <2>1, <2>2 DEF InOrder
  <2>. QED
    BY <1>3, <2>3, <2>4
<1>4. CASE p # Unended
  <2>1. ASSUME Len(r) >= Len(q)
        PROVE  InOrder(r, c, m + n, p)
    <3>1. Len(r) > rest
      BY <1>1, <1>4, <2>1
    <3>2. \A i \in 1..rest : r[i] = c + i
      BY <1>1
    <3>3. r[rest + 1] = EOF
      <4>1. rest + 1 \in 1..Len(q)
        BY <1>1, <1>4
      <4>. QED
        BY <1>1, <1>4, <4>1
    <3>. QED
      BY <1>1, <1>2, <1>4, <3>1, <3>2, <3>3 DEF InOrder
  <2>2. Len(r) = Len(q) + n => Len(r) >= Len(q)
    OBVIOUS
  <2>. QED
    BY <1>4, <2>1, <2>2
<1>. QED
  BY <1>3, <1>4
-----------------------------------------------------------------------------
(***************************************************************************)
(* The steps.                                                              *)
(***************************************************************************)

\* A text frame keeps the queue of its context in order.
LEMMA TextInOrder ==
  ASSUME TypeOK, NEW t \in Tasks, PushText(t) \/ FinalText(t) \/ FlushText(t),
         InOrder(queue[t], cur[t], made[t], promised[t])
  PROVE  InOrder(queue'[t], cur[t], made'[t], promised'[t])
<1> DEFINE S == 0..MaxChunks
           Continued(n, e) == queue[t] \o [i \in 1..n |-> made[t] + i] \o e
<1>0. /\ MaxChunks \in Nat
      /\ queue[t] \in Seq(S)
      /\ cur[t] \in S /\ made[t] \in S /\ promised[t] \in -1..MaxChunks
  BY SessionAssumption DEF TypeOK
<1>1. <<>> \in Seq(S) /\ Len(<<>>) = 0 /\ <<EOF>> \in Seq(S) /\ Len(<<EOF>>) = 1 /\ <<EOF>>[1] = EOF
  BY <1>0
<1>2. ASSUME NEW n \in Nat, n <= MaxChunks - made[t]
      PROVE  /\ InOrder(Continued(n, <<>>), cur[t], made[t] + n, promised[t])
             /\ promised[t] # Unended =>
                  InOrder(Continued(n, <<EOF>>), cur[t], made[t] + n, promised[t])
             /\ promised[t] = Unended =>
                  InOrder(Continued(n, <<EOF>>), cur[t], made[t] + n, made[t] + n)
  <2> DEFINE new == [i \in 1..n |-> made[t] + i]
  <2>1. new \in Seq(S) /\ Len(new) = n /\ \A i \in 1..n : new[i] = made[t] + i
    <3>1. new \in [1..n -> S]
      BY <1>0, <1>2
    <3>2. new \in Seq(S)
      BY <1>2, <3>1, SeqDef
    <3>3. Len(new) = n
      BY <1>2, <3>1, <3>2, LenProperties
    <3>. QED
      BY <3>2, <3>3
  <2>2. made[t] + n <= MaxChunks
    BY <1>0, <1>2
  <2> HIDE DEF new, S
  <2>3. ASSUME NEW e \in Seq(S)
        PROVE  /\ Len(queue[t] \o new \o e) = Len(queue[t]) + n + Len(e)
               /\ Len(queue[t]) \in Nat /\ Len(e) \in Nat
               /\ \A i \in 1..Len(queue[t]) : (queue[t] \o new \o e)[i] = queue[t][i]
               /\ \A i \in 1..n : (queue[t] \o new \o e)[Len(queue[t]) + i] = made[t] + i
               /\ \A i \in 1..Len(e) : (queue[t] \o new \o e)[Len(queue[t]) + n + i] = e[i]
    <3>0. queue[t] \in Seq(S) /\ new \in Seq(S) /\ e \in Seq(S)
      BY <1>0, <2>1, <2>3
    <3>1. /\ queue[t] \o new \o e \in Seq(S)
          /\ Len(queue[t] \o new \o e) = Len(queue[t]) + Len(new) + Len(e)
          /\ Len(queue[t]) \in Nat /\ Len(e) \in Nat
          /\ \A i \in 1..Len(queue[t]) : (queue[t] \o new \o e)[i] = queue[t][i]
          /\ \A i \in 1..Len(new) : (queue[t] \o new \o e)[Len(queue[t]) + i] = new[i]
          /\ \A i \in 1..Len(e) : (queue[t] \o new \o e)[Len(queue[t]) + Len(new) + i] = e[i]
      BY <3>0, ThreeParts, SMTT(20)
    <3>2. Len(new) = n
      BY <2>1
    <3>3. \A i \in 1..n : (queue[t] \o new \o e)[Len(queue[t]) + i] = made[t] + i
      BY <2>1, <3>1, <3>2, Zenon
    <3>. QED
      BY <3>1, <3>2, <3>3, Zenon
  <2> DEFINE r == queue[t] \o new \o <<>>
             re == queue[t] \o new \o <<EOF>>
  <2>4. /\ Len(r) = Len(queue[t]) + n
        /\ Len(queue[t]) \in Nat
        /\ \A i \in 1..Len(queue[t]) : r[i] = queue[t][i]
        /\ \A i \in 1..n : r[Len(queue[t]) + i] = made[t] + i
    <3>1. /\ Len(r) = Len(queue[t]) + n + Len(<<>>)
          /\ Len(queue[t]) \in Nat
          /\ \A i \in 1..Len(queue[t]) : r[i] = queue[t][i]
          /\ \A i \in 1..n : r[Len(queue[t]) + i] = made[t] + i
      BY <1>1, <2>3
    <3> HIDE DEF r
    <3>. QED
      BY <1>1, <3>1
  <2>5. /\ Len(re) = Len(queue[t]) + n + 1
        /\ \A i \in 1..Len(queue[t]) : re[i] = queue[t][i]
        /\ \A i \in 1..n : re[Len(queue[t]) + i] = made[t] + i
        /\ re[Len(queue[t]) + n + 1] = EOF
    <3>1. /\ Len(re) = Len(queue[t]) + n + Len(<<EOF>>)
          /\ \A i \in 1..Len(queue[t]) : re[i] = queue[t][i]
          /\ \A i \in 1..n : re[Len(queue[t]) + i] = made[t] + i
          /\ \A i \in 1..Len(<<EOF>>) : re[Len(queue[t]) + n + i] = <<EOF>>[i]
      BY <1>1, <2>3
    <3> HIDE DEF re
    <3>. QED
      BY <1>1, <3>1
  <2> HIDE DEF r, re
  <2>6. Len(r) \in Nat /\ Len(re) \in Nat /\ Len(re) >= Len(queue[t])
    BY <2>4, <2>5
  <2>7. InOrder(r, cur[t], made[t] + n, promised[t])
    BY <1>0, <2>2, <2>4, <2>6, LongerInOrder DEF S
  <2>8. /\ promised[t] # Unended => InOrder(re, cur[t], made[t] + n, promised[t])
        /\ promised[t] = Unended => InOrder(re, cur[t], made[t] + n, made[t] + n)
    BY <1>0, <2>2, <2>4, <2>5, <2>6, LongerInOrder DEF S
  <2>. QED
    BY <2>7, <2>8 DEF r, re, new
<1> DEFINE Puts(n, e) ==
      queue'[t] = Continued(n, e) /\ made'[t] = made[t] + n
<1>3. \A n, e : Put(t, n, e) => Puts(n, e)
  BY DEF Put, TypeOK
<1> HIDE DEF Continued
<1>4. CASE PushText(t)
  <2>1. PICK n \in 0..(MaxChunks - made[t]) : Put(t, n, <<>>)
    BY <1>4 DEF PushText
  <2>2. n \in Nat /\ n <= MaxChunks - made[t]
    BY <1>0
  <2>. QED
    BY <1>2, <1>3, <1>4, <2>1, <2>2 DEF PushText
<1>5. CASE FinalText(t) \/ FlushText(t)
  <2>1. End(t)
    BY <1>5 DEF FinalText, FlushText
  <2>2. promised'[t] = IF promised[t] = Unended THEN made'[t] ELSE promised[t]
    BY <2>1 DEF End, TypeOK
  <2>3. PICK n \in 0..(MaxChunks - made[t]) : Put(t, n, <<EOF>>)
    BY <1>5 DEF FinalText, FlushText, FlushTail
  <2>4. n \in Nat /\ n <= MaxChunks - made[t]
    BY <1>0
  <2>. QED
    BY <1>2, <1>3, <2>2, <2>3, <2>4
<1>. QED
  BY <1>4, <1>5

\* What a frame that is sent adds to what the client has got.
LEMMA SendShape ==
  ASSUME sent \in [Tasks -> Seq(Frame)], NEW t \in Tasks, NEW f \in Frame, Send(t, f)
  PROVE  /\ \A u \in Tasks \ {t} : FramesOf(u)' = FramesOf(u)
         /\ link[SessionOf[t]] = "down" => FramesOf(t)' = FramesOf(t)
         /\ link[SessionOf[t]] # "down" => FramesOf(t)' = FramesOf(t) \cup {f}
<1>1. CASE link[SessionOf[t]] = "down"
  BY <1>1 DEF Send, FramesOf
<1>2. CASE link[SessionOf[t]] # "down"
  <2>1. sent' = [sent EXCEPT ![t] = Append(sent[t], f)]
    BY <1>2 DEF Send
  <2>2. sent[t] \in Seq(Frame) /\ sent'[t] = Append(sent[t], f)
    BY <2>1
  <2>3. /\ DOMAIN sent'[t] = 1..(Len(sent[t]) + 1)
        /\ DOMAIN sent[t] = 1..Len(sent[t]) /\ Len(sent[t]) \in Nat
        /\ \A i \in 1..Len(sent[t]) : sent'[t][i] = sent[t][i]
        /\ sent'[t][Len(sent[t]) + 1] = f
    BY <2>2, AppendProperties, LenProperties
  <2>4. FramesOf(t)' = FramesOf(t) \cup {f}
    <3>1. \A i : i \in 1..(Len(sent[t]) + 1) <=> i \in 1..Len(sent[t]) \/ i = Len(sent[t]) + 1
      BY <2>3
    <3>. QED
      BY <2>3, <3>1 DEF FramesOf
  <2>5. \A u \in Tasks \ {t} : sent'[u] = sent[u]
    BY <2>1
  <2>6. \A u \in Tasks \ {t} : FramesOf(u)' = FramesOf(u)
    BY <2>5 DEF FramesOf
  <2>. QED
    BY <1>2, <2>4, <2>6
<1>. QED
  BY <1>1, <1>2

\* A step that touches nothing of a context, but for cancelling it or losing its
\* connection, keeps its stream.
LEMMA StreamUntouched ==
  ASSUME NEW u \in Tasks, StreamOf(u), pc'[u] = pc[u], cur'[u] = cur[u],
         pos'[u] = pos[u], FramesOf(u)' = FramesOf(u), promised'[u] = promised[u],
         made'[u] = made[u], dropped[u] => dropped'[u],
         ~dropped'[u] => queue'[u] = queue[u],
         link'[SessionOf[u]] # "down" => link[SessionOf[u]] # "down"
  PROVE  StreamOf(u)'
<1>1. Played(u)' = Played(u)
  BY DEF Played, Chunks, Part
<1>2. pc[u] \in Open => InStep(u)'
  BY <1>1 DEF InStep, StreamOf
<1>3. pc[u] \in Open /\ ~dropped'[u] => InOrder(queue'[u], cur'[u], made'[u], promised'[u])
  BY DEF StreamOf
<1>4. Ended(u)'
  BY DEF StreamOf, Ended
<1>5. Kept(u)'
  BY DEF StreamOf, Kept, Chunks
<1>. QED
  BY <1>2, <1>3, <1>4, <1>5 DEF StreamOf, Open
\* An open stream has had no last frame yet.
LEMMA OpenUnfinished ==
  ASSUME NEW t \in Tasks, StreamOf(t), pc[t] \in Open
  PROVE  DoneFrame \notin FramesOf(t) /\ ErrorFrame \notin FramesOf(t)
<1>1. FramesOf(t) \subseteq Played(t)
  BY DEF StreamOf, InStep
<1>. QED
  BY <1>1, AudioOnly DEF Played

\* Whether a context is flagged, when ids are distinct.
LEMMA FlagIsDropped ==
  ASSUME SessionInv, NEW t \in Tasks, pc[t] \in Live
  PROVE  IsCancelled(t) <=> dropped[t]
BY DEF SessionInv, Flags, FlagHeld, FlagOwned

\* The loop of the emit task, once the current chunk is played or its context is
\* cancelled: the next chunk, the end of the stream, or a refusal of the pool.
LEMMA LoopStream ==
  ASSUME StreamInv, NEW t \in Tasks, pc[t] \in {"get", "synth", "ship"}, Loop(t),
         dropped[t] \/ Played(t) = Chunks(cur[t]),
         UNCHANGED <<sessionVars, clientVars, dropped>>
  PROVE  StreamOf(t)'
<1>0. /\ TypeOK /\ StreamOf(t) /\ pc[t] \in Open /\ pc[t] \in Live
      /\ pc \in [Tasks -> {"none", "finished"} \cup Live]
      /\ queue \in [Tasks -> Seq(0..MaxChunks)] /\ cur \in [Tasks -> 0..MaxChunks]
      /\ pos \in [Tasks -> Nat] /\ sent \in [Tasks -> Seq(Frame)]
      /\ made[t] \in 0..MaxChunks /\ promised[t] \in -1..MaxChunks
      /\ UNCHANGED <<link, made, promised, dropped>>
      /\ MaxChunks \in Nat /\ Frames \in [1..MaxChunks -> Nat]
      /\ IsCancelled(t) <=> dropped[t]
  BY FlagIsDropped, SessionAssumption
  DEF StreamInv, SessionInv, TypeOK, Open, Live, Sending, sessionVars, clientVars
<1>1. DoneFrame \notin FramesOf(t) /\ ErrorFrame \notin FramesOf(t)
  BY <1>0, OpenUnfinished
<1>2. CASE dropped[t]
  <2>1. LoopQuits(t)
    BY <1>2, CancelledLoop DEF StreamInv
  <2>2. pc'[t] = "finished" /\ UNCHANGED sent
    BY <1>0, <2>1 DEF LoopQuits, Finish, GoTo
  <2>3. FramesOf(t)' = FramesOf(t)
    BY <2>2 DEF FramesOf
  <2>. QED
    BY <1>0, <1>1, <1>2, <2>2, <2>3 DEF StreamOf, Ended, Kept, Open
<1>3. CASE ~dropped[t]
  <2>1. /\ InOrder(queue[t], cur[t], made[t], promised[t])
        /\ FramesOf(t) \subseteq Chunks(cur[t])
        /\ link[SessionOf[t]] # "down" => FramesOf(t) = Chunks(cur[t])
    BY <1>0, <1>3 DEF StreamOf, InStep
  <2>0. /\ queue[t] \in Seq(0..MaxChunks) /\ cur[t] \in 0..MaxChunks
        /\ made[t] \in 0..MaxChunks /\ promised[t] \in -1..MaxChunks
        /\ sent \in [Tasks -> Seq(Frame)] /\ UNCHANGED link
    BY <1>0
  <2>2. CASE LoopParks(t)
    <3>1. /\ pc'[t] = "get" /\ queue'[t] = queue[t] /\ cur'[t] = cur[t]
          /\ UNCHANGED sent
      BY <1>0, <1>3, <2>2 DEF LoopParks, GoTo
    <3>2. FramesOf(t)' = FramesOf(t) /\ Played(t)' = Chunks(cur[t])
      BY <3>1 DEF FramesOf, Played, Chunks
    <3>3. InStep(t)'
      BY <1>0, <2>1, <3>1, <3>2 DEF InStep
    <3>. QED
      BY <1>0, <1>1, <2>1, <3>1, <3>2, <3>3 DEF StreamOf, Ended, Kept
  <2>3. CASE LoopEnds(t)
    <3>1. pc'[t] = "done" /\ Send(t, DoneFrame) /\ queue[t] # <<>> /\ Head(queue[t]) = EOF
      BY <1>0, <2>3 DEF LoopEnds, GoTo
    <3>2. promised[t] # Unended /\ cur[t] = promised[t]
      BY <2>0, <2>1, <3>1, HeadInOrder
    <3>3. /\ link[SessionOf[t]] = "down" => FramesOf(t)' = FramesOf(t)
          /\ link[SessionOf[t]] # "down" => FramesOf(t)' = FramesOf(t) \cup {DoneFrame}
      BY <1>0, <3>1, SendShape, FramesTyped
    <3>4. Kept(t)'
      BY <1>0, <1>1, <2>1, <3>2, <3>3 DEF Kept, Chunks
    <3>. QED
      BY <1>0, <3>1, <3>3, <3>4 DEF StreamOf, Ended, Open
  <2>4. CASE LoopSynthesizes(t)
    <3>1. /\ pc'[t] = "synth" /\ queue[t] # <<>> /\ Head(queue[t]) # EOF
          /\ queue'[t] = Tail(queue[t]) /\ cur'[t] = Head(queue[t]) /\ pos'[t] = 0
          /\ UNCHANGED sent
      BY <1>0, <2>4 DEF LoopSynthesizes, GoTo
    <3>2. cur'[t] = cur[t] + 1 /\ InOrder(queue'[t], cur'[t], made[t], promised[t])
      BY <2>0, <2>1, <3>1, HeadInOrder
    <3>3. cur[t] + 1 \in 1..MaxChunks /\ cur'[t] - 1 = cur[t] /\ cur'[t] \in 1..MaxChunks
      <4>1. Head(queue[t]) \in 0..MaxChunks
        BY <1>0, <3>1, HeadTailProperties
      <4>2. cur[t] \in 0..MaxChunks
        BY <1>0
      <4>3. cur[t] + 1 \in 0..MaxChunks /\ cur'[t] = cur[t] + 1
        BY <3>1, <3>2, <4>1
      <4>4. MaxChunks \in Nat
        BY <1>0
      <4>. QED
        BY <4>2, <4>3, <4>4
    <3>4. FramesOf(t)' = FramesOf(t) /\ Part(cur'[t], 0) = {}
      BY <3>1, AudioOnly DEF FramesOf
    <3>5. Played(t)' = Chunks(cur[t])
      <4>1. Played(t)' = Chunks(cur'[t] - 1) \cup Part(cur'[t], pos'[t])
        BY <3>1 DEF Played, Chunks, Part
      <4>. QED
        BY <3>1, <3>3, <3>4, <4>1
    <3>6. InStep(t)'
      <4>1. /\ FramesOf(t)' \subseteq Played(t)'
            /\ link'[SessionOf[t]] # "down" => FramesOf(t)' = Played(t)'
        BY <1>0, <2>1, <3>4, <3>5
      <4>2. cur'[t] >= 1 /\ pos'[t] = 0 /\ pos'[t] <= Frames[cur'[t]]
        BY <1>0, <3>1, <3>3
      <4>. QED
        BY <3>1, <4>1, <4>2 DEF InStep
    <3>. QED
      BY <1>0, <1>1, <3>1, <3>2, <3>4, <3>6 DEF StreamOf, Ended, Kept
  <2>5. CASE LoopRefused(t)
    <3>1. pc'[t] = "error" /\ Send(t, ErrorFrame)
      BY <1>0, <2>5 DEF LoopRefused, Fail, GoTo
    <3>2. /\ link[SessionOf[t]] = "down" => FramesOf(t)' = FramesOf(t)
          /\ link[SessionOf[t]] # "down" => FramesOf(t)' = FramesOf(t) \cup {ErrorFrame}
      BY <1>0, <3>1, SendShape, FramesTyped
    <3>3. DoneFrame \notin FramesOf(t)'
      BY <1>1, <3>2, AudioOnly
    <3>. QED
      BY <1>0, <3>1, <3>2, <3>3 DEF StreamOf, Ended, Kept, Open
  <2>6. ~LoopQuits(t)
    BY <1>0, <1>3 DEF LoopQuits
  <2>. QED
    BY <2>2, <2>3, <2>4, <2>5, <2>6 DEF Loop
<1>. QED
  BY <1>2, <1>3

\* _ship() sends the next frame of the current chunk.
LEMMA ShipStream ==
  ASSUME StreamInv, NEW t \in Tasks, pc[t] \in {"synth", "ship"}, NEW i,
         i = pos[t] + 1, i <= Frames[cur[t]], ShipFrame(t, cur[t], i),
         UNCHANGED <<sessionVars, clientVars, dropped>>
  PROVE  StreamOf(t)'
<1>0. /\ TypeOK /\ StreamOf(t) /\ pc[t] \in Open
      /\ pc \in [Tasks -> {"none", "finished"} \cup Live]
      /\ cur \in [Tasks -> 0..MaxChunks] /\ pos \in [Tasks -> Nat]
      /\ sent \in [Tasks -> Seq(Frame)]
      /\ UNCHANGED <<link, made, promised, dropped, queue, cur>>
      /\ MaxChunks \in Nat
  BY SessionAssumption
  DEF StreamInv, SessionInv, TypeOK, Open, sessionVars, clientVars, ShipFrame
<1>1. DoneFrame \notin FramesOf(t) /\ ErrorFrame \notin FramesOf(t)
  BY <1>0, OpenUnfinished
<1>2. pc'[t] = "ship" /\ pos'[t] = i /\ Send(t, AudioFrame(cur[t], i))
  BY <1>0 DEF ShipFrame, GoTo
<1>3. cur[t] \in Nat /\ i \in Nat
  BY <1>0
<1>4. /\ link[SessionOf[t]] = "down" => FramesOf(t)' = FramesOf(t)
      /\ link[SessionOf[t]] # "down" => FramesOf(t)' = FramesOf(t) \cup {AudioFrame(cur[t], i)}
  BY <1>0, <1>2, <1>3, SendShape, FramesTyped
<1>5. Played(t)' = Played(t) \cup {AudioFrame(cur[t], i)}
  <2>1. Part(cur[t], i) = Part(cur[t], pos[t]) \cup {AudioFrame(cur[t], i)}
    BY <1>0, PartGrows
  <2>2. Played(t)' = Chunks(cur[t] - 1) \cup Part(cur[t], i)
    BY <1>0, <1>2 DEF Played, Chunks, Part
  <2>3. Played(t) = Chunks(cur[t] - 1) \cup Part(cur[t], pos[t])
    BY DEF Played
  <2>. QED
    BY <2>1, <2>2, <2>3
<1>6. InStep(t)'
  BY <1>0, <1>2, <1>4, <1>5 DEF InStep, StreamOf, Open
<1>7. DoneFrame \notin FramesOf(t)'
  BY <1>1, <1>4 DEF AudioFrame, DoneFrame
<1>. QED
  BY <1>0, <1>2, <1>6, <1>7 DEF StreamOf, Ended, Kept

\* A failure ends the stream with an error frame.
LEMMA FailStream ==
  ASSUME StreamInv, NEW t \in Tasks, pc[t] = "synth", Fail(t),
         UNCHANGED <<sessionVars, clientVars, dropped>>
  PROVE  StreamOf(t)'
<1>0. /\ TypeOK /\ StreamOf(t) /\ pc[t] \in Open
      /\ pc \in [Tasks -> {"none", "finished"} \cup Live]
      /\ sent \in [Tasks -> Seq(Frame)]
      /\ UNCHANGED link
  BY DEF StreamInv, SessionInv, TypeOK, Open, sessionVars
<1>1. DoneFrame \notin FramesOf(t)
  BY <1>0, OpenUnfinished
<1>2. pc'[t] = "error" /\ Send(t, ErrorFrame)
  BY <1>0 DEF Fail, GoTo
<1>3. /\ link[SessionOf[t]] = "down" => FramesOf(t)' = FramesOf(t)
      /\ link[SessionOf[t]] # "down" => FramesOf(t)' = FramesOf(t) \cup {ErrorFrame}
  BY <1>0, <1>2, SendShape, FramesTyped
<1>4. DoneFrame \notin FramesOf(t)'
  BY <1>1, <1>3, AudioOnly
<1>. QED
  BY <1>0, <1>2, <1>3, <1>4 DEF StreamOf, Ended, Kept, Open

\* The emit task finishes after its last frame, or when the connection is lost.
LEMMA FinishStream ==
  ASSUME StreamInv, NEW t \in Tasks, EmitLast(t) \/ EmitSendRaises(t)
  PROVE  StreamOf(t)'
<1>1. /\ pc'[t] = "finished"
      /\ UNCHANGED <<sessionVars, clientVars, sent, dropped>>
  BY DEF EmitLast, EmitSendRaises, Finish, GoTo, StreamInv, SessionInv, TypeOK
<1>2. FramesOf(t)' = FramesOf(t) /\ UNCHANGED <<link, promised, dropped>>
  BY <1>1 DEF FramesOf, sessionVars, clientVars
<1>3. link[SessionOf[t]] # "down" => pc[t] \in {"done", "error"}
  BY DEF EmitLast, EmitSendRaises
<1>4. Ended(t)'
  BY <1>1, <1>2, <1>3 DEF StreamInv, StreamOf, Ended
<1>5. Kept(t)'
  BY <1>2 DEF StreamInv, StreamOf, Kept, Chunks
<1>. QED
  BY <1>1, <1>4, <1>5 DEF StreamOf, Open

\* The chunk an emit task plays, and how far it has got.
LEMMA CurrentChunk ==
  ASSUME TypeOK, NEW t \in Tasks, StreamOf(t), pc[t] \in {"synth", "ship"}
  PROVE  /\ cur[t] \in 1..MaxChunks /\ MaxChunks \in Nat /\ pos[t] \in Nat
         /\ Frames[cur[t]] \in Nat /\ pos[t] <= Frames[cur[t]]
<1>1. cur[t] \in 0..MaxChunks /\ pos[t] \in Nat
  BY DEF TypeOK
<1>2. cur[t] >= 1 /\ pos[t] <= Frames[cur[t]]
  BY DEF StreamOf, InStep, Open
<1>. QED
  BY <1>1, <1>2, SessionAssumption

\* Once the last frame of a chunk is sent, the chunk is played.
LEMMA FullyPlayed ==
  ASSUME TypeOK, NEW t \in Tasks, StreamOf(t), pc[t] \in {"synth", "ship"},
         pos[t] = Frames[cur[t]]
  PROVE  Played(t) = Chunks(cur[t])
<1>1. Chunks(cur[t]) = Chunks(cur[t] - 1) \cup Part(cur[t], Frames[cur[t]])
  BY CurrentChunk, ChunksSplit
<1>. QED
  BY <1>1 DEF Played

\* A step of an emit task keeps its own stream, and touches no other.
LEMMA EmitStream ==
  ASSUME StreamInv, NEW t \in Tasks, Emit(t), NEW u \in Tasks
  PROVE  StreamOf(u)'
<1>0. /\ TypeOK /\ UNCHANGED <<sessionVars, clientVars, dropped>>
      /\ StreamOf(t) /\ StreamOf(u) /\ pc[t] \in Live
      /\ IsCancelled(t) <=> dropped[t]
  BY EmitShape, FlagIsDropped DEF StreamInv, SessionInv
<1>1. CASE u # t
  <2>1. sent'[u] = sent[u]
    BY <1>0, <1>1, EmitLocal DEF TypeOK, ServiceTypeOK
  <2>2. pc'[u] = pc[u] /\ cur'[u] = cur[u] /\ pos'[u] = pos[u] /\ queue'[u] = queue[u]
    <3>1. CASE Loop(t)
      BY <1>0, <1>1, <3>1
      DEF Loop, LoopParks, LoopQuits, LoopSynthesizes, LoopRefused, LoopEnds, Finish, Fail,
          GoTo, TypeOK
    <3>2. CASE Fail(t) /\ UNCHANGED <<queue, cur, pos>>
      BY <1>0, <1>1, <3>2 DEF Fail, GoTo, TypeOK
    <3>3. CASE \E k, i : ShipFrame(t, k, i)
      BY <1>0, <1>1, <3>3 DEF ShipFrame, GoTo, TypeOK
    <3>4. CASE Finish(t) /\ UNCHANGED <<queue, cur, pos>>
      BY <1>0, <1>1, <3>4 DEF Finish, GoTo, TypeOK
    <3>. QED
      BY <3>1, <3>2, <3>3, <3>4
      DEF Emit, EmitGet, EmitResult, EmitRaises, EmitShip, EmitLast, EmitSendRaises
  <2>3. FramesOf(u)' = FramesOf(u)
    BY <2>1 DEF FramesOf
  <2>. QED
    BY <1>0, <2>2, <2>3, StreamUntouched DEF sessionVars, clientVars
<1>2. CASE u = t
  <2>0. /\ pc[t] \in {"synth", "ship"} =>
             /\ pos[t] \in Nat /\ Frames[cur[t]] \in Nat /\ pos[t] <= Frames[cur[t]]
        /\ pc[t] = "synth" => pos[t] = 0
    BY <1>0, CurrentChunk DEF StreamOf, InStep, Open
  <2>1. pc[t] \in {"synth", "ship"} /\ pos[t] = Frames[cur[t]] => Played(t) = Chunks(cur[t])
    BY <1>0, FullyPlayed
  <2>2. CASE EmitGet(t)
    <3>1. pc[t] = "get" /\ Loop(t) /\ Played(t) = Chunks(cur[t])
      BY <2>2 DEF EmitGet, Played
    <3>. QED
      BY <1>0, <1>2, <3>1, LoopStream
  <2>3. CASE EmitResult(t)
    <3>1. pc[t] = "synth" /\ pos[t] = 0
      BY <2>0, <2>3 DEF EmitResult
    <3>2. CASE IsCancelled(t) /\ Loop(t)
      BY <1>0, <1>2, <3>1, <3>2, LoopStream
    <3>3. CASE Frames[cur[t]] = 0 /\ Loop(t)
      BY <1>0, <1>2, <2>1, <3>1, <3>3, LoopStream
    <3>4. CASE Frames[cur[t]] > 0 /\ ShipFrame(t, cur[t], 1)
      <4>1. 1 = pos[t] + 1 /\ 1 <= Frames[cur[t]]
        BY <2>0, <3>1, <3>4
      <4>. QED
        BY <1>0, <1>2, <3>1, <3>4, <4>1, ShipStream
    <3>. QED
      BY <2>3, <3>2, <3>3, <3>4 DEF EmitResult
  <2>4. CASE EmitRaises(t)
    BY <1>0, <1>2, <2>4, FailStream DEF EmitRaises
  <2>5. CASE EmitShip(t)
    <3>1. pc[t] = "ship"
      BY <2>5 DEF EmitShip
    <3>2. CASE ShipOver(t) /\ Loop(t)
      BY <1>0, <1>2, <2>1, <3>1, <3>2, LoopStream DEF ShipOver
    <3>3. CASE ~ShipOver(t) /\ ShipFrame(t, cur[t], pos[t] + 1)
      <4>1. pos[t] + 1 <= Frames[cur[t]]
        BY <2>0, <3>1, <3>3 DEF ShipOver
      <4>. QED
        BY <1>0, <1>2, <3>1, <3>3, <4>1, ShipStream
    <3>. QED
      BY <2>5, <3>2, <3>3 DEF EmitShip
  <2>6. CASE EmitLast(t) \/ EmitSendRaises(t)
    BY <1>2, <2>6, FinishStream
  <2>. QED
    BY <2>2, <2>3, <2>4, <2>5, <2>6 DEF Emit
<1>. QED
  BY <1>1, <1>2

\* A text frame keeps the stream of its context, and touches no other.
LEMMA TextStream ==
  ASSUME StreamInv, NEW t \in Tasks, PushText(t) \/ FinalText(t) \/ FlushText(t),
         NEW u \in Tasks
  PROVE  StreamOf(u)'
<1>0. /\ TypeOK /\ StreamOf(t) /\ StreamOf(u)
      /\ UNCHANGED <<link, cur, pos, sent, dropped>>
      /\ pc \in [Tasks -> {"none", "finished"} \cup Live]
  BY DEF StreamInv, SessionInv, TypeOK, PushText, FinalText, FlushText, OnText
<1>1. \/ UNCHANGED pc
      \/ pc[t] = "none" /\ pc' = [pc EXCEPT ![t] = "get"]
  BY TextShape
<1>2. FramesOf(u)' = FramesOf(u)
  BY <1>0 DEF FramesOf
<1>3. CASE u # t
  <2>1. queue'[u] = queue[u] /\ made'[u] = made[u] /\ promised'[u] = promised[u]
    <3>1. \E n, e : Put(t, n, e)
      BY DEF PushText, FinalText, FlushText
    <3>2. UNCHANGED promised \/ End(t)
      BY DEF PushText, FinalText, FlushText
    <3>. QED
      BY <1>0, <1>3, <3>1, <3>2 DEF Put, End, TypeOK
  <2>2. pc'[u] = pc[u]
    BY <1>0, <1>1, <1>3
  <2>. QED
    BY <1>0, <1>2, <2>1, <2>2, StreamUntouched
<1>4. CASE u = t
  <2>1. /\ pc'[t] \in Open => pc[t] \in Open
        /\ pc'[t] # pc[t] => pc[t] = "none" /\ pc'[t] = "get"
    BY <1>0, <1>1 DEF Open
  <2>2. Played(t)' = Played(t)
    BY <1>0, <2>1 DEF Played, Chunks, Part
  <2>3. pc'[t] \in Open => InStep(t)'
    BY <1>0, <1>2, <1>4, <2>1, <2>2 DEF InStep, StreamOf
  <2>4. pc'[t] \in Open /\ ~dropped'[t]
          => InOrder(queue'[t], cur'[t], made'[t], promised'[t])
    BY <1>0, <2>1, TextInOrder DEF StreamOf
  <2>5. Ended(t)'
    BY <1>0, <1>2, <1>4, <2>1 DEF Ended, StreamOf
  <2>6. Kept(t)'
    <3>1. promised[t] # Unended => promised'[t] = promised[t]
      BY <1>0 DEF PushText, FinalText, FlushText, End, TypeOK
    <3>. QED
      BY <1>0, <1>2, <1>4, <3>1 DEF Kept, StreamOf, Chunks
  <2>. QED
    BY <1>4, <2>3, <2>4, <2>5, <2>6 DEF StreamOf
<1>. QED
  BY <1>3, <1>4
\* What close() waits for next has been cancelled.
LEMMA ClosedStep == SessionInv /\ Closed /\ [Next]_vars => Closed'
<1> SUFFICES ASSUME SessionInv, Closed, [Next]_vars
             PROVE  Closed'
  OBVIOUS
<1>0. /\ TypeOK /\ Closing
      /\ pc \in [Tasks -> {"none", "finished"} \cup Live]
      /\ \A s \in Sessions : handler[s] = "close" => Head(contexts[s]) \in Tasks
      /\ \A t \in Tasks : SessionOf[t] \in Sessions
  <2>1. \A s \in Sessions : handler[s] = "close" => Head(contexts[s]) \in Tasks
    <3> SUFFICES ASSUME NEW s \in Sessions, handler[s] = "close"
                 PROVE  Head(contexts[s]) \in Tasks
      OBVIOUS
    <3>1. contexts[s] \in Seq(Tasks) /\ contexts[s] # <<>>
      BY DEF SessionInv, TypeOK, Closing
    <3>. QED
      BY <3>1, HeadTailProperties
  <2>. QED
    BY <2>1, SessionAssumption DEF SessionInv, TypeOK
<1>1. ASSUME UNCHANGED <<handler, contexts>>,
             \A t \in Tasks : dropped[t] => dropped'[t],
             \A t \in Tasks : pc'[t] # "none" => pc[t] # "none"
      PROVE  Closed'
  BY <1>0, <1>1 DEF Closed
<1>2. CASE UNCHANGED <<handler, contexts, dropped, pc>>
  BY <1>1, <1>2
<1>3. ASSUME NEW s \in Sessions, Crash(s) \/ HangUp(s) \/ CloseJoined(s)
      PROVE  Closed'
  <2>1. PICK rest \in Seq(Tasks) : CloseRest(s, rest)
    BY <1>0, <1>3, CloseShape
  <2>2. PICK n \in 0..Len(rest) :
          /\ CancelAll({rest[i] : i \in 1..(n + 1) \cap DOMAIN rest})
          /\ contexts' = [contexts EXCEPT ![s] = SubSeq(rest, n + 1, Len(rest))]
          /\ handler' =
               [handler EXCEPT ![s] = IF n < Len(rest) THEN "close" ELSE "closed"]
          /\ pc' = pc
    BY <2>1 DEF CloseRest, emitVars
  <2> DEFINE T == {rest[i] : i \in 1..(n + 1) \cap DOMAIN rest}
  <2>3. dropped' = [t \in Tasks |-> dropped[t] \/ t \in T]
    BY <2>2 DEF CancelAll
  <2>4. n < Len(rest) => /\ Head(SubSeq(rest, n + 1, Len(rest))) = rest[n + 1]
                         /\ rest[n + 1] \in T /\ rest[n + 1] \in Tasks
    <3> DEFINE r == SubSeq(rest, n + 1, Len(rest))
    <3>1. /\ r \in Seq(Tasks)
          /\ Len(r) = Len(rest) - n
          /\ \A i \in 1..(Len(rest) - n) : r[i] = rest[n + i]
      BY Suffix
    <3> HIDE DEF r
    <3> SUFFICES ASSUME n < Len(rest)
                 PROVE  Head(r) = rest[n + 1] /\ rest[n + 1] \in T /\ rest[n + 1] \in Tasks
      BY DEF r
    <3>2. 1 \in 1..(Len(rest) - n) /\ n + 1 \in 1..(n + 1) \cap DOMAIN rest
      BY LenProperties
    <3>3. r # <<>> /\ r[1] = rest[n + 1]
      BY <3>1, <3>2
    <3>4. Head(r) = r[1] /\ r[1] \in Tasks
      BY <3>1, <3>3, HeadTailProperties, ElementOfSeq
    <3>. QED
      BY <3>2, <3>3, <3>4
  <2> HIDE DEF T
  <2>5. \A r \in Sessions : handler'[r] = "close" => dropped'[Head(contexts'[r])]
    <3> SUFFICES ASSUME NEW r \in Sessions, handler'[r] = "close"
                 PROVE  dropped'[Head(contexts'[r])]
      OBVIOUS
    <3>1. CASE r = s
      <4>1. n < Len(rest) /\ contexts'[s] = SubSeq(rest, n + 1, Len(rest))
        BY <1>0, <2>2, <3>1 DEF TypeOK
      <4>2. dropped'[rest[n + 1]]
        BY <2>3, <2>4, <4>1
      <4>. QED
        BY <2>4, <3>1, <4>1, <4>2
    <3>2. CASE r # s
      <4>1. handler[r] = "close" /\ contexts'[r] = contexts[r]
        BY <1>0, <2>2, <3>2 DEF TypeOK
      <4>. QED
        BY <1>0, <2>3, <4>1 DEF Closed
    <3>. QED
      BY <3>1, <3>2
  <2>6. \A t \in Tasks : pc'[t] # "none" => handler'[SessionOf[t]] # "idle"
    BY <1>0, <2>2 DEF Closed, TypeOK
  <2>. QED
    BY <2>5, <2>6 DEF Closed
<1>4. ASSUME NEW s \in Sessions,
             Connect(s) \/ Stall(s) \/ Disconnect(s) \/ BadFrame(s) \/ ReplyDone(s)
      PROVE  Closed'
  <2>1. UNCHANGED <<contexts, dropped, pc>>
    BY <1>4 DEF Connect, Stall, Disconnect, BadFrame, ReplyDone, taskVars, emitVars
  <2>2. /\ \A r \in Sessions : handler'[r] = "close" => handler[r] = "close"
        /\ \A r \in Sessions : handler'[r] = "idle" => handler[r] = "idle"
    BY <1>0, <1>4 DEF Connect, Stall, Disconnect, BadFrame, ReplyDone, TypeOK
  <2>. QED
    BY <1>0, <2>1, <2>2 DEF Closed
<1>5. ASSUME NEW s \in Sessions, CloseTimeout(s)
      PROVE  Closed'
  <2>1. PICK t \in Tasks : Finish(t) /\ TimesOut(t)
    BY <1>5 DEF CloseTimeout
  <2>2. pc[t] # "none" /\ pc' = [pc EXCEPT ![t] = "finished"]
    BY <2>1 DEF Finish, GoTo, TimesOut, Live, Sending
  <2>. QED
    BY <1>0, <1>1, <1>5, <2>2 DEF CloseTimeout, sessionVars
<1>6. ASSUME NEW t \in Tasks, PushText(t) \/ FinalText(t) \/ FlushText(t)
      PROVE  Closed'
  <2>1. CASE UNCHANGED <<contexts, pc>>
    BY <1>1, <1>6, <2>1, TextShape
  <2>2. CASE /\ pc' = [pc EXCEPT ![t] = "get"]
             /\ contexts' = [contexts EXCEPT ![SessionOf[t]] = Append(@, t)]
    <3>1. UNCHANGED <<handler, dropped>> /\ handler[SessionOf[t]] = "recv"
      BY <1>6, TextShape
    <3>2. \A s \in Sessions : handler[s] = "close" => contexts'[s] = contexts[s]
      BY <1>0, <2>2, <3>1 DEF TypeOK
    <3>3. \A u \in Tasks : pc'[u] # "none" => pc[u] # "none" \/ u = t
      BY <1>0, <2>2
    <3>. QED
      BY <1>0, <3>1, <3>2, <3>3 DEF Closed
  <2>. QED
    BY <1>6, <2>1, <2>2, TextShape
<1>7. ASSUME NEW t \in Tasks, CancelFrame(t)
      PROVE  Closed'
  BY <1>0, <1>1, <1>7 DEF CancelFrame, sessionVars, emitVars, TypeOK
<1>8. ASSUME NEW t \in Tasks, Emit(t)
      PROVE  Closed'
  <2>1. /\ UNCHANGED <<handler, contexts, dropped>> /\ pc[t] # "none"
        /\ \E p : pc' = [pc EXCEPT ![t] = p]
    BY <1>0, <1>8, EmitShape DEF sessionVars, Live, Sending
  <2>. QED
    BY <1>0, <1>1, <2>1
<1>9. ASSUME NEW t \in Tasks, PoolAnswers(t)
      PROVE  UNCHANGED <<handler, contexts, dropped, pc>>
  BY <1>9 DEF PoolAnswers, sessionVars, taskVars, emitVars
<1>. QED
  BY <1>2, <1>3, <1>4, <1>5, <1>6, <1>7, <1>8, <1>9
  DEF Next, Emit, Over, vars, sessionVars, taskVars, emitVars

\* Every step keeps every stream, for contexts with distinct ids.
LEMMA StreamStep == DistinctIds /\ StreamInv /\ [Next]_vars => StreamInv'
<1> SUFFICES ASSUME DistinctIds, StreamInv, [Next]_vars, NEW u \in Tasks
             PROVE  StreamOf(u)'
  BY InvStep, ClosedStep DEF StreamInv
<1>0. TypeOK /\ Closing /\ StreamOf(u) /\ u \in Tasks
  BY DEF StreamInv, SessionInv
<1>1. ASSUME UNCHANGED <<pc, cur, pos, sent, clientVars, queue, dropped, link>>
      PROVE  StreamOf(u)'
  <2>1. FramesOf(u)' = FramesOf(u)
    BY <1>1 DEF FramesOf
  <2>. QED
    BY <1>0, <1>1, <2>1, StreamUntouched DEF clientVars
<1>2. ASSUME NEW s \in Sessions, Crash(s) \/ HangUp(s) \/ CloseJoined(s)
      PROVE  StreamOf(u)'
  <2>1. PICK rest \in Seq(Tasks) : CloseRest(s, rest)
    BY <1>0, <1>2, CloseShape
  <2>2. UNCHANGED <<pc, cur, pos, sent, clientVars, link>>
    BY <2>1 DEF CloseRest, emitVars
  <2>3. PICK T : CancelAll(T)
    BY <2>1 DEF CloseRest
  <2>4. (dropped[u] => dropped'[u]) /\ (~dropped'[u] => queue'[u] = queue[u])
    BY <2>3 DEF CancelAll, Wake
  <2>5. FramesOf(u)' = FramesOf(u)
    BY <2>2 DEF FramesOf
  <2>. QED
    BY <1>0, <2>2, <2>4, <2>5, StreamUntouched DEF clientVars
<1>3. ASSUME NEW s \in Sessions, Stall(s) \/ Disconnect(s) \/ BadFrame(s) \/ ReplyDone(s)
      PROVE  StreamOf(u)'
  <2>1. UNCHANGED taskVars /\ FramesOf(u)' = FramesOf(u)
    BY <1>3 DEF Stall, Disconnect, BadFrame, ReplyDone, FramesOf, taskVars, emitVars
  <2>2. link'[SessionOf[u]] # "down" => link[SessionOf[u]] # "down"
    BY <1>0, <1>3, SessionAssumption DEF Stall, Disconnect, BadFrame, ReplyDone, TypeOK
  <2>. QED
    BY <1>0, <2>1, <2>2, StreamUntouched DEF taskVars, clientVars, emitVars
<1>4. ASSUME NEW s \in Sessions, Connect(s)
      PROVE  StreamOf(u)'
  <2>1. UNCHANGED taskVars /\ FramesOf(u)' = FramesOf(u)
    BY <1>4 DEF Connect, FramesOf, taskVars, emitVars
  <2>2. CASE SessionOf[u] # s
    <3>1. link'[SessionOf[u]] = link[SessionOf[u]]
      BY <1>0, <1>4, <2>2, SessionAssumption DEF Connect, TypeOK
    <3>. QED
      BY <1>0, <2>1, <3>1, StreamUntouched DEF taskVars, clientVars, emitVars
  <2>3. CASE SessionOf[u] = s
    <3>1. pc[u] = "none"
      BY <1>4, <2>3 DEF Connect, StreamInv, Closed
    <3>2. cur[u] = 0 /\ FramesOf(u) \subseteq Played(u)
      BY <1>0, <3>1 DEF StreamOf, InStep, Open
    <3>3. Played(u) = {} /\ Played(u)' = {}
      BY <2>1, <3>1, <3>2, AudioOnly DEF Played, Chunks, taskVars, emitVars
    <3>4. InStep(u)'
      BY <2>1, <3>1, <3>2, <3>3 DEF InStep, taskVars, emitVars
    <3>. QED
      BY <1>0, <2>1, <3>1, <3>2, <3>3, <3>4
      DEF StreamOf, Ended, Kept, Open, taskVars, emitVars, clientVars
  <2>. QED
    BY <2>2, <2>3
<1>5. ASSUME NEW s \in Sessions, CloseTimeout(s)
      PROVE  StreamOf(u)'
  <2>1. PICK t \in Tasks : t = Head(contexts[s]) /\ Finish(t) /\ handler[s] = "close"
    BY <1>5 DEF CloseTimeout
  <2>2. dropped[t] /\ pc' = [pc EXCEPT ![t] = "finished"]
    BY <2>1 DEF StreamInv, Closed, Finish, GoTo
  <2>3. /\ UNCHANGED <<sessionVars, clientVars, cur, pos, sent, queue, dropped>>
        /\ FramesOf(u)' = FramesOf(u)
    BY <1>5 DEF CloseTimeout, FramesOf
  <2>4. CASE u # t
    <3>1. pc'[u] = pc[u]
      BY <1>0, <2>2, <2>4 DEF TypeOK
    <3>. QED
      BY <1>0, <2>3, <3>1, StreamUntouched DEF sessionVars, clientVars
  <2>5. CASE u = t
    <3>1. pc'[u] = "finished"
      BY <1>0, <2>2, <2>5 DEF TypeOK
    <3>. QED
      BY <1>0, <2>2, <2>3, <2>5, <3>1
      DEF StreamOf, Ended, Kept, Open, Chunks, sessionVars, clientVars
  <2>. QED
    BY <2>4, <2>5
<1>6. ASSUME NEW t \in Tasks, PushText(t) \/ FinalText(t) \/ FlushText(t)
      PROVE  StreamOf(u)'
  BY <1>6, TextStream
<1>7. ASSUME NEW t \in Tasks, CancelFrame(t)
      PROVE  StreamOf(u)'
  <2>1. UNCHANGED <<sessionVars, clientVars, emitVars>> /\ FramesOf(u)' = FramesOf(u)
    BY <1>7 DEF CancelFrame, FramesOf, emitVars
  <2>2. (dropped[u] => dropped'[u]) /\ (~dropped'[u] => queue'[u] = queue[u])
    BY <1>0, <1>7 DEF CancelFrame, DrainAndWake, TypeOK
  <2>. QED
    BY <1>0, <2>1, <2>2, StreamUntouched DEF sessionVars, clientVars, emitVars
<1>8. ASSUME NEW t \in Tasks, Emit(t)
      PROVE  StreamOf(u)'
  BY <1>8, EmitStream
<1>9. ASSUME NEW t \in Tasks, PoolAnswers(t)
      PROVE  StreamOf(u)'
  BY <1>1, <1>9 DEF PoolAnswers, sessionVars, taskVars, emitVars, clientVars
<1>. QED
  BY <1>1, <1>2, <1>3, <1>4, <1>5, <1>6, <1>7, <1>8, <1>9
  DEF Next, Emit, Over, vars, sessionVars, taskVars, emitVars

\* At first nothing is queued and nothing has been sent.
LEMMA StreamInit == Init => StreamInv
<1> SUFFICES ASSUME Init
             PROVE  Closed /\ \A t \in Tasks : StreamOf(t)
  BY InvInit DEF StreamInv
<1>1. Closed
  BY DEF Init, Closed
<1>2. ASSUME NEW t \in Tasks
      PROVE  StreamOf(t)
  <2>1. /\ pc[t] = "none" /\ cur[t] = 0 /\ made[t] = 0 /\ promised[t] = Unended
        /\ queue[t] = <<>> /\ sent[t] = <<>>
    BY DEF Init
  <2>2. FramesOf(t) = {} /\ Played(t) = {}
    BY <2>1, AudioOnly DEF FramesOf, Played
  <2>3. InOrder(<<>>, 0, 0, Unended)
    BY DEF InOrder
  <2>. QED
    BY <2>1, <2>2, <2>3 DEF StreamOf, InStep, Ended, Kept
<1>. QED
  BY <1>1, <1>2

\* The invariant holds for every number of sessions, contexts and chunks.
LEMMA StreamSafe ==
  ASSUME DistinctIds
  PROVE  Spec => []StreamInv
<1>1. StreamInv /\ [Next]_vars => StreamInv'
  BY StreamStep
<1>. QED
  BY <1>1, StreamInit, PTL DEF Spec

\* If no two contexts have the same id, a done frame is sent only when all audio of
\* the text up to its end has been sent, and nothing else with it.
THEOREM DoneIsComplete ==
  ASSUME DistinctIds
  PROVE  Spec => []DoneMeansComplete
<1>1. StreamInv => DoneMeansComplete
  BY DEF StreamInv, StreamOf, Kept, Chunks, DoneMeansComplete
<1>. QED
  BY <1>1, StreamSafe, PTL

\* If no two contexts have the same id, a context that was not cancelled and whose
\* client is still there ends with a done or an error frame.
THEOREM StreamsEnd ==
  ASSUME DistinctIds
  PROVE  Spec => []TerminalFrame
<1>1. StreamInv => TerminalFrame
  BY DEF StreamInv, StreamOf, Ended, TerminalFrame
<1>. QED
  BY <1>1, StreamSafe, PTL
-----------------------------------------------------------------------------
(***************************************************************************)
(* Session implements ContextStream: every step is, for each context, a    *)
(* step of its stream or none.                                             *)
(***************************************************************************)

\* How the stream of a context moves.
Moves(t) == Stream(t)!Next \/ UNCHANGED Stream(t)!vars

\* What is heard, and what is not, in terms of the session.
LEMMA StreamTerms ==
  ASSUME NEW t \in Tasks
  PROVE  /\ Stream(t)!Heard = FramesOf(t)
         /\ Stream(t)!Unheard =
              Chunks(IF promised[t] = Unended THEN made[t] ELSE promised[t]) \ FramesOf(t)
         /\ Stream(t)!LastFrame("done") = DoneFrame
         /\ Stream(t)!LastFrame("error") = ErrorFrame
<1>1. Stream(t)!Heard = FramesOf(t)
  BY DEF Stream!Heard, FramesOf
<1>2. Stream(t)!Unheard =
        Chunks(IF promised[t] = Unended THEN made[t] ELSE promised[t]) \ FramesOf(t)
  BY <1>1 DEF Stream!Unheard, Stream!Unended, Stream!AudioFrame, AudioFrame, Chunks
<1>3. /\ Stream(t)!LastFrame("done") = DoneFrame
      /\ Stream(t)!LastFrame("error") = ErrorFrame
  BY DEF Stream!LastFrame, DoneFrame, ErrorFrame
<1>. QED
  BY <1>1, <1>2, <1>3

\* The next frame of the current chunk is the first that has not been heard.
LEMMA NextUnheard ==
  ASSUME NEW n \in 0..MaxChunks, NEW c \in 1..n, NEW i \in 1..Frames[c],
         NEW heard, heard = Chunks(c - 1) \cup Part(c, i - 1),
         NEW f, f = AudioFrame(c, i)
  PROVE  /\ f \in Chunks(n) \ heard
         /\ \A g \in (Chunks(n) \ heard) \ {f} :
              f.chunk < g.chunk \/ (f.chunk = g.chunk /\ f.frame < g.frame)
<1>0. /\ MaxChunks \in Nat /\ n \in Nat /\ c \in Nat
      /\ \A k \in 1..n : Frames[k] \in Nat
      /\ i \in Nat
  BY SessionAssumption
<1>1. \A k, j : AudioFrame(k, j).chunk = k /\ AudioFrame(k, j).frame = j
  BY DEF AudioFrame
<1>2. AudioFrame(c, i) \in Chunks(n)
  BY DEF Chunks
<1>3. AudioFrame(c, i) \notin Chunks(c - 1)
  <2>1. ASSUME NEW k \in 1..(c - 1), NEW j, AudioFrame(c, i) = AudioFrame(k, j)
        PROVE  FALSE
    <3>1. c = k
      BY <1>1, <2>1
    <3>. QED
      BY <1>0, <3>1
  <2>. QED
    BY <2>1 DEF Chunks
<1>4. AudioFrame(c, i) \notin Part(c, i - 1)
  <2>1. ASSUME NEW j \in 1..(i - 1), AudioFrame(c, i) = AudioFrame(c, j)
        PROVE  FALSE
    <3>1. i = j
      BY <1>1, <2>1
    <3>. QED
      BY <1>0, <3>1
  <2>. QED
    BY <2>1 DEF Part
<1>5. ASSUME NEW g \in (Chunks(n) \ heard) \ {f}
      PROVE  c < g.chunk \/ (c = g.chunk /\ i < g.frame)
  <2>1. PICK k \in 1..n : \E j \in 1..Frames[k] : g = AudioFrame(k, j)
    BY DEF Chunks
  <2>2. PICK j \in 1..Frames[k] : g = AudioFrame(k, j)
    BY <2>1
  <2>3. k \in Nat /\ j \in Nat /\ g.chunk = k /\ g.frame = j
    BY <1>0, <1>1, <2>2
  <2>4. ~(k < c)
    <3>1. ASSUME k < c
          PROVE  FALSE
      <4>1. k \in 1..(c - 1)
        BY <1>0, <2>3, <3>1
      <4>2. g \in Chunks(c - 1)
        BY <2>2, <4>1 DEF Chunks
      <4>. QED
        BY <4>2
    <3>. QED
      BY <3>1
  <2>5. k = c => ~(j < i) /\ j # i
    <3>1. ASSUME k = c, j < i
          PROVE  FALSE
      <4>1. j \in 1..(i - 1)
        BY <1>0, <2>3, <3>1
      <4>. QED
        BY <2>2, <3>1, <4>1 DEF Part
    <3>2. ASSUME k = c, j = i
          PROVE  FALSE
      BY <2>2, <3>2
    <3>. QED
      BY <3>1, <3>2
  <2>. QED
    <3>1. k \in Nat /\ j \in Nat /\ c \in Nat /\ i \in Nat
      BY <1>0, <2>3
    <3>2. c < k \/ (c = k /\ i < j)
      BY <2>4, <2>5, <3>1
    <3>. QED
      BY <2>3, <3>2
<1>. QED
  BY <1>1, <1>2, <1>3, <1>4, <1>5

\* What a send appends to the stream of its context.
LEMMA SendMoves ==
  ASSUME TypeOK, NEW t \in Tasks, NEW f, Send(t, f)
  PROVE  /\ link[SessionOf[t]] = "down" => sent'[t] = sent[t]
         /\ link[SessionOf[t]] # "down" => sent'[t] = Append(sent[t], f)
BY DEF Send, TypeOK

\* A step that leaves the stream of a context alone.
LEMMA SilentMoves ==
  ASSUME NEW t \in Tasks, sent'[t] = sent[t], made'[t] = made[t],
         promised'[t] = promised[t], dropped'[t] = dropped[t]
  PROVE  Moves(t)
BY DEF Moves, Stream!vars

\* A frame of audio is a Play, or is lost with the connection.
LEMMA ShipMoves ==
  ASSUME StreamInv, NEW t \in Tasks, pc[t] \in {"synth", "ship"}, ~dropped[t], NEW i,
         i = pos[t] + 1, i <= Frames[cur[t]], ShipFrame(t, cur[t], i),
         UNCHANGED <<sessionVars, clientVars, dropped>>
  PROVE  Moves(t)
<1>0. /\ TypeOK /\ StreamOf(t) /\ pc[t] \in Open
      /\ cur[t] \in 0..MaxChunks /\ pos[t] \in Nat /\ made[t] \in 0..MaxChunks
      /\ promised[t] \in -1..MaxChunks
      /\ UNCHANGED <<link, made, promised, dropped>>
      /\ MaxChunks \in Nat /\ Frames \in [1..MaxChunks -> Nat]
  BY SessionAssumption
  DEF StreamInv, SessionInv, TypeOK, Open, sessionVars, clientVars
<1>1. Send(t, AudioFrame(cur[t], i))
  BY DEF ShipFrame
<1>2. CASE link[SessionOf[t]] = "down"
  BY <1>0, <1>1, <1>2, SendMoves, SilentMoves
<1>3. CASE link[SessionOf[t]] # "down"
  <2> DEFINE n == IF promised[t] = Unended THEN made[t] ELSE promised[t]
  <2>1. n \in 0..MaxChunks /\ cur[t] \in 1..n /\ i \in 1..Frames[cur[t]] /\ i - 1 = pos[t]
    <3>1. cur[t] >= 1 /\ InOrder(queue[t], cur[t], made[t], promised[t])
      BY <1>0 DEF StreamOf, InStep
    <3>2. n - cur[t] >= 0
      BY <3>1 DEF InOrder
    <3>3. n \in 0..MaxChunks
      BY <1>0
    <3>4. Frames[cur[t]] \in Nat
      BY <1>0, <3>1
    <3>5. cur[t] \in Nat /\ pos[t] \in Nat /\ MaxChunks \in Nat
      BY <1>0
    <3> HIDE DEF n
    <3>6. cur[t] \in 1..n
      BY <3>1, <3>2, <3>3, <3>5
    <3>7. i \in 1..Frames[cur[t]] /\ i - 1 = pos[t]
      BY <3>4, <3>5
    <3>. QED
      BY <3>3, <3>6, <3>7
  <2>2. FramesOf(t) = Chunks(cur[t] - 1) \cup Part(cur[t], i - 1)
    BY <1>0, <1>3, <2>1 DEF StreamOf, InStep, Played
  <2>3. Stream(t)!Unheard = Chunks(n) \ FramesOf(t) /\ Stream(t)!Heard = FramesOf(t)
    BY StreamTerms
  <2> HIDE DEF n
  <2>4. /\ AudioFrame(cur[t], i) \in Stream(t)!Unheard
        /\ \A g \in Stream(t)!Unheard \ {AudioFrame(cur[t], i)} :
             Stream(t)!Earlier(AudioFrame(cur[t], i), g)
    <3> DEFINE f == AudioFrame(cur[t], i)
           heard == FramesOf(t)
           c == cur[t]
    <3>0. /\ f = AudioFrame(c, i) /\ n \in 0..MaxChunks /\ c \in 1..n /\ i \in 1..Frames[c]
          /\ heard = Chunks(c - 1) \cup Part(c, i - 1)
      BY <2>1, <2>2
    <3> HIDE DEF f, heard, c
    <3>1. /\ f \in Chunks(n) \ heard
          /\ \A g \in (Chunks(n) \ heard) \ {f} :
               f.chunk < g.chunk \/ (f.chunk = g.chunk /\ f.frame < g.frame)
      BY <3>0, NextUnheard
    <3>2. \A g : Stream(t)!Earlier(f, g) <=>
                   f.chunk < g.chunk \/ (f.chunk = g.chunk /\ f.frame < g.frame)
      BY DEF Stream!Earlier
    <3>3. \A g \in Stream(t)!Unheard \ {f} : Stream(t)!Earlier(f, g)
      BY <2>3, <3>1, <3>2, Zenon DEF heard
    <3>. QED
      BY <2>3, <3>1, <3>3 DEF f, heard, c
  <2>5. ~Stream(t)!Over
    BY <1>0, <2>3, StreamTerms, OpenUnfinished DEF Stream!Over
  <2>6. sent'[t] = Append(sent[t], AudioFrame(cur[t], i))
    BY <1>0, <1>1, <1>3, SendMoves
  <2>7. Stream(t)!Play
    BY <1>0, <2>4, <2>5, <2>6 DEF Stream!Play
  <2>. QED
    BY <2>7 DEF Moves, Stream!Next
<1>. QED
  BY <1>2, <1>3

\* An error frame is a GiveUp, or is lost with the connection.
LEMMA FailMoves ==
  ASSUME StreamInv, NEW t \in Tasks, pc[t] \in Open, Fail(t),
         UNCHANGED <<sessionVars, clientVars, dropped>>
  PROVE  Moves(t)
<1>0. TypeOK /\ StreamOf(t) /\ UNCHANGED <<made, promised, dropped>> /\ Send(t, ErrorFrame)
  BY DEF StreamInv, SessionInv, clientVars, Fail
<1>1. CASE link[SessionOf[t]] = "down"
  BY <1>0, <1>1, SendMoves, SilentMoves
<1>2. CASE link[SessionOf[t]] # "down"
  <2>1. ~Stream(t)!Over
    BY <1>0, StreamTerms, OpenUnfinished DEF Stream!Over
  <2>2. sent'[t] = Append(sent[t], Stream(t)!LastFrame("error"))
    BY <1>0, <1>2, SendMoves, StreamTerms
  <2>3. Stream(t)!GiveUp
    BY <1>0, <2>1, <2>2 DEF Stream!GiveUp
  <2>. QED
    BY <2>3 DEF Moves, Stream!Next
<1>. QED
  BY <1>1, <1>2

\* A done frame is a Complete, or is lost; other turns of the loop are silent,
\* or are refused.
LEMMA LoopMoves ==
  ASSUME StreamInv, NEW t \in Tasks, pc[t] \in {"get", "synth", "ship"}, Loop(t),
         dropped[t] \/ Played(t) = Chunks(cur[t]),
         UNCHANGED <<sessionVars, clientVars, dropped>>
  PROVE  Moves(t)
<1>0. /\ TypeOK /\ StreamOf(t) /\ pc[t] \in Open /\ pc[t] \in Live
      /\ queue[t] \in Seq(0..MaxChunks) /\ cur[t] \in 0..MaxChunks
      /\ made[t] \in 0..MaxChunks /\ promised[t] \in -1..MaxChunks
      /\ UNCHANGED <<made, promised, dropped>>
      /\ IsCancelled(t) <=> dropped[t]
  BY FlagIsDropped DEF StreamInv, SessionInv, TypeOK, Open, Live, Sending, clientVars
<1>1. CASE LoopParks(t) \/ LoopQuits(t) \/ LoopSynthesizes(t)
  BY <1>0, <1>1, SilentMoves DEF LoopParks, LoopQuits, LoopSynthesizes
<1>2. CASE LoopRefused(t)
  BY <1>0, <1>2, FailMoves DEF LoopRefused
<1>3. CASE LoopEnds(t)
  <2>1. ~dropped[t] /\ queue[t] # <<>> /\ Head(queue[t]) = EOF /\ Send(t, DoneFrame)
    BY <1>0, <1>3 DEF LoopEnds
  <2>2. CASE link[SessionOf[t]] = "down"
    BY <1>0, <2>1, <2>2, SendMoves, SilentMoves
  <2>3. CASE link[SessionOf[t]] # "down"
    <3>1. promised[t] # Unended /\ cur[t] = promised[t]
      BY <1>0, <2>1, HeadInOrder DEF StreamOf
    <3>2. FramesOf(t) = Chunks(cur[t])
      BY <1>0, <2>1, <2>3 DEF StreamOf, InStep
    <3>3. Stream(t)!Unheard = {}
      BY <3>1, <3>2, StreamTerms
    <3>4. ~Stream(t)!Over
      BY <1>0, StreamTerms, OpenUnfinished DEF Stream!Over
    <3>5. sent'[t] = Append(sent[t], Stream(t)!LastFrame("done"))
      BY <1>0, <2>1, <2>3, SendMoves, StreamTerms
    <3>6. Stream(t)!Complete
      BY <1>0, <2>1, <3>1, <3>3, <3>4, <3>5 DEF Stream!Complete, Stream!Unended
    <3>. QED
      BY <3>6 DEF Moves, Stream!Next
  <2>. QED
    BY <2>2, <2>3
<1>. QED
  BY <1>1, <1>2, <1>3 DEF Loop

\* A step of an emit task moves its own stream only.
LEMMA EmitMoves ==
  ASSUME StreamInv, NEW t \in Tasks, Emit(t), NEW u \in Tasks
  PROVE  Moves(u)
<1>0. /\ TypeOK /\ StreamOf(t) /\ pc[t] \in Live
      /\ UNCHANGED <<sessionVars, clientVars, made, promised, dropped>>
      /\ IsCancelled(t) <=> dropped[t]
  BY EmitShape, FlagIsDropped DEF StreamInv, SessionInv, clientVars
<1>1. CASE u # t
  <2>1. sent'[u] = sent[u]
    BY <1>0, <1>1, EmitLocal DEF TypeOK, ServiceTypeOK
  <2>. QED
    BY <1>0, <2>1, SilentMoves
<1>2. CASE u = t
  <2>1. pc[t] \in {"synth", "ship"} /\ pos[t] = Frames[cur[t]] => Played(t) = Chunks(cur[t])
    BY <1>0, FullyPlayed
  <2>2. CASE EmitGet(t)
    <3>1. pc[t] = "get" /\ Loop(t) /\ Played(t) = Chunks(cur[t])
      BY <2>2 DEF EmitGet, Played
    <3>. QED
      BY <1>0, <1>2, <3>1, LoopMoves
  <2>3. CASE EmitResult(t)
    <3>1. pc[t] = "synth" /\ pos[t] = 0 /\ pos[t] + 1 = 1
      BY <1>0, <2>3 DEF EmitResult, StreamOf, InStep, Open
    <3>2. CASE IsCancelled(t) /\ Loop(t)
      BY <1>0, <1>2, <3>1, <3>2, LoopMoves
    <3>3. CASE Frames[cur[t]] = 0 /\ Loop(t)
      BY <1>0, <1>2, <2>1, <3>1, <3>3, LoopMoves
    <3>4. CASE ~IsCancelled(t) /\ Frames[cur[t]] > 0 /\ ShipFrame(t, cur[t], 1)
      <4>1. 1 <= Frames[cur[t]]
        BY <1>0, <3>1, <3>4, CurrentChunk
      <4>. QED
        BY <1>0, <1>2, <3>1, <3>4, <4>1, ShipMoves
    <3>. QED
      BY <2>3, <3>2, <3>3, <3>4 DEF EmitResult
  <2>4. CASE EmitRaises(t)
    BY <1>0, <1>2, <2>4, FailMoves DEF EmitRaises, Open
  <2>5. CASE EmitShip(t)
    <3>1. pc[t] = "ship"
      BY <2>5 DEF EmitShip
    <3>2. CASE ShipOver(t) /\ Loop(t)
      BY <1>0, <1>2, <2>1, <3>1, <3>2, LoopMoves DEF ShipOver
    <3>3. CASE ~ShipOver(t) /\ ShipFrame(t, cur[t], pos[t] + 1)
      <4>1. pos[t] + 1 <= Frames[cur[t]] /\ ~dropped[t]
        BY <1>0, <3>1, <3>3, CurrentChunk DEF ShipOver
      <4>. QED
        BY <1>0, <1>2, <3>1, <3>3, <4>1, ShipMoves
    <3>. QED
      BY <2>5, <3>2, <3>3 DEF EmitShip
  <2>6. CASE EmitLast(t) \/ EmitSendRaises(t)
    BY <1>0, <1>2, <2>6, SilentMoves DEF EmitLast, EmitSendRaises
  <2>. QED
    BY <2>2, <2>3, <2>4, <2>5, <2>6 DEF Emit
<1>. QED
  BY <1>1, <1>2

\* A text frame lengthens the text of its context, and may end it.
LEMMA TextMoves ==
  ASSUME StreamInv, NEW t \in Tasks, PushText(t) \/ FinalText(t) \/ FlushText(t),
         NEW u \in Tasks
  PROVE  Moves(u)
<1>0. TypeOK /\ UNCHANGED <<sent, dropped>> /\ MaxChunks \in Nat
  BY SessionAssumption
  DEF StreamInv, SessionInv, PushText, FinalText, FlushText, OnText
<1>1. PICK n \in Nat, e \in Seq(0..MaxChunks) : n <= MaxChunks - made[t] /\ Put(t, n, e)
  BY <1>0, TextPuts
<1>2. UNCHANGED promised \/ End(t)
  BY DEF PushText, FinalText, FlushText
<1>3. CASE u # t
  <2>1. made'[u] = made[u] /\ promised'[u] = promised[u]
    BY <1>0, <1>1, <1>2, <1>3 DEF Put, End, TypeOK
  <2>. QED
    BY <1>0, <2>1, SilentMoves
<1>4. CASE u = t
  <2>1. made[t] \in 0..MaxChunks /\ made'[t] = made[t] + n
    BY <1>0, <1>1 DEF Put, TypeOK
  <2>2. made'[t] \in made[t]..MaxChunks
    BY <1>0, <1>1, <2>1
  <2>3. promised'[t] \in IF promised[t] = Unended THEN {Unended, made'[t]} ELSE {promised[t]}
    BY <1>0, <1>2 DEF End, TypeOK
  <2>4. Stream(t)!Text
    BY <1>0, <2>2, <2>3 DEF Stream!Text, Stream!Unended
  <2>. QED
    BY <1>4, <2>4 DEF Moves, Stream!Next
<1>. QED
  BY <1>3, <1>4

\* Cancelling contexts, by a frame or by close(), stops their streams.
LEMMA CancelMoves ==
  ASSUME NEW u \in Tasks, UNCHANGED <<sent, made, promised>>,
         dropped'[u] \in BOOLEAN, dropped[u] \in BOOLEAN, dropped[u] => dropped'[u]
  PROVE  Moves(u)
<1>1. CASE dropped'[u]
  <2>1. Stream(u)!Stop
    BY <1>1 DEF Stream!Stop
  <2>. QED
    BY <2>1 DEF Moves, Stream!Next
<1>2. CASE ~dropped'[u]
  BY <1>2, SilentMoves
<1>. QED
  BY <1>1, <1>2

\* Every step moves every stream by one step at most.
LEMMA StreamMoves ==
  ASSUME StreamInv, StreamInv', [Next]_vars, NEW u \in Tasks
  PROVE  Moves(u)
<1>0. /\ TypeOK /\ Closing
      /\ dropped[u] \in BOOLEAN /\ dropped'[u] \in BOOLEAN
  BY DEF StreamInv, SessionInv, TypeOK
<1>1. CASE UNCHANGED <<sent, made, promised, dropped>>
  BY <1>1, SilentMoves
<1>2. ASSUME NEW s \in Sessions, Crash(s) \/ HangUp(s) \/ CloseJoined(s)
      PROVE  Moves(u)
  <2>1. PICK rest \in Seq(Tasks) : CloseRest(s, rest)
    BY <1>0, <1>2, CloseShape
  <2>2. UNCHANGED <<sent, made, promised>>
    BY <2>1 DEF CloseRest, emitVars, clientVars
  <2>3. dropped[u] => dropped'[u]
    BY <2>1 DEF CloseRest, CancelAll
  <2>. QED
    BY <1>0, <2>2, <2>3, CancelMoves
<1>3. ASSUME NEW s \in Sessions,
             Connect(s) \/ Stall(s) \/ Disconnect(s) \/ BadFrame(s) \/ ReplyDone(s)
               \/ CloseTimeout(s)
      PROVE  UNCHANGED <<sent, made, promised, dropped>>
  BY <1>3
  DEF Connect, Stall, Disconnect, BadFrame, ReplyDone, CloseTimeout, taskVars, clientVars,
      emitVars
<1>4. ASSUME NEW t \in Tasks, PushText(t) \/ FinalText(t) \/ FlushText(t)
      PROVE  Moves(u)
  BY <1>4, TextMoves
<1>5. ASSUME NEW t \in Tasks, CancelFrame(t)
      PROVE  Moves(u)
  <2>1. UNCHANGED <<sent, made, promised>>
    BY <1>5 DEF CancelFrame, emitVars, clientVars
  <2>2. dropped[u] => dropped'[u]
    BY <1>0, <1>5 DEF CancelFrame, TypeOK
  <2>. QED
    BY <1>0, <2>1, <2>2, CancelMoves
<1>6. ASSUME NEW t \in Tasks, Emit(t)
      PROVE  Moves(u)
  BY <1>6, EmitMoves
<1>7. ASSUME NEW t \in Tasks, PoolAnswers(t)
      PROVE  UNCHANGED <<sent, made, promised, dropped>>
  BY <1>7 DEF PoolAnswers, taskVars, clientVars, emitVars
<1>. QED
  BY <1>1, <1>2, <1>3, <1>4, <1>5, <1>6, <1>7
  DEF Next, Emit, Over, vars, taskVars, clientVars, emitVars

\* If no two contexts have the same id, what each client hears of a context is a
\* ContextStream, for every number of sessions, contexts, chunks and frames.
THEOREM SessionImplementsStream ==
  ASSUME DistinctIds
  PROVE  Spec => ImplementsStream
<1>1. Init => \A t \in Tasks : Stream(t)!Init
  BY DEF Init, Stream!Init, Stream!Unended
<1>2. StreamInv /\ StreamInv' /\ [Next]_vars
        => [\A t \in Tasks : Stream(t)!Next \/ UNCHANGED Stream(t)!vars]_vars
  BY StreamMoves DEF Moves
<1>. QED
  BY <1>1, <1>2, StreamSafe, PTL DEF Spec, ImplementsStream
-----------------------------------------------------------------------------
(***************************************************************************)
(* A client that sends no text to a context whose text it has ended.  Its  *)
(* texts are all synthesized: nothing is behind the EOF the emit task ends *)
(* at.  (Of other clients the run stranded_text shows the contrary.)       *)
(***************************************************************************)
SoundNext ==
  \/ \E s \in Sessions :
       \/ Connect(s) \/ Stall(s) \/ Disconnect(s) \/ BadFrame(s) \/ ReplyDone(s)
       \/ Crash(s) \/ Close(s)
  \/ \E t \in Tasks :
       \/ promised[t] = Unended /\ (PushText(t) \/ FinalText(t) \/ FlushText(t))
       \/ CancelFrame(t) \/ Emit(t) \/ PoolAnswers(t)

SoundSpec == Init /\ [][SoundNext]_vars

\* The text has ended and no chunk of it is left.
Emptied(t) == promised[t] # Unended /\ queue[t] = <<>>

\* An EOF is the last element of the queue and stands for the end of the text, and
\* what ends well leaves an empty queue.
EndsLast(q, p) == \A i \in DOMAIN q : q[i] = EOF => i = Len(q) /\ p # Unended

Tidy(t) ==
  ~dropped[t] =>
    /\ EndsLast(queue[t], promised[t])
    /\ pc[t] = "done" => Emptied(t)
    /\ pc[t] = "finished" /\ link[SessionOf[t]] # "down" /\ ErrorFrame \notin FramesOf(t)
         => Emptied(t)

TidyInv == StreamInv /\ \A t \in Tasks : Tidy(t)

\* What a sound client may make happen may happen.
LEMMA SoundIsNext == SoundNext => Next
BY DEF SoundNext, Next, Close, Emit

\* Without its head such a queue is one still, and behind an EOF there is nothing.
LEMMA EndsLastTail ==
  ASSUME NEW q \in Seq(0..MaxChunks), NEW p, EndsLast(q, p), q # <<>>
  PROVE  /\ EndsLast(Tail(q), p)
         /\ Head(q) = EOF => Tail(q) = <<>> /\ p # Unended
<1>1. /\ Len(q) \in Nat /\ Len(q) >= 1
      /\ Tail(q) \in Seq(0..MaxChunks) /\ Len(Tail(q)) = Len(q) - 1
      /\ \A i \in 1..(Len(q) - 1) : Tail(q)[i] = q[i + 1]
      /\ Head(q) = q[1]
  BY HeadTailProperties, LenProperties, EmptySeq
<1>2. \A i \in 1..Len(q) : q[i] = EOF => i = Len(q) /\ p # Unended
  BY LenProperties DEF EndsLast
<1>3. EndsLast(Tail(q), p)
  <2>1. DOMAIN Tail(q) = 1..(Len(q) - 1)
    BY <1>1, LenProperties
  <2>2. ASSUME NEW i \in 1..(Len(q) - 1), Tail(q)[i] = EOF
        PROVE  i = Len(q) - 1 /\ p # Unended
    <3>1. i + 1 \in 1..Len(q) /\ i \in Int /\ Len(q) \in Int
      BY <1>1
    <3>2. q[i + 1] = EOF
      BY <1>1, <2>2
    <3>3. i + 1 = Len(q) /\ p # Unended
      BY <1>2, <3>1, <3>2
    <3>4. i = Len(q) - 1
      BY ONLY <3>1, <3>3
    <3>. QED
      BY <3>3, <3>4
  <2>. QED
    BY <1>1, <2>1, <2>2 DEF EndsLast
<1>4. ASSUME Head(q) = EOF
      PROVE  Tail(q) = <<>> /\ p # Unended
  <2>1. Len(q) = 1 /\ p # Unended
    <3>1. 1 \in 1..Len(q) /\ q[1] = EOF
      BY <1>1, <1>4
    <3>. QED
      BY <1>2, <3>1
  <2>2. Len(Tail(q)) = 0
    BY <1>1, <2>1
  <2>. QED
    BY <1>1, <2>1, <2>2, EmptySeq
<1>. QED
  BY <1>3, <1>4

\* Text that has not ended is queued whole, and EOF behind it if it ends there.
LEMMA EndsLastText ==
  ASSUME TypeOK, NEW t \in Tasks, PushText(t) \/ FinalText(t) \/ FlushText(t),
         promised[t] = Unended, EndsLast(queue[t], promised[t])
  PROVE  EndsLast(queue'[t], promised'[t])
<1> DEFINE S == 0..MaxChunks
           Added(n) == [i \in 1..n |-> made[t] + i]
<1>0. MaxChunks \in Nat /\ queue[t] \in Seq(S) /\ made[t] \in S
  BY SessionAssumption DEF TypeOK
<1>1. PICK n \in Nat, e \in Seq(S) :
        /\ n <= MaxChunks - made[t] /\ Put(t, n, e)
        /\ e = <<>> \/ (e = <<EOF>> /\ End(t))
  <2>1. <<>> \in Seq(S) /\ <<EOF>> \in Seq(S)
    BY <1>0
  <2>2. CASE PushText(t)
    <3>1. PICK n \in 0..(MaxChunks - made[t]) : Put(t, n, <<>>)
      BY <2>2 DEF PushText
    <3>2. n \in Nat /\ n <= MaxChunks - made[t]
      BY <1>0
    <3>. QED
      BY <2>1, <3>1, <3>2
  <2>3. CASE FinalText(t) \/ FlushText(t)
    <3>1. PICK n \in 0..(MaxChunks - made[t]) : Put(t, n, <<EOF>>)
      BY <1>0, <2>3 DEF FinalText, FlushText, FlushTail
    <3>2. End(t)
      BY <2>3 DEF FinalText, FlushText
    <3>3. n \in Nat /\ n <= MaxChunks - made[t]
      BY <1>0
    <3>. QED
      BY <2>1, <3>1, <3>2, <3>3
  <2>. QED
    BY <2>2, <2>3
<1>2. Added(n) \in Seq(S) /\ Len(Added(n)) = n /\ \A i \in 1..n : Added(n)[i] # EOF
  <2>1. \A i \in 1..n : made[t] + i \in S /\ made[t] + i # EOF
    BY <1>0, <1>1
  <2>. QED
    BY <2>1, SeqDef, LenProperties
<1>3. queue'[t] = queue[t] \o Added(n) \o e
  BY <1>1 DEF Put, TypeOK
<1> DEFINE r == queue[t] \o Added(n) \o e
<1>4. /\ DOMAIN r = 1..(Len(queue[t]) + n + Len(e)) /\ Len(r) = Len(queue[t]) + n + Len(e)
      /\ Len(queue[t]) \in Nat /\ Len(e) \in Nat
      /\ \A i \in 1..Len(queue[t]) : r[i] = queue[t][i]
      /\ \A i \in 1..n : r[Len(queue[t]) + i] = Added(n)[i]
  <2> DEFINE q == queue[t]
             new == Added(n)
  <2>1. q \in Seq(S) /\ new \in Seq(S) /\ e \in Seq(S) /\ Len(new) = n
    BY <1>0, <1>2
  <2> HIDE DEF Added, S, q, new
  <2>2. /\ q \o new \o e \in Seq(S) /\ Len(q \o new \o e) = Len(q) + Len(new) + Len(e)
        /\ Len(q) \in Nat /\ Len(e) \in Nat
        /\ \A i \in 1..Len(q) : (q \o new \o e)[i] = q[i]
        /\ \A i \in 1..Len(new) : (q \o new \o e)[Len(q) + i] = new[i]
    BY ONLY <2>1, ThreeParts
  <2>3. DOMAIN (q \o new \o e) = 1..Len(q \o new \o e)
    BY <2>2, LenProperties
  <2>. QED
    BY <2>1, <2>2, <2>3 DEF q, new
<1>5. DOMAIN queue[t] = 1..Len(queue[t])
  BY <1>0, LenProperties
<1> HIDE DEF r, Added
<1>6. \A i \in 1..(Len(queue[t]) + n) : r[i] # EOF
  <2> SUFFICES ASSUME NEW i \in 1..(Len(queue[t]) + n)
               PROVE  r[i] # EOF
    OBVIOUS
  <2>1. CASE i \in 1..Len(queue[t])
    BY <1>4, <1>5, <2>1 DEF EndsLast
  <2>2. CASE i \notin 1..Len(queue[t])
    <3>1. i - Len(queue[t]) \in 1..n /\ i = Len(queue[t]) + (i - Len(queue[t]))
      BY <1>4, <2>2
    <3>. QED
      BY <1>2, <1>4, <3>1
  <2>. QED
    BY <2>1, <2>2
<1>7. CASE e = <<>>
  <2>1. DOMAIN r = 1..(Len(queue[t]) + n)
    BY <1>4, <1>7
  <2>. QED
    BY <1>3, <1>6, <2>1 DEF EndsLast, r
<1>8. CASE e = <<EOF>> /\ End(t)
  <2>1. DOMAIN r = 1..(Len(queue[t]) + n + 1) /\ Len(r) = Len(queue[t]) + n + 1
    BY <1>4, <1>8
  <2>2. promised'[t] # Unended
    <3>1. promised'[t] = made'[t] /\ made'[t] = made[t] + n
      BY <1>0, <1>1, <1>8 DEF End, Put, TypeOK
    <3>. QED
      BY <1>0, <3>1
  <2>3. \A i \in 1..(Len(queue[t]) + n + 1) : r[i] = EOF => i = Len(r)
    <3>1. Len(queue[t]) + n \in Nat
      BY <1>1, <1>4
    <3>2. \A i \in 1..(Len(queue[t]) + n + 1) :
            i \in 1..(Len(queue[t]) + n) \/ i = Len(queue[t]) + n + 1
      BY <3>1
    <3>. QED
      BY <1>6, <2>1, <3>2
  <2>4. EndsLast(r, promised'[t])
    BY <2>1, <2>2, <2>3 DEF EndsLast
  <2>. QED
    BY <1>3, <2>4 DEF r
<1>. QED
  BY <1>1, <1>7, <1>8

\* A step that touches nothing of a context, but for cancelling it or losing its
\* connection, keeps it tidy.
LEMMA TidyUntouched ==
  ASSUME NEW u \in Tasks, Tidy(u), pc'[u] = pc[u], FramesOf(u)' = FramesOf(u),
         promised'[u] = promised[u], dropped[u] => dropped'[u],
         ~dropped'[u] => queue'[u] = queue[u],
         link'[SessionOf[u]] # "down" => link[SessionOf[u]] # "down"
  PROVE  Tidy(u)'
BY DEF Tidy, Emptied, EndsLast

\* A context that was not cancelled and has neither ended nor finished is tidy when
\* its queue is.
LEMMA TidyOpen ==
  ASSUME NEW u \in Tasks, EndsLast(queue'[u], promised'[u]), pc'[u] \notin {"done", "finished"}
  PROVE  Tidy(u)'
BY DEF Tidy

\* The loop takes the EOF only when nothing is behind it.
LEMMA LoopTidy ==
  ASSUME StreamInv, NEW t \in Tasks, pc[t] \in {"get", "synth", "ship"}, Loop(t), Tidy(t),
         UNCHANGED <<sessionVars, clientVars, dropped>>
  PROVE  Tidy(t)'
<1>0. /\ pc \in [Tasks -> {"none", "finished"} \cup Live]
      /\ queue \in [Tasks -> Seq(0..MaxChunks)] /\ queue[t] \in Seq(0..MaxChunks)
      /\ UNCHANGED <<promised, dropped>> /\ pc[t] \in Live
      /\ IsCancelled(t) <=> dropped[t]
  BY FlagIsDropped DEF StreamInv, SessionInv, TypeOK, Live, Sending, clientVars
<1>1. CASE dropped[t]
  BY <1>0, <1>1 DEF Tidy
<1>2. CASE ~dropped[t]
  <2>1. EndsLast(queue[t], promised[t])
    BY <1>2 DEF Tidy
  <2>2. queue[t] # <<>> => /\ EndsLast(Tail(queue[t]), promised[t])
                           /\ Head(queue[t]) = EOF => Tail(queue[t]) = <<>> /\ promised[t] # Unended
    BY <1>0, <2>1, EndsLastTail
  <2>3. CASE LoopParks(t)
    <3>1. queue'[t] = <<>> /\ pc'[t] = "get"
      BY <1>0, <2>3 DEF LoopParks, GoTo
    <3>. QED
      BY <3>1, TidyOpen DEF EndsLast
  <2>4. CASE LoopQuits(t)
    BY <1>0, <1>2, <2>4 DEF LoopQuits
  <2>5. CASE LoopSynthesizes(t) \/ LoopRefused(t)
    <3>1. queue'[t] = Tail(queue[t]) /\ queue[t] # <<>> /\ pc'[t] \in {"synth", "error"}
      BY <1>0, <2>5 DEF LoopSynthesizes, LoopRefused, Fail, GoTo
    <3>. QED
      BY <1>0, <2>2, <3>1, TidyOpen
  <2>6. CASE LoopEnds(t)
    <3>1. /\ queue[t] # <<>> /\ Head(queue[t]) = EOF
          /\ queue'[t] = Tail(queue[t]) /\ pc'[t] = "done"
      BY <1>0, <2>6 DEF LoopEnds, GoTo
    <3>2. Emptied(t)' /\ EndsLast(queue'[t], promised'[t])
      BY <1>0, <2>2, <3>1 DEF Emptied
    <3>. QED
      BY <3>1, <3>2 DEF Tidy
  <2>. QED
    BY <2>3, <2>4, <2>5, <2>6 DEF Loop
<1>. QED
  BY <1>1, <1>2

\* A step of an emit task keeps every context tidy: it finishes after a done frame,
\* after an error frame, or without its client.
LEMMA EmitTidy ==
  ASSUME StreamInv, NEW t \in Tasks, Emit(t), NEW u \in Tasks, Tidy(u)
  PROVE  Tidy(u)'
<1>0. /\ TypeOK /\ StreamOf(t) /\ pc[t] \in Live
      /\ pc \in [Tasks -> {"none", "finished"} \cup Live]
      /\ queue \in [Tasks -> Seq(0..MaxChunks)]
      /\ UNCHANGED <<sessionVars, clientVars, dropped, link, promised>>
  BY EmitShape DEF StreamInv, SessionInv, TypeOK, sessionVars, clientVars
<1>1. CASE u # t
  <2>1. sent'[u] = sent[u]
    BY <1>0, <1>1, EmitLocal DEF TypeOK, ServiceTypeOK
  <2>2. pc'[u] = pc[u]
    BY <1>0, <1>1, EmitShape
  <2>3. queue'[u] = queue[u]
    BY <1>0, <1>1
    DEF Emit, EmitGet, EmitResult, EmitRaises, EmitShip, EmitLast, EmitSendRaises, ShipFrame,
        Loop, LoopParks, LoopQuits, LoopSynthesizes, LoopRefused, LoopEnds
  <2>4. FramesOf(u)' = FramesOf(u)
    BY <2>1 DEF FramesOf
  <2>. QED
    BY <1>0, <2>2, <2>3, <2>4, TidyUntouched
<1>2. CASE u = t
  <2>1. CASE Loop(t) /\ pc[t] \in {"get", "synth", "ship"}
    BY <1>0, <1>2, <2>1, LoopTidy
  <2>2. CASE UNCHANGED queue /\ pc'[t] \in {"ship", "error"}
    <3>1. queue'[t] = queue[t] /\ promised'[t] = promised[t] /\ dropped'[t] = dropped[t]
      BY <1>0, <2>2
    <3>2. dropped[t] \/ EndsLast(queue'[t], promised'[t])
      BY <1>2, <3>1 DEF Tidy
    <3>. QED
      BY <1>2, <2>2, <3>1, <3>2, TidyOpen DEF Tidy
  <2>3. CASE EmitLast(t) \/ EmitSendRaises(t)
    <3>1. UNCHANGED <<queue, sent>> /\ pc'[t] = "finished"
      BY <1>0, <2>3 DEF EmitLast, EmitSendRaises, Finish, GoTo
    <3>2. FramesOf(t)' = FramesOf(t)
      BY <3>1 DEF FramesOf
    <3>3. link[SessionOf[t]] # "down" => pc[t] \in {"done", "error"}
      BY <2>3 DEF EmitLast, EmitSendRaises
    <3>4. link[SessionOf[t]] # "down" /\ pc[t] = "error" => ErrorFrame \in FramesOf(t)
      BY <1>0 DEF StreamOf, Ended
    <3>5. ~dropped[t] => EndsLast(queue[t], promised[t]) /\ (pc[t] = "done" => Emptied(t))
      BY <1>2 DEF Tidy
    <3>6. Emptied(t)' <=> Emptied(t)
      BY <1>0, <3>1 DEF Emptied
    <3>7. ~dropped[t] => EndsLast(queue'[t], promised'[t])
      BY <1>0, <3>1, <3>5
    <3>. QED
      BY <1>0, <1>2, <3>1, <3>2, <3>3, <3>4, <3>5, <3>6, <3>7 DEF Tidy
  <2>4. \/ Loop(t) /\ pc[t] \in {"get", "synth", "ship"}
        \/ UNCHANGED queue /\ pc'[t] \in {"ship", "error"}
        \/ EmitLast(t) \/ EmitSendRaises(t)
    BY <1>0 DEF Emit, EmitGet, EmitResult, EmitRaises, EmitShip, ShipFrame, Fail, GoTo
  <2>. QED
    BY <2>1, <2>2, <2>3, <2>4
<1>. QED
  BY <1>1, <1>2

\* The client's text, while it has not ended, keeps every context tidy.
LEMMA TextTidy ==
  ASSUME StreamInv, NEW t \in Tasks, PushText(t) \/ FinalText(t) \/ FlushText(t),
         promised[t] = Unended, NEW u \in Tasks, Tidy(u)
  PROVE  Tidy(u)'
<1>0. /\ TypeOK /\ UNCHANGED <<link, sent, dropped>>
      /\ pc \in [Tasks -> {"none", "finished"} \cup Live]
      /\ FramesOf(u)' = FramesOf(u)
  <2>1. UNCHANGED <<link, sent, dropped>>
    BY DEF PushText, FinalText, FlushText, OnText
  <2>2. FramesOf(u)' = FramesOf(u)
    BY <2>1 DEF FramesOf
  <2>. QED
    BY <2>1, <2>2 DEF StreamInv, SessionInv, TypeOK
<1>1. UNCHANGED pc \/ (pc[t] = "none" /\ pc' = [pc EXCEPT ![t] = "get"])
  BY TextShape
<1>2. CASE u # t
  <2>1. queue'[u] = queue[u] /\ promised'[u] = promised[u]
    <3>1. \E n, e : Put(t, n, e)
      BY DEF PushText, FinalText, FlushText
    <3>2. UNCHANGED promised \/ End(t)
      BY DEF PushText, FinalText, FlushText
    <3>. QED
      BY <1>0, <1>2, <3>1, <3>2 DEF Put, End, TypeOK
  <2>2. pc'[u] = pc[u]
    BY <1>0, <1>1, <1>2
  <2>. QED
    BY <1>0, <2>1, <2>2, TidyUntouched
<1>3. CASE u = t /\ dropped[t]
  BY <1>0, <1>3 DEF Tidy
<1>4. CASE u = t /\ ~dropped[t]
  <2>1. EndsLast(queue'[t], promised'[t])
    BY <1>0, <1>4, EndsLastText DEF Tidy
  <2>2. pc'[t] # "done"
    BY <1>0, <1>1, <1>4 DEF Tidy, Emptied
  <2>3. pc'[t] = "finished" => pc[t] = "finished"
    BY <1>0, <1>1
  <2>4. pc'[t] = "finished" => link'[SessionOf[t]] = "down" \/ ErrorFrame \in FramesOf(t)'
    BY <1>0, <1>4, <2>3 DEF Tidy, Emptied
  <2>. QED
    BY <1>4, <2>1, <2>2, <2>4 DEF Tidy
<1>. QED
  BY <1>2, <1>3, <1>4

\* Every step of a sound client and of the server keeps every context tidy.
LEMMA TidyStep == DistinctIds /\ TidyInv /\ [SoundNext]_vars => TidyInv'
<1> SUFFICES ASSUME DistinctIds, TidyInv, [SoundNext]_vars, NEW u \in Tasks
             PROVE  Tidy(u)'
  BY SoundIsNext, StreamStep DEF TidyInv
<1>0. TypeOK /\ Closing /\ StreamInv /\ Tidy(u)
  BY DEF TidyInv, StreamInv, SessionInv
<1>1. ASSUME UNCHANGED <<pc, sent, promised, queue, dropped, link>>
      PROVE  Tidy(u)'
  <2>1. FramesOf(u)' = FramesOf(u)
    BY <1>1 DEF FramesOf
  <2>. QED
    BY <1>0, <1>1, <2>1, TidyUntouched
<1>2. ASSUME NEW s \in Sessions, Crash(s) \/ HangUp(s) \/ CloseJoined(s)
      PROVE  Tidy(u)'
  <2>1. PICK rest \in Seq(Tasks) : CloseRest(s, rest)
    BY <1>0, <1>2, CloseShape
  <2>2. UNCHANGED <<pc, sent, promised, link>>
    BY <2>1 DEF CloseRest, emitVars, clientVars
  <2>3. PICK T : CancelAll(T)
    BY <2>1 DEF CloseRest
  <2>4. (dropped[u] => dropped'[u]) /\ (~dropped'[u] => queue'[u] = queue[u])
    BY <2>3 DEF CancelAll, Wake
  <2>5. FramesOf(u)' = FramesOf(u)
    BY <2>2 DEF FramesOf
  <2>. QED
    BY <1>0, <2>2, <2>4, <2>5, TidyUntouched
<1>3. ASSUME NEW s \in Sessions,
             Connect(s) \/ Stall(s) \/ Disconnect(s) \/ BadFrame(s) \/ ReplyDone(s)
      PROVE  Tidy(u)'
  <2>1. UNCHANGED <<pc, sent, promised, queue, dropped>> /\ FramesOf(u)' = FramesOf(u)
    BY <1>3
    DEF Connect, Stall, Disconnect, BadFrame, ReplyDone, FramesOf, taskVars, emitVars, clientVars
  <2>2. CASE Connect(s) /\ SessionOf[u] = s
    <3>1. pc[u] = "none"
      BY <2>2 DEF Connect, TidyInv, StreamInv, Closed
    <3>2. queue'[u] = queue[u] /\ promised'[u] = promised[u] /\ dropped'[u] = dropped[u] /\ pc'[u] = pc[u]
      BY <2>1
    <3>3. dropped[u] \/ EndsLast(queue'[u], promised'[u])
      BY <1>0, <3>2 DEF Tidy
    <3>. QED
      BY <3>1, <3>2, <3>3 DEF Tidy
  <2>3. CASE ~(Connect(s) /\ SessionOf[u] = s)
    <3>1. link'[SessionOf[u]] # "down" => link[SessionOf[u]] # "down"
      BY <1>0, <1>3, <2>3, SessionAssumption
      DEF Connect, Stall, Disconnect, BadFrame, ReplyDone, TypeOK
    <3>. QED
      BY <1>0, <2>1, <3>1, TidyUntouched
  <2>. QED
    BY <2>2, <2>3
<1>4. ASSUME NEW s \in Sessions, CloseTimeout(s)
      PROVE  Tidy(u)'
  <2>1. PICK t \in Tasks : t = Head(contexts[s]) /\ Finish(t) /\ handler[s] = "close"
    BY <1>4 DEF CloseTimeout
  <2>2. dropped[t] /\ pc' = [pc EXCEPT ![t] = "finished"]
    BY <2>1 DEF TidyInv, StreamInv, Closed, Finish, GoTo
  <2>3. /\ UNCHANGED <<sent, promised, queue, dropped, link>>
        /\ FramesOf(u)' = FramesOf(u)
    BY <1>4 DEF CloseTimeout, FramesOf, clientVars, sessionVars
  <2>4. CASE u # t
    <3>1. pc'[u] = pc[u]
      BY <1>0, <2>2, <2>4 DEF TypeOK
    <3>. QED
      BY <1>0, <2>3, <3>1, TidyUntouched
  <2>5. CASE u = t
    BY <2>2, <2>3, <2>5 DEF Tidy
  <2>. QED
    BY <2>4, <2>5
<1>5. ASSUME NEW t \in Tasks, promised[t] = Unended, PushText(t) \/ FinalText(t) \/ FlushText(t)
      PROVE  Tidy(u)'
  BY <1>0, <1>5, TextTidy
<1>6. ASSUME NEW t \in Tasks, CancelFrame(t)
      PROVE  Tidy(u)'
  <2>1. UNCHANGED <<pc, sent, promised, link>> /\ FramesOf(u)' = FramesOf(u)
    BY <1>6 DEF CancelFrame, FramesOf, emitVars, clientVars, sessionVars
  <2>2. (dropped[u] => dropped'[u]) /\ (~dropped'[u] => queue'[u] = queue[u])
    BY <1>0, <1>6 DEF CancelFrame, DrainAndWake, TypeOK
  <2>. QED
    BY <1>0, <2>1, <2>2, TidyUntouched
<1>7. ASSUME NEW t \in Tasks, Emit(t)
      PROVE  Tidy(u)'
  BY <1>0, <1>7, EmitTidy
<1>8. ASSUME NEW t \in Tasks, PoolAnswers(t)
      PROVE  Tidy(u)'
  BY <1>1, <1>8 DEF PoolAnswers, sessionVars, taskVars, emitVars, clientVars
<1>9. ASSUME UNCHANGED vars
      PROVE  Tidy(u)'
  BY <1>1, <1>9 DEF vars, sessionVars, taskVars, emitVars, clientVars
<1>. QED
  BY <1>2, <1>3, <1>4, <1>5, <1>6, <1>7, <1>8, <1>9 DEF SoundNext, Close

\* With a client that sends no text after the end, a context that ends well has had
\* all of its text synthesized (_on_text, _emit_loop): no chunk is left behind.
THEOREM SoundStrandsNothing ==
  ASSUME DistinctIds
  PROVE  SoundSpec => []NoStrandedText
<1>1. Init => TidyInv
  BY StreamInit DEF TidyInv, Tidy, EndsLast, Init
<1>2. TidyInv /\ [SoundNext]_vars => TidyInv'
  BY TidyStep
<1>3. TidyInv => NoStrandedText
  BY DEF TidyInv, Tidy, Emptied, NoStrandedText
<1>. QED
  BY <1>1, <1>2, <1>3, PTL DEF SoundSpec
=============================================================================
