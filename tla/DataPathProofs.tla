--------------------------- MODULE DataPathProofs ---------------------------
(***************************************************************************)
(* Proofs about DataPath: for all sample rates, frame lengths and numbers  *)
(* of chunks, what decode() accepts, and the frames that are made of it.   *)
(*                                                                         *)
(* The sizes are quotients rounded up or down.  What is needed of them is  *)
(* stated once, as bounds on products.                                     *)
(***************************************************************************)
EXTENDS DataPath, Recursion, TLAPS

USE DataPathAssumption, FramingAssumption
-----------------------------------------------------------------------------
PCM == Seq(Samples)
Chunk == [length : 1..MaxSamples, signal : Seq(Amplitudes), frames : Nat]

\* The types, of the sequences themselves, too.
Typed ==
  /\ outputSr \in Rates \cup {NoContext}
  /\ emit \in {"none", "runs", "cancelled", "failed"}
  /\ waiting \in Nat
  /\ frames \in Seq(PCM) /\ sent \in Seq(PCM) /\ made \in Seq(Chunk)
  /\ Len(made) + waiting <= MaxChunks
  /\ received \in 0..MaxInputs
  /\ refused \in BOOLEAN

\* The context keeps the rate it was made with; without a context nothing happens.
FirstRate ==
  /\ asked = outputSr
  /\ outputSr = NoContext =>
       emit = "none" /\ frames = <<>> /\ sent = <<>> /\ made = <<>>

\* Of every frame, sent or not.
Framed ==
  \A f \in ToSet(frames) \cup ToSet(sent) :
    asked * FrameMs >= 1000 /\ Len(f) = (asked * FrameMs) \div 1000

\* A task fails between two chunks, when all frames of the first are sent.
FailsBetween == emit = "failed" => frames = <<>>

PathInv ==
  Typed /\ FirstRate /\ Framed /\ FailsBetween /\ PlaysAsLong /\ DocumentedAccepted
-----------------------------------------------------------------------------
(***************************************************************************)
(* Division.                                                               *)
(***************************************************************************)

\* A quotient and what is left of it.
LEMMA Quotient ==
  ASSUME NEW a \in Int, NEW b \in Nat \ {0}
  PROVE  /\ a \div b \in Int
         /\ b * (a \div b) <= a
         /\ a < b * (a \div b) + b
<1>1. a \div b \in Int /\ a % b \in 0..(b - 1) /\ a = b * (a \div b) + (a % b)
  OBVIOUS
<1>. QED
  BY <1>1

\* Two factors that are not negative.
LEMMA Products ==
  ASSUME NEW a \in Int, NEW b \in Int, NEW k \in Nat
  PROVE  /\ a <= b => k * a <= k * b
         /\ a < b /\ k > 0 => k * a < k * b
OBVIOUS

\* Rounding down keeps the order.
LEMMA QuotientGrows ==
  ASSUME NEW a \in Int, NEW b \in Int, NEW k \in Nat \ {0}, a <= b
  PROVE  a \div k <= b \div k
<1> DEFINE p == a \div k
           q == b \div k
<1>1. p \in Int /\ k * p <= a /\ q \in Int /\ b < k * q + k
  BY Quotient
<1>. HIDE DEF p, q
<1>2. ASSUME p > q
      PROVE  FALSE
  <2>1. k * (q + 1) <= k * p
    BY <1>1, <1>2, Products
  <2>2. k * (q + 1) = k * q + k
    BY <1>1
  <2>. QED
    BY <1>1, <2>1, <2>2
<1>. QED
  BY <1>1, <1>2 DEF p, q

\* A quotient of what is not negative is not negative.
LEMMA QuotientNat ==
  ASSUME NEW a \in Nat, NEW k \in Nat \ {0}
  PROVE  a \div k \in Nat
<1>1. 0 \div k = 0 /\ a \div k \in Int
  BY Quotient
<1>2. 0 \div k <= a \div k
  BY QuotientGrows
<1>. QED
  BY <1>1, <1>2

\* Rounding up.
LEMMA RoundedUp ==
  ASSUME NEW a \in Nat, NEW b \in Nat \ {0}
  PROVE  /\ CeilDiv(a, b) \in Nat
         /\ b * CeilDiv(a, b) >= a
         /\ b * CeilDiv(a, b) < a + b
<1>1. a + b - 1 \in Nat
  OBVIOUS
<1>2. CeilDiv(a, b) \in Nat
  BY <1>1, QuotientNat DEF CeilDiv
<1>3. /\ b * CeilDiv(a, b) <= a + b - 1
      /\ a + b - 1 < b * CeilDiv(a, b) + b
  BY <1>1, Quotient DEF CeilDiv
<1>4. b * CeilDiv(a, b) \in Int
  BY <1>2
<1>. QED
  BY <1>2, <1>3, <1>4

\* The quotient of a multiple.
LEMMA QuotientExact ==
  ASSUME NEW b \in Int, NEW k \in Nat \ {0}
  PROVE  (k * b) \div k = b
<1> DEFINE q == (k * b) \div k
<1>1. k * b \in Int
  OBVIOUS
<1>2. q \in Int /\ k * q <= k * b /\ k * b < k * q + k
  BY <1>1, Quotient
<1>. HIDE DEF q
<1>3. q > b => k * (q - b) >= k
  BY <1>2
<1>4. q < b => k * (b - q) >= k
  BY <1>2
<1>5. k * (q - b) = k * q - k * b /\ k * (b - q) = k * b - k * q
  BY <1>2
<1>6. ~(q > b) /\ ~(q < b)
  BY <1>2, <1>3, <1>4, <1>5
<1>. QED
  BY <1>2, <1>6 DEF q
-----------------------------------------------------------------------------
(***************************************************************************)
(* Samples.                                                                *)
(***************************************************************************)

\* np.clip() keeps within its bounds, and keeps the order.
LEMMA ClipKeepsOrder ==
  ASSUME NEW x \in Int, NEW y \in Int, x <= y
  PROVE  /\ Clipped(x) \in Int
         /\ Int16Min * Unit <= Clipped(x) /\ Clipped(x) <= Int16Max * Unit
         /\ Clipped(x) <= Clipped(y)
BY DEF Clipped, Int16Min, Int16Max

\* Rounding towards zero, as astype() does.
Truncated(x) == IF x >= 0 THEN x \div Unit ELSE -((-x) \div Unit)

\* It keeps the order.
LEMMA TruncationKeepsOrder ==
  ASSUME NEW x \in Int, NEW y \in Int, x <= y
  PROVE  Truncated(x) \in Int /\ Truncated(x) <= Truncated(y)
<1>1. ASSUME NEW z \in Int, z >= 0
      PROVE  z \div Unit \in Nat
  BY <1>1, QuotientNat
<1>2. CASE x >= 0
  <2>1. x \div Unit <= y \div Unit
    BY QuotientGrows
  <2>. QED
    BY <1>1, <1>2, <2>1 DEF Truncated
<1>3. CASE x < 0 /\ y >= 0
  <2>1. (-x) \div Unit \in Nat /\ y \div Unit \in Nat
    BY <1>1, <1>3
  <2>. QED
    BY <1>3, <2>1 DEF Truncated
<1>4. CASE y < 0
  <2>1. (-x) \div Unit \in Nat /\ (-y) \div Unit \in Nat
    BY <1>1, <1>4
  <2>2. (-y) \div Unit <= (-x) \div Unit
    <3>1. -x \in Int /\ -y \in Int /\ -y <= -x
      OBVIOUS
    <3>. QED
      BY <3>1, QuotientGrows
  <2>. QED
    BY <1>4, <2>1, <2>2 DEF Truncated
<1>. QED
  BY <1>2, <1>3, <1>4

\* The bounds of an int16 are kept as they are.
LEMMA TruncatedBounds ==
  Truncated(Int16Min * Unit) = Int16Min /\ Truncated(Int16Max * Unit) = Int16Max
<1>1. /\ (Unit * Int16Max) \div Unit = Int16Max
      /\ (Unit * (-Int16Min)) \div Unit = -Int16Min
  BY QuotientExact DEF Int16Max, Int16Min
<1>2. /\ Int16Max * Unit = Unit * Int16Max /\ Unit * Int16Max >= 0
      /\ -(Int16Min * Unit) = Unit * (-Int16Min) /\ Int16Min * Unit < 0
  BY DEF Int16Max, Int16Min
<1>. QED
  BY <1>1, <1>2 DEF Truncated, Int16Max, Int16Min

\* f32_to_int16() returns int16 samples, in the order of the amplitudes.
LEMMA SamplesKeepOrder ==
  ASSUME NEW a \in Int, NEW b \in Int, a <= b
  PROVE  F32ToInt16(a) \in Samples /\ F32ToInt16(a) <= F32ToInt16(b)
<1>1. a * Int16Max \in Int /\ b * Int16Max \in Int /\ a * Int16Max <= b * Int16Max
  BY DEF Int16Max
<1> DEFINE x == Clipped(a * Int16Max)
           y == Clipped(b * Int16Max)
<1>2. /\ x \in Int /\ y \in Int /\ x <= y
      /\ Int16Min * Unit <= x /\ x <= Int16Max * Unit
  BY <1>1, ClipKeepsOrder
<1>3. F32ToInt16(a) = Truncated(x) /\ F32ToInt16(b) = Truncated(y)
  BY DEF F32ToInt16, Truncated
<1>. HIDE DEF x, y
<1>4. Int16Min * Unit \in Int /\ Int16Max * Unit \in Int
  BY DEF Int16Min, Int16Max
<1>5. /\ Truncated(x) \in Int /\ Truncated(x) <= Truncated(y)
      /\ Truncated(Int16Min * Unit) <= Truncated(x)
      /\ Truncated(x) <= Truncated(Int16Max * Unit)
  BY <1>2, <1>4, TruncationKeepsOrder
<1>6. Int16Min <= Truncated(x) /\ Truncated(x) <= Int16Max
  BY <1>5, TruncatedBounds
<1>7. Int16Min \in Int /\ Int16Max \in Int
  BY DEF Int16Min, Int16Max
<1>. QED
  BY <1>3, <1>5, <1>6, <1>7 DEF Samples
-----------------------------------------------------------------------------
(***************************************************************************)
(* Frames.                                                                 *)
(***************************************************************************)

\* slice_into_frames() makes as many frames as it takes, all of the same length.
LEMMA SlicesFit ==
  ASSUME NEW pcm \in PCM, NEW s \in Nat \ {0}
  PROVE  /\ SliceIntoFrames(pcm, s) \in Seq(PCM)
         /\ Len(SliceIntoFrames(pcm, s)) = CeilDiv(Len(pcm), s)
         /\ \A f \in ToSet(SliceIntoFrames(pcm, s)) : Len(f) = s
<1> DEFINE n == CeilDiv(Len(pcm), s)
           new == SliceIntoFrames(pcm, s)
<1>0. pcm \in Seq(Samples) /\ Len(pcm) \in Nat
  BY DEF PCM
<1>1. n \in Nat
  BY <1>0, RoundedUp
<1>2. ASSUME NEW i \in 1..n
      PROVE  new[i] \in PCM /\ Len(new[i]) = s
  <2> DEFINE sample(j) ==
               LET k == (i - 1) * s + j IN IF k <= Len(pcm) THEN pcm[k] ELSE 0
  <2>1. new[i] = [j \in 1..s |-> sample(j)]
    BY DEF SliceIntoFrames, NFrames
  <2>2. ASSUME NEW j \in 1..s
        PROVE  sample(j) \in Samples
    <3>1. i - 1 \in Nat /\ (i - 1) * s \in Nat
      BY <1>1
    <3>2. (i - 1) * s + j \in Nat \ {0}
      BY <3>1
    <3>3. 0 \in Samples
      BY DEF Samples, Int16Min, Int16Max
    <3>. QED
      BY <1>0, <3>2, <3>3
  <2>. HIDE DEF sample
  <2>3. [j \in 1..s |-> sample(j)] \in Seq(Samples)
    BY <2>2
  <2>4. Len([j \in 1..s |-> sample(j)]) = s
    OBVIOUS
  <2>. QED
    BY <2>1, <2>3, <2>4 DEF PCM
<1>3. new = [i \in 1..n |-> new[i]]
  BY DEF SliceIntoFrames, NFrames
<1>. HIDE DEF new, n
<1>4. new \in Seq(PCM) /\ Len(new) = n
  BY <1>1, <1>2, <1>3
<1>5. \A f \in ToSet(new) : Len(f) = s
  BY <1>2, <1>4 DEF ToSet
<1>. QED
  BY <1>4, <1>5 DEF new, n

\* The first frame of those that wait, moved behind those that were sent, leaves
\* all in their order.
LEMMA Moved ==
  ASSUME NEW S, NEW p \in Seq(S), NEW q \in Seq(S), q # <<>>
  PROVE  Append(p, Head(q)) \o Tail(q) = p \o q
<1> DEFINE hd == <<Head(q)>>
           tl == Tail(q)
<1>1. Head(q) \in S /\ hd \in Seq(S) /\ tl \in Seq(S)
  BY HeadTailProperties
<1>2. Append(p, Head(q)) = p \o hd
  BY <1>1, AppendIsConcat
<1>3. hd \o tl = q
  <2>1. /\ hd \o tl \in Seq(S) /\ Len(hd) = 1 /\ hd[1] = Head(q)
        /\ Len(hd \o tl) = 1 + Len(tl)
        /\ \A i \in 1..1 : (hd \o tl)[i] = hd[i]
        /\ \A i \in 1..Len(tl) : (hd \o tl)[1 + i] = tl[i]
    BY <1>1, Prefix
  <2>2. /\ Len(tl) = Len(q) - 1 /\ Len(q) \in Nat \ {0} /\ q[1] = Head(q)
        /\ \A i \in 1..Len(tl) : tl[i] = q[i + 1]
    BY HeadTailProperties
  <2>. HIDE DEF hd, tl
  <2>3. ASSUME NEW i \in 1..Len(q)
        PROVE  (hd \o tl)[i] = q[i]
    <3>1. CASE i = 1
      BY <2>1, <2>2, <3>1
    <3>2. CASE i # 1
      <4>1. i - 1 \in 1..Len(tl) /\ 1 + (i - 1) = i /\ (i - 1) + 1 = i
        BY <2>2, <3>2
      <4>. QED
        BY <2>1, <2>2, <4>1
    <3>. QED
      BY <3>1, <3>2
  <2>4. Len(hd \o tl) = Len(q)
    BY <2>1, <2>2
  <2>. QED
    BY <2>1, <2>3, <2>4, SeqEqual
<1>. HIDE DEF hd, tl
<1>4. (p \o hd) \o tl = p \o (hd \o tl)
  BY ONLY <1>1, Regroup
<1>. QED
  BY <1>2, <1>3, <1>4 DEF tl

\* A sequence is a prefix of what grows out of it.
LEMMA PrefixOfMore ==
  ASSUME NEW S, NEW q \in Seq(S), NEW r \in Seq(S)
  PROVE  IsPrefix(q, q \o r)
<1> DEFINE t == q \o r
<1>1. /\ t \in Seq(S) /\ Len(q) \in Nat /\ Len(q) <= Len(t)
      /\ \A i \in 1..Len(q) : t[i] = q[i]
  BY Prefix
<1>. HIDE DEF t
<1>2. \A i \in 1..Len(q) : i \in 1..Len(t)
  BY <1>1, LenProperties
<1>3. SubSeq(t, 1, Len(q)) = [i \in 1..Len(q) |-> t[i]]
  BY <1>1
<1>4. SubSeq(q, 1, Len(q)) = [i \in 1..Len(q) |-> q[i]]
  BY <1>1
<1>. QED
  BY <1>1, <1>3, <1>4 DEF IsPrefix, t

\* The silence behind a signal is what is missing of its last frame.
LEMMA Silence ==
  ASSUME NEW pcm \in PCM, NEW s \in Nat \ {0}
  PROVE  LET m == s * CeilDiv(Len(pcm), s) - Len(pcm)
         IN  m \in Nat /\ Padded(pcm, s) = pcm \o [i \in 1..m |-> 0]
<1> DEFINE L == Len(pcm)
           n == CeilDiv(L, s)
           m == s * n - L
<1>1. L \in Nat
  BY DEF PCM
<1>2. n \in Nat /\ s * n \in Int /\ s * n >= L /\ s * n < L + s
  BY <1>1, RoundedUp
<1>. HIDE DEF L, n
<1>3. m \in 0..(s - 1) /\ L + m = s * n
  BY <1>1, <1>2
<1>4. (L + m) % s = 0
  <2>1. (s * n) \div s = n
    BY <1>2, QuotientExact
  <2>2. s * n = s * ((s * n) \div s) + ((s * n) % s) /\ (s * n) % s \in Int
    BY <1>2
  <2>. QED
    BY <1>2, <1>3, <2>1, <2>2
<1>5. ASSUME NEW k \in 0..(s - 1), (L + k) % s = 0
      PROVE  k = m
  <2> DEFINE q == (L + k) \div s
  <2>1. q \in Int /\ L + k = s * q
    BY <1>1, <1>5
  <2>. HIDE DEF q
  <2>2. q > n => s * (q - n) >= s
    BY <1>2, <2>1
  <2>3. q < n => s * (n - q) >= s
    BY <1>2, <2>1
  <2>4. s * (q - n) = s * q - s * n /\ s * (n - q) = s * n - s * q /\ s * q \in Int
    BY <1>2, <2>1
  <2>5. q = n
    BY <1>1, <1>2, <2>1, <2>2, <2>3, <2>4
  <2>. QED
    BY <1>1, <1>2, <2>1, <2>5
<1>. HIDE DEF m
<1>6. (CHOOSE k \in 0..(s - 1) : (L + k) % s = 0) = m
  BY <1>3, <1>4, <1>5
<1>7. Padded(pcm, s) = pcm \o [i \in 1..m |-> 0]
  <2>1. Padded(pcm, s)
          = pcm \o [i \in 1..(CHOOSE k \in 0..(s - 1) : (L + k) % s = 0) |-> 0]
    BY DEF Padded, L
  <2>. QED
    BY <1>6, <2>1
<1>8. m \in Nat
  BY <1>3
<1>. QED
  BY <1>7, <1>8 DEF L, m, n

\* The frames of a signal, one after the other, are the signal and the silence.
LEMMA SlicesFlatten ==
  ASSUME NEW pcm \in PCM, NEW s \in Nat \ {0}
  PROVE  /\ FlattenSeq(SliceIntoFrames(pcm, s)) = Padded(pcm, s)
         /\ Padded(pcm, s) \in PCM
<1> DEFINE L == Len(pcm)
           n == CeilDiv(L, s)
           new == SliceIntoFrames(pcm, s)
           sample(k) == IF k <= L THEN pcm[k] ELSE 0
           first(k) == [j \in 1..k |-> sample(j)]
           h == [i \in 0..n |-> first(i * s)]
<1>1. L \in Nat /\ pcm \in Seq(Samples)
  BY DEF PCM
<1>2. n \in Nat /\ s * n \in Int /\ s * n >= L
  <2>. HIDE DEF L, sample, first, h
  <2>1. n \in Nat /\ s * n >= L
    BY <1>1, RoundedUp
  <2>. QED
    BY <2>1
<1>3. new \in Seq(PCM) /\ Len(new) = n
  BY SlicesFit
<1>4. \A i \in 1..n : new[i] = [j \in 1..s |-> sample((i - 1) * s + j)]
  BY DEF SliceIntoFrames, NFrames
<1>5. ASSUME NEW k \in Nat \ {0}
      PROVE  sample(k) \in Samples
  <2>1. 0 \in Samples
    BY DEF Samples, Int16Min, Int16Max
  <2>. QED
    BY <1>1, <2>1
<1>. HIDE DEF L, n, new, sample
<1>6. ASSUME NEW k \in Nat
      PROVE  first(k) \in PCM /\ Len(first(k)) = k /\ \A j \in 1..k : first(k)[j] = sample(j)
  <2>1. \A j \in 1..k : sample(j) \in Samples
    BY <1>5
  <2>2. first(k) \in Seq(Samples)
    BY <2>1
  <2>. QED
    BY <2>2 DEF PCM
<1>. HIDE DEF first
<1>7. h[0] = <<>>
  <2>1. h[0] = first(0)
    BY <1>2
  <2>2. first(0) = <<>>
    BY <1>6, EmptySeq DEF PCM
  <2>. QED
    BY <2>1, <2>2
<1>8. \A i \in 0..n : i * s \in Nat /\ h[i] = first(i * s)
  BY <1>2
<1>9. h \in [0..n -> Seq(Samples)]
  BY <1>6, <1>8 DEF PCM
<1>10. ASSUME NEW i \in 1..n
       PROVE  h[i] = h[i - 1] \o new[i]
  <2> DEFINE d == (i - 1) * s
             p == first(d)
             q == new[i]
  <2>1. d \in Nat /\ i * s = d + s /\ i * s \in Nat /\ h[i - 1] = first(d) /\ h[i] = first(d + s)
    <3>1. i - 1 \in 0..n /\ i \in 0..n /\ i - 1 \in Nat
      BY <1>2
    <3>2. i * s = (i - 1) * s + s
      BY <3>1
    <3>. QED
      BY <1>8, <3>1, <3>2
  <2>2. p \in Seq(Samples) /\ Len(p) = d /\ \A j \in 1..d : p[j] = sample(j)
    BY <1>6, <2>1 DEF PCM
  <2>3. q \in Seq(Samples) /\ Len(q) = s /\ \A j \in 1..s : q[j] = sample(d + j)
    <3>1. q = [j \in 1..s |-> sample(d + j)]
      BY <1>4
    <3>2. \A j \in 1..s : sample(d + j) \in Samples
      BY <1>5, <2>1
    <3>. HIDE DEF d
    <3>3. q \in Seq(Samples)
      BY <3>1, <3>2
    <3>. QED
      BY <3>1, <3>3
  <2>. HIDE DEF d, p, q
  <2>4. /\ p \o q \in Seq(Samples) /\ Len(p \o q) = d + s
        /\ \A j \in 1..d : (p \o q)[j] = p[j]
        /\ \A j \in 1..s : (p \o q)[d + j] = q[j]
    <3>1. /\ p \o q \in Seq(Samples) /\ Len(p \o q) = Len(p) + Len(q)
          /\ \A j \in 1..Len(p) : (p \o q)[j] = p[j]
          /\ \A j \in 1..Len(q) : (p \o q)[Len(p) + j] = q[j]
      <4>1. p \in Seq(Samples) /\ q \in Seq(Samples)
        BY <2>2, <2>3
      <4>. QED
        BY ONLY <4>1, Prefix
    <3>. QED
      BY <2>2, <2>3, <3>1
  <2>5. ASSUME NEW j \in 1..(d + s)
        PROVE  (p \o q)[j] = sample(j)
    <3>1. CASE j <= d
      BY <2>1, <2>2, <2>4, <3>1
    <3>2. CASE j > d
      <4>1. j - d \in 1..s /\ d + (j - d) = j
        BY <2>1, <3>2
      <4>. QED
        BY <2>3, <2>4, <4>1
    <3>3. j <= d \/ j > d
      BY <2>1
    <3>. QED
      BY <3>1, <3>2, <3>3
  <2>6. d + s \in Nat
    BY <2>1
  <2>7. first(d + s) \in Seq(Samples) /\ Len(first(d + s)) = d + s
    BY <1>6, <2>6 DEF PCM
  <2>8. \A j \in 1..(d + s) : first(d + s)[j] = (p \o q)[j]
    BY <1>6, <2>5, <2>6
  <2>9. first(d + s) = p \o q
    BY <2>4, <2>7, <2>8, SeqEqual
  <2>. QED
    BY <2>1, <2>9 DEF p, q
<1>. HIDE DEF h
<1>11. FlattenSeq(new) = h[n]
  <2>1. new \in [1..n -> Seq(Samples)]
    BY <1>3, LenProperties DEF PCM
  <2>. QED
    BY ONLY <1>2, <1>7, <1>9, <1>10, <2>1, FlattenIs
<1>12. h[n] = first(s * n)
  BY <1>2, <1>8
<1>13. Padded(pcm, s) = first(s * n)
  <2> DEFINE m == s * n - L
             z == [i \in 1..m |-> 0]
  <2>1. m \in Nat /\ Padded(pcm, s) = pcm \o z
    BY Silence DEF L, n
  <2>2. L + m = s * n /\ s * n \in Nat
    BY <1>1, <1>2
  <2>3. z \in Seq(Samples) /\ Len(z) = m /\ \A i \in 1..m : z[i] = 0
    <3>1. 0 \in Samples
      BY DEF Samples, Int16Min, Int16Max
    <3>. HIDE DEF m
    <3>. QED
      BY <2>1, <3>1
  <2>. HIDE DEF m, z
  <2>4. /\ pcm \o z \in Seq(Samples) /\ Len(pcm \o z) = L + m
        /\ \A j \in 1..L : (pcm \o z)[j] = pcm[j]
        /\ \A j \in 1..m : (pcm \o z)[L + j] = z[j]
    <3>1. /\ pcm \o z \in Seq(Samples) /\ Len(pcm \o z) = Len(pcm) + Len(z)
          /\ \A j \in 1..Len(pcm) : (pcm \o z)[j] = pcm[j]
          /\ \A j \in 1..Len(z) : (pcm \o z)[Len(pcm) + j] = z[j]
      <4>1. pcm \in Seq(Samples) /\ z \in Seq(Samples)
        BY <1>1, <2>3
      <4>. QED
        BY ONLY <4>1, Prefix
    <3>. QED
      BY <2>3, <3>1 DEF L
  <2>5. ASSUME NEW j \in 1..(s * n)
        PROVE  (pcm \o z)[j] = sample(j)
    <3>1. CASE j <= L
      <4>1. j \in 1..L
        BY <1>1, <2>2, <3>1
      <4>. QED
        BY <2>4, <3>1, <4>1 DEF sample
    <3>2. CASE j > L
      <4>1. j - L \in 1..m /\ L + (j - L) = j
        BY <1>1, <2>1, <2>2, <3>2
      <4>. QED
        BY <1>1, <2>3, <2>4, <3>2, <4>1 DEF sample
    <3>3. j <= L \/ j > L
      BY <1>1, <2>2
    <3>. QED
      BY <3>1, <3>2, <3>3
  <2>6. /\ first(s * n) \in Seq(Samples) /\ Len(first(s * n)) = s * n
        /\ \A j \in 1..(s * n) : first(s * n)[j] = sample(j)
    BY <1>6, <2>2 DEF PCM
  <2>7. pcm \o z = first(s * n)
    BY <2>2, <2>4, <2>5, <2>6, SeqEqual
  <2>. QED
    BY <2>1, <2>7
<1>14. first(s * n) \in PCM
  BY <1>1, <1>2, <1>6
<1>. QED
  BY <1>11, <1>12, <1>13, <1>14 DEF new

\* The frames of a chunk last at least as long as the n samples of the model, and
\* less than one frame longer.
LEMMA ChunkLasts ==
  ASSUME NEW n \in Nat \ {0}, NEW rate \in Nat \ {0}, NEW s \in Nat \ {0},
         NEW m \in Nat, m = Resampled(n, NativeRate, rate)
  PROVE  /\ CeilDiv(m, s) * s * NativeRate >= n * rate
         /\ CeilDiv(m, s) * s * NativeRate < n * rate + s * NativeRate
<1> DEFINE k == CeilDiv(m, s)
<1>1. k \in Nat /\ s * k >= m /\ s * k < m + s
  BY RoundedUp
<1>2. NativeRate * m >= n * rate /\ NativeRate * m < n * rate + NativeRate
  <2>1. CASE NativeRate = rate
    BY <2>1 DEF Resampled
  <2>2. CASE NativeRate # rate
    <3>1. n * rate \in Nat
      OBVIOUS
    <3>. QED
      BY <2>2, <3>1, RoundedUp DEF Resampled
  <2>. QED
    BY <2>1, <2>2
<1>. HIDE DEF k
<1>3. NativeRate * m <= NativeRate * (s * k)
  <2>1. s * k \in Nat
    BY <1>1
  <2>. QED
    BY <1>1, <2>1, Products
<1>4. NativeRate * (s * k) <= NativeRate * (m + s - 1)
  <2>1. s * k \in Nat /\ m + s - 1 \in Int /\ s * k <= m + s - 1
    BY <1>1
  <2>. QED
    BY <2>1, Products
<1>5. NativeRate * (m + s - 1) = NativeRate * m + s * NativeRate - NativeRate
  OBVIOUS
<1>6. NativeRate * (s * k) = k * s * NativeRate
  BY <1>1
<1>7. /\ NativeRate * m \in Int /\ k * s * NativeRate \in Int /\ n * rate \in Int
      /\ s * NativeRate \in Int
  BY <1>1
<1>8. /\ k * s * NativeRate >= n * rate
      /\ k * s * NativeRate < n * rate + s * NativeRate
  BY <1>2, <1>3, <1>4, <1>5, <1>6, <1>7
<1>. QED
  BY <1>8 DEF k
-----------------------------------------------------------------------------
(***************************************************************************)
(* Messages.                                                               *)
(***************************************************************************)

\* A text message carries a positive rate.
LEMMA TextHasRate ==
  ASSUME NEW f \in Inputs, Decode(f).type = "text"
  PROVE  Decode(f).rate \in Rates
<1>1. f \in WireFrame(Rates)
  OBVIOUS
<1>2. Decode(f) = DecodeText(f)
  BY DEF Decode, ParseError
<1> DEFINE failing == {i \in DOMAIN Tests : f.kind[Tests[i][1]] \notin Tests[i][2]}
<1>3. failing = {} /\ Decode(f).rate = RateOf(f)
  <2> DEFINE first == Tests[Min(failing)][1]
             flush == f.kind["transcript"] = "empty string" /\ f.kind["continue"] = "false"
  <2>1. DecodeText(f) = IF failing # {} THEN ParseError(first)
                        ELSE [type |-> "text", rate |-> RateOf(f), flush |-> flush]
    BY DEF DecodeText
  <2>. HIDE DEF failing, first, flush
  <2>. QED
    BY <1>2, <2>1 DEF ParseError
<1>4. 10 \in DOMAIN Tests /\ Tests[10] = <<"sample_rate", PositiveInt>>
  BY DEF Tests
<1>5. f.kind["sample_rate"] \in PositiveInt
  BY <1>3, <1>4
<1>6. f.kind["sample_rate"] = "positive"
  BY <1>5 DEF PositiveInt, Ints, Booleans
<1>. QED
  BY <1>1, <1>3, <1>6 DEF RateOf, WireFrame

\* What the docstring of wire.py lists passes all tests.
LEMMA DocumentedParses ==
  ASSUME NEW f \in Documented
  PROVE  Decode(f).type # "error"
<1>1. f.json = "object" /\ (IsText(f) \/ IsCancel(f))
  OBVIOUS
<1>2. CASE IsCancel(f)
  BY <1>1, <1>2 DEF Decode, IsCancel
<1>3. CASE IsText(f)
  <2>1. DOMAIN Tests = 1..16
    BY DEF Tests
  <2>2. \A i \in 1..16 : f.kind[Tests[i][1]] \in Tests[i][2]
    <3>1. /\ f.kind[Tests[1][1]] \in Tests[1][2]
          /\ f.kind[Tests[2][1]] \in Tests[2][2]
          /\ f.kind[Tests[3][1]] \in Tests[3][2]
          /\ f.kind[Tests[4][1]] \in Tests[4][2]
          /\ f.kind[Tests[5][1]] \in Tests[5][2]
          /\ f.kind[Tests[6][1]] \in Tests[6][2]
          /\ f.kind[Tests[7][1]] \in Tests[7][2]
          /\ f.kind[Tests[8][1]] \in Tests[8][2]
      BY <1>3 DEF Tests, IsText, Strings, Booleans
    <3>2. /\ f.kind[Tests[9][1]] \in Tests[9][2]
          /\ f.kind[Tests[10][1]] \in Tests[10][2]
          /\ f.kind[Tests[11][1]] \in Tests[11][2]
          /\ f.kind[Tests[12][1]] \in Tests[12][2]
          /\ f.kind[Tests[13][1]] \in Tests[13][2]
          /\ f.kind[Tests[14][1]] \in Tests[14][2]
          /\ f.kind[Tests[15][1]] \in Tests[15][2]
          /\ f.kind[Tests[16][1]] \in Tests[16][2]
      BY <1>3
      DEF Tests, IsText, Strings, Booleans, Ints, PositiveInt, Optional, Absent
    <3>. QED
      BY <3>1, <3>2
  <2>3. {i \in DOMAIN Tests : f.kind[Tests[i][1]] \notin Tests[i][2]} = {}
    BY <2>1, <2>2
  <2>4. f.kind["cancel"] = "missing"
    BY <1>3 DEF IsText
  <2>. QED
    BY <1>1, <2>3, <2>4 DEF Decode, DecodeText
<1>. QED
  BY <1>1, <1>2, <1>3
-----------------------------------------------------------------------------
(***************************************************************************)
(* The steps.                                                              *)
(***************************************************************************)

\* What is in a sequence after an append, and after its head is taken.
LEMMA Ends ==
  ASSUME NEW S, NEW q \in Seq(S)
  PROVE  /\ \A e \in S : /\ Append(q, e) \in Seq(S)
                         /\ Len(Append(q, e)) = Len(q) + 1
                         /\ ToSet(Append(q, e)) = ToSet(q) \cup {e}
         /\ q # <<>> => /\ Head(q) \in S /\ Tail(q) \in Seq(S)
                        /\ Head(q) \in ToSet(q)
                        /\ ToSet(Tail(q)) \subseteq ToSet(q)
<1>1. ASSUME NEW e \in S
      PROVE  ToSet(Append(q, e)) = ToSet(q) \cup {e}
  <2>1. DOMAIN Append(q, e) = 1..(Len(q) + 1) /\ DOMAIN q = 1..Len(q)
    OBVIOUS
  <2>2. Append(q, e)[Len(q) + 1] = e /\ \A i \in 1..Len(q) : Append(q, e)[i] = q[i]
    OBVIOUS
  <2>3. Len(q) \in Nat
    OBVIOUS
  <2>. QED
    BY <2>1, <2>2, <2>3 DEF ToSet
<1>2. ASSUME q # <<>>
      PROVE  Head(q) \in ToSet(q) /\ ToSet(Tail(q)) \subseteq ToSet(q)
  <2>1. 1 \in DOMAIN q /\ Head(q) = q[1]
    BY <1>2
  <2>2. \A i \in DOMAIN Tail(q) : i + 1 \in DOMAIN q /\ Tail(q)[i] = q[i + 1]
    BY <1>2
  <2>. QED
    BY <2>1, <2>2 DEF ToSet
<1>3. q # <<>> => Head(q) \in S /\ Tail(q) \in Seq(S)
  OBVIOUS
<1>. QED
  BY <1>1, <1>2, <1>3

\* What is in the set of a sequence is one of its elements.
LEMMA InSet ==
  ASSUME NEW S, NEW q \in Seq(S), NEW e \in ToSet(q)
  PROVE  e \in S
<1>1. \A i \in DOMAIN q : q[i] \in S
  OBVIOUS
<1>. QED
  BY <1>1 DEF ToSet

\* The initial states.
LEMMA InvInit == Init => PathInv
<1> SUFFICES ASSUME Init
             PROVE  PathInv
  OBVIOUS
<1>1. ToSet(frames) = {} /\ ToSet(sent) = {} /\ ToSet(made) = {}
  BY DEF Init, ToSet
<1>2. Typed
  <2>1. frames \in Seq(PCM) /\ sent \in Seq(PCM) /\ made \in Seq(Chunk) /\ Len(made) = 0
    BY DEF Init
  <2>2. Len(made) + waiting <= MaxChunks
    BY <2>1 DEF Init
  <2>3. /\ outputSr \in Rates \cup {NoContext} /\ waiting \in Nat
        /\ emit \in {"none", "runs", "cancelled", "failed"}
        /\ received \in 0..MaxInputs
    BY DEF Init
  <2>4. refused \in BOOLEAN
    BY DEF Init
  <2>. QED
    BY <2>1, <2>2, <2>3, <2>4 DEF Typed
<1>3. FirstRate /\ FailsBetween /\ DocumentedAccepted
  BY DEF Init, FirstRate, FailsBetween, DocumentedAccepted
<1>4. Framed /\ PlaysAsLong
  BY <1>1 DEF Framed, PlaysAsLong
<1>. QED
  BY <1>2, <1>3, <1>4 DEF PathInv

\* The receive loop.
LEMMA ReceiveStep ==
  ASSUME PathInv, NEW f \in Inputs, Receive(f)
  PROVE  PathInv'
<1> DEFINE msg == Decode(f)
<1>1. /\ sent' = sent /\ made' = made /\ received < MaxInputs /\ received' = received + 1
      /\ refused' = (refused \/ (f \in Documented /\ msg.type = "error"))
  BY DEF Receive
<1>2. received' \in 0..MaxInputs /\ refused' = FALSE
  BY <1>1, DocumentedParses DEF PathInv, Typed, DocumentedAccepted
<1>3. ASSUME msg.type = "text", Text(msg)
      PROVE  PathInv'
  <2>1. msg.rate \in Rates /\ msg.rate # NoContext
    BY <1>3, TextHasRate DEF NoContext
  <2>2. PICK n \in {0, 1} : Len(made) + waiting + n <= MaxChunks /\ waiting' = waiting + n
    BY <1>3 DEF Text
  <2>. HIDE DEF msg
  <2>3. /\ outputSr' = IF outputSr = NoContext THEN msg.rate ELSE outputSr
        /\ asked' = IF asked = NoContext THEN msg.rate ELSE asked
        /\ emit' = IF emit = "none" THEN "runs" ELSE emit
        /\ frames' = frames
    BY <1>3 DEF Text, ContextRate
  <2>4. Typed'
    <3>1. outputSr' \in Rates \cup {NoContext}
      BY <2>1, <2>3 DEF PathInv, Typed
    <3>2. waiting' \in Nat /\ Len(made) + waiting' <= MaxChunks
      BY <2>2 DEF PathInv, Typed
    <3>. QED
      BY <1>1, <1>2, <2>3, <3>1, <3>2 DEF PathInv, Typed
  <2>5. FirstRate'
    BY <2>1, <2>3 DEF PathInv, FirstRate
  <2>6. CASE outputSr = NoContext
    <3>1. frames = <<>> /\ sent = <<>> /\ made = <<>> /\ emit = "none"
      BY <2>6 DEF PathInv, FirstRate
    <3>2. ToSet(frames') = {} /\ ToSet(sent') = {} /\ ToSet(made') = {}
      BY <1>1, <2>3, <3>1 DEF ToSet
    <3>. QED
      BY <1>2, <2>3, <2>4, <2>5, <3>1, <3>2
      DEF PathInv, Framed, FailsBetween, PlaysAsLong, DocumentedAccepted
  <2>7. CASE outputSr # NoContext
    <3>1. asked' = asked
      BY <2>3, <2>7 DEF PathInv, FirstRate
    <3>2. emit' = "failed" => emit = "failed"
      BY <2>3
    <3>. QED
      BY <1>1, <1>2, <2>3, <2>4, <2>5, <3>1, <3>2
      DEF PathInv, Framed, FailsBetween, PlaysAsLong, DocumentedAccepted
  <2>. QED
    BY <2>6, <2>7
<1>4. ASSUME Cancel
      PROVE  PathInv'
  <2>1. /\ emit' = IF emit = "runs" THEN "cancelled" ELSE emit
        /\ waiting' = 0 /\ frames' = <<>> /\ outputSr' = outputSr /\ asked' = asked
    BY <1>4 DEF Cancel
  <2>2. ToSet(frames') = {} /\ frames' \in Seq(PCM)
    BY <2>1 DEF ToSet
  <2>3. Len(made) <= MaxChunks
    BY DEF PathInv, Typed
  <2>. QED
    BY <1>1, <1>2, <2>1, <2>2, <2>3
    DEF PathInv, Typed, FirstRate, Framed, FailsBetween, PlaysAsLong, DocumentedAccepted
<1>5. ASSUME UNCHANGED <<outputSr, emit, waiting, frames, asked>>
      PROVE  PathInv'
  BY <1>1, <1>2, <1>5
  DEF PathInv, Typed, FirstRate, Framed, FailsBetween, PlaysAsLong, DocumentedAccepted
<1>. QED
  BY <1>3, <1>4, <1>5 DEF Receive

\* The samples of a chunk, resampled.
LEMMA SignalShape ==
  ASSUME outputSr \in Rates, NEW n \in 1..MaxSamples, NEW wav \in [1..n -> Amplitudes],
         NEW signal \in Signals(wav)
  PROVE  /\ Len(wav) = n /\ n \in Nat \ {0}
         /\ signal \in Seq(Amplitudes)
         /\ Len(signal) = Resampled(n, NativeRate, outputSr)
         /\ Resampled(n, NativeRate, outputSr) \in Nat
<1>1. n \in Nat \ {0} /\ wav \in Seq(Amplitudes) /\ Len(wav) = n
  OBVIOUS
<1>2. CASE outputSr = NativeRate
  BY <1>1, <1>2 DEF Signals, Resampled
<1>3. CASE outputSr # NativeRate
  <2>1. n * outputSr \in Nat
    BY <1>1
  <2>2. CeilDiv(n * outputSr, NativeRate) \in Nat
    BY <2>1, RoundedUp
  <2> DEFINE m == Resampled(n, NativeRate, outputSr)
  <2>3. m \in Nat
    BY <1>3, <2>2 DEF Resampled
  <2>4. signal \in [1..m -> Amplitudes]
    BY <1>1, <1>3 DEF Signals
  <2>. HIDE DEF m
  <2>5. signal \in Seq(Amplitudes) /\ Len(signal) = m
    BY <2>3, <2>4
  <2>. QED
    BY <1>1, <2>3, <2>5 DEF m
<1>. QED
  BY <1>2, <1>3

\* An amplitude becomes an int16.
LEMMA SampleOf ==
  ASSUME NEW a \in Amplitudes
  PROVE  F32ToInt16(a) \in Samples
<1>1. a \in Int /\ a <= a
  OBVIOUS
<1>. QED
  BY <1>1, SamplesKeepOrder

\* A chunk goes through pipeline().
LEMMA ShipStep ==
  ASSUME PathInv, NEW n \in 1..MaxSamples, NEW wav \in [1..n -> Amplitudes],
         NEW signal \in Signals(wav), Ship(wav, signal)
  PROVE  PathInv'
<1> DEFINE s == SamplesPerFrame(outputSr)
           pcm == [i \in 1..Len(signal) |-> F32ToInt16(signal[i])]
           new == SliceIntoFrames(pcm, s)
           chunk == [length |-> Len(wav), signal |-> signal, frames |-> Len(new)]
<1>1. outputSr \in Rates /\ outputSr # NoContext /\ asked = outputSr
  BY DEF Ship, Starts, PathInv, Typed, FirstRate
<1>2. s \in Nat \ {0} /\ s = (asked * FrameMs) \div 1000
  <2>1. outputSr * FrameMs \in Nat
    BY <1>1
  <2>2. (outputSr * FrameMs) \div 1000 \in Nat
    BY <2>1, QuotientNat
  <2>. QED
    BY <1>1, <2>2 DEF Ship, SamplesPerFrame
<1>3. asked * FrameMs >= 1000
  <2>1. asked * FrameMs \in Nat
    BY <1>1
  <2>2. 1000 * s <= asked * FrameMs
    BY <1>2, <2>1, Quotient
  <2>. QED
    BY <1>2, <2>1, <2>2
<1>4. /\ n \in Nat \ {0} /\ Len(wav) = n
      /\ signal \in Seq(Amplitudes) /\ Len(signal) \in Nat
      /\ Len(signal) = Resampled(n, NativeRate, outputSr)
  BY <1>1, SignalShape
<1>5. pcm \in PCM /\ Len(pcm) = Len(signal)
  <2>1. \A i \in 1..Len(signal) : F32ToInt16(signal[i]) \in Samples
    <3>1. \A i \in 1..Len(signal) : signal[i] \in Amplitudes
      BY <1>4
    <3>. QED
      BY <3>1, SampleOf
  <2>. QED
    BY <1>4, <2>1 DEF PCM
<1>6. /\ waiting' = waiting - 1 /\ waiting > 0 /\ emit # "failed"
      /\ frames' = new
      /\ made' = Append(made, chunk)
      /\ UNCHANGED <<outputSr, emit, sent, asked, received, refused>>
  BY DEF Ship, Starts
<1>. HIDE DEF s, pcm
<1>7. /\ new \in Seq(PCM)
      /\ Len(new) = CeilDiv(Len(pcm), s) /\ Len(new) \in Nat
      /\ \A f \in ToSet(new) : Len(f) = s
  BY <1>2, <1>5, SlicesFit
<1>. HIDE DEF new
<1>8. chunk \in Chunk
  BY <1>4, <1>7 DEF Chunk
<1>9. /\ chunk.frames * s * NativeRate >= chunk.length * asked
      /\ chunk.frames * s * NativeRate < chunk.length * asked + s * NativeRate
  BY <1>1, <1>2, <1>4, <1>5, <1>7, ChunkLasts
<1>. HIDE DEF chunk
<1>10. /\ made' \in Seq(Chunk) /\ Len(made') = Len(made) + 1
       /\ ToSet(made') = ToSet(made) \cup {chunk}
  <2>1. made \in Seq(Chunk)
    BY DEF PathInv, Typed
  <2>. QED
    BY <1>6, <1>8, <2>1, Ends
<1>11. Typed'
  BY <1>6, <1>7, <1>10 DEF PathInv, Typed
<1>12. Framed'
  BY <1>2, <1>3, <1>6, <1>7 DEF PathInv, Framed
<1>13. PlaysAsLong'
  BY <1>2, <1>6, <1>9, <1>10 DEF PathInv, PlaysAsLong
<1>14. FirstRate' /\ FailsBetween' /\ DocumentedAccepted'
  BY <1>1, <1>6 DEF PathInv, FirstRate, FailsBetween, DocumentedAccepted
<1>. QED
  BY <1>11, <1>12, <1>13, <1>14 DEF PathInv

\* pipeline() raises.
LEMMA RaisesStep ==
  ASSUME PathInv, ShipRaises
  PROVE  PathInv'
<1>1. /\ outputSr # NoContext /\ frames = <<>> /\ emit' = "failed"
      /\ UNCHANGED <<outputSr, waiting, frames, sent, asked, made, received, refused>>
  BY DEF ShipRaises, Starts, PathInv, FirstRate
<1>. QED
  BY <1>1
  DEF PathInv, Typed, FirstRate, Framed, FailsBetween, PlaysAsLong, DocumentedAccepted

\* A frame is sent.
LEMMA SendStep ==
  ASSUME PathInv, SendFrame
  PROVE  PathInv'
<1>1. /\ frames \in Seq(PCM) /\ sent \in Seq(PCM) /\ frames # <<>>
      /\ sent' = Append(sent, Head(frames)) /\ frames' = Tail(frames)
      /\ UNCHANGED <<outputSr, emit, waiting, asked, made, received, refused>>
  BY DEF SendFrame, PathInv, Typed
<1>2. /\ Head(frames) \in PCM /\ frames' \in Seq(PCM)
      /\ Head(frames) \in ToSet(frames) /\ ToSet(frames') \subseteq ToSet(frames)
  BY <1>1, Ends
<1>3. sent' \in Seq(PCM) /\ ToSet(sent') = ToSet(sent) \cup {Head(frames)}
  BY <1>1, <1>2, Ends
<1>4. Typed' /\ FirstRate'
  BY <1>1, <1>2, <1>3 DEF PathInv, Typed, FirstRate
<1>5. Framed'
  BY <1>1, <1>2, <1>3 DEF PathInv, Framed
<1>. QED
  BY <1>1, <1>4, <1>5 DEF PathInv, FailsBetween, PlaysAsLong, DocumentedAccepted

\* Every step keeps the invariant.
LEMMA InvStep == PathInv /\ [Next]_vars => PathInv'
<1> SUFFICES ASSUME PathInv, [Next]_vars
             PROVE  PathInv'
  OBVIOUS
<1>1. UNCHANGED vars => PathInv'
  BY DEF vars, PathInv, Typed, FirstRate, Framed, FailsBetween, PlaysAsLong, DocumentedAccepted
<1>. QED
  BY <1>1, ReceiveStep, ShipStep, RaisesStep, SendStep DEF Next, Spent

\* It holds in every behaviour.
LEMMA Invariant == Spec => []PathInv
BY InvInit, InvStep, PTL DEF Spec
-----------------------------------------------------------------------------
\* The attributes of the context and the frames have their types; every sample of
\* every frame is an int16 (f32_to_int16, slice_into_frames).
THEOREM PathTyped == Spec => []TypeOK
<1>1. ASSUME PathInv
      PROVE  TypeOK
  <2>1. /\ frames \in Seq(PCM) /\ sent \in Seq(PCM) /\ made \in Seq(Chunk)
        /\ Len(made) + waiting <= MaxChunks /\ waiting \in Nat /\ Len(made) \in Nat
    BY <1>1 DEF PathInv, Typed
  <2>2. \A f \in ToSet(frames) \cup ToSet(sent) : f \in Seq(Samples)
    BY <2>1 DEF ToSet, PCM
  <2>3. \A c \in ToSet(made) : c.signal \in Seq(Amplitudes)
    <3>1. \A c \in ToSet(made) : c \in Chunk
      BY <2>1, InSet
    <3>. QED
      BY <3>1 DEF Chunk
  <2>4. waiting \in 0..MaxChunks /\ Len(made) <= MaxChunks
    BY <2>1
  <2>. QED
    BY <1>1, <2>2, <2>3, <2>4 DEF PathInv, Typed, FirstRate, TypeOK
<1>. QED
  BY <1>1, Invariant, PTL

\* Every frame the docstring of wire.py lists is understood, whatever else was
\* received before it (decode).
THEOREM DocumentedUnderstood == Spec => []DocumentedAccepted
<1>1. PathInv => DocumentedAccepted
  BY DEF PathInv
<1>. QED
  BY <1>1, Invariant, PTL

\* For every frame length and all rates: the audio of a context is framed for the
\* rate of its first text frame (_on_text, _make_context, _ship).
THEOREM RateIsKept == Spec => []OneRate
<1>1. PathInv => OneRate
  BY DEF PathInv, Framed, OneRate
<1>. QED
  BY <1>1, Invariant, PTL

\* For all rates of the model and the client, the frames of a chunk last as long as
\* its audio, and less than one frame longer (resample, slice_into_frames).
THEOREM AudioLasts == Spec => []PlaysAsLong
<1>1. PathInv => PlaysAsLong
  BY DEF PathInv
<1>. QED
  BY <1>1, Invariant, PTL

\* For every full scale, clipping and rounding keep the order of the amplitudes, on
\* both sides of zero (f32_to_int16).
THEOREM NothingWraps == Spec => []NoWrap
<1>1. ASSUME PathInv
      PROVE  NoWrap
  <2>1. \A c \in ToSet(made) : ToSet(c.signal) \subseteq Int
    <3> SUFFICES ASSUME NEW c \in ToSet(made), NEW a \in ToSet(c.signal)
                 PROVE  a \in Int
      OBVIOUS
    <3>1. made \in Seq(Chunk)
      BY <1>1 DEF PathInv, Typed
    <3>2. c.signal \in Seq(Amplitudes)
      <4>1. c \in Chunk
        BY <3>1, InSet
      <4>. QED
        BY <4>1 DEF Chunk
    <3>3. a \in Amplitudes
      BY <3>2, InSet
    <3>. QED
      BY <3>3
  <2>. QED
    BY <2>1, SamplesKeepOrder DEF NoWrap
<1>. QED
  BY <1>1, Invariant, PTL
-----------------------------------------------------------------------------
(***************************************************************************)
(* What is heard.                                                          *)
(***************************************************************************)

\* The samples of a chunk, and those of chunks made for a rate, each with the
\* silence that fills its last frame.
PcmOf(c) == [i \in 1..Len(c.signal) |-> F32ToInt16(c.signal[i])]

Blocks(chunks, rate) ==
  [k \in DOMAIN chunks |-> Padded(PcmOf(chunks[k]), (rate * FrameMs) \div 1000)]

\* The samples of the frames begin those of the chunks; unless the emit task was
\* cancelled nothing is missing.
Begin(played, chunks, rate, task) ==
  \E rest \in PCM :
    /\ FlattenSeq(Blocks(chunks, rate)) = FlattenSeq(played) \o rest
    /\ task \in {"runs", "failed"} => rest = <<>>

\* Before the emit task runs there is nothing.
NothingEarly == emit = "none" => frames = <<>> /\ sent = <<>> /\ made = <<>>

HeardInv ==
  /\ PathInv
  /\ NothingEarly
  /\ asked * FrameMs >= 1000 => Begin(sent \o frames, made, asked, emit)

\* Nothing is heard of nothing.
LEMMA Nothing ==
  ASSUME NEW rate, NEW task
  PROVE  Begin(<<>> \o <<>>, <<>>, rate, task)
<1>1. Blocks(<<>>, rate) = <<>>
  BY DEF Blocks
<1>2. <<>> \o <<>> = <<>>
  OBVIOUS
<1>3. FlattenSeq(<<>>) = <<>>
  BY DEF FlattenSeq
<1>4. <<>> \in PCM
  BY DEF PCM
<1>. QED
  BY <1>1, <1>2, <1>3, <1>4 DEF Begin

\* A frame has a sample, and the samples of a chunk are int16s.
LEMMA BlocksTyped ==
  ASSUME PathInv, asked * FrameMs >= 1000
  PROVE  /\ (asked * FrameMs) \div 1000 \in Nat \ {0}
         /\ \A c \in Chunk : PcmOf(c) \in PCM
         /\ Blocks(made, asked) \in Seq(PCM)
<1> DEFINE s == (asked * FrameMs) \div 1000
<1>1. asked \in Int
  BY DEF PathInv, Typed, FirstRate, NoContext
<1>2. s \in Nat \ {0}
  <2>1. asked * FrameMs \in Nat
    BY <1>1
  <2>2. s \in Int /\ asked * FrameMs < 1000 * s + 1000
    BY <2>1, Quotient
  <2>. QED
    BY <2>1, <2>2
<1>3. ASSUME NEW c \in Chunk
      PROVE  PcmOf(c) \in PCM
  <2>1. c.signal \in Seq(Amplitudes)
    BY DEF Chunk
  <2>2. \A i \in 1..Len(c.signal) : F32ToInt16(c.signal[i]) \in Samples
    <3>1. \A i \in 1..Len(c.signal) : c.signal[i] \in Amplitudes
      BY <2>1
    <3>. QED
      BY <3>1, SampleOf
  <2>3. Len(c.signal) \in Nat
    BY <2>1
  <2>. QED
    BY <2>2, <2>3 DEF PcmOf, PCM
<1>. HIDE DEF s
<1>4. Blocks(made, asked) \in Seq(PCM)
  <2>1. made \in Seq(Chunk)
    BY DEF PathInv, Typed
  <2>2. DOMAIN made = 1..Len(made) /\ Len(made) \in Nat
    BY <2>1
  <2>3. \A k \in 1..Len(made) : Padded(PcmOf(made[k]), s) \in PCM
    BY <1>2, <1>3, <2>1, SlicesFlatten
  <2>4. Blocks(made, asked) = [k \in 1..Len(made) |-> Padded(PcmOf(made[k]), s)]
    BY <2>2 DEF Blocks, s
  <2>. QED
    BY <2>2, <2>3, <2>4
<1>. QED
  BY <1>2, <1>3, <1>4 DEF s

\* A frame that is received only takes away what is not sent.
LEMMA ReceiveHeard ==
  ASSUME HeardInv, PathInv', NEW f \in Inputs, Receive(f)
  PROVE  HeardInv'
<1> DEFINE msg == Decode(f)
<1>1. sent' = sent /\ made' = made /\ PathInv
  BY DEF Receive, HeardInv
<1>. HIDE DEF msg
<1>2. ASSUME Text(msg)
      PROVE  HeardInv'
  <2>1. /\ asked' = IF asked = NoContext THEN msg.rate ELSE asked
        /\ emit' = IF emit = "none" THEN "runs" ELSE emit
        /\ frames' = frames
    BY <1>2 DEF Text
  <2>2. CASE emit = "none"
    <3>1. frames' = <<>> /\ sent' = <<>> /\ made' = <<>> /\ emit' = "runs"
      BY <1>1, <2>1, <2>2 DEF HeardInv, NothingEarly
    <3>2. Begin(sent' \o frames', made', asked', emit')
      BY <3>1, Nothing
    <3>. QED
      BY <3>1, <3>2 DEF HeardInv, NothingEarly
  <2>3. CASE emit # "none"
    <3>1. asked' = asked /\ emit' = emit
      BY <1>1, <2>1, <2>3 DEF PathInv, FirstRate
    <3>. QED
      BY <1>1, <2>1, <3>1 DEF HeardInv, NothingEarly
  <2>. QED
    BY <2>2, <2>3
<1>3. ASSUME Cancel
      PROVE  HeardInv'
  <2>1. /\ emit' = IF emit = "runs" THEN "cancelled" ELSE emit
        /\ frames' = <<>> /\ asked' = asked
    BY <1>3 DEF Cancel
  <2>2. NothingEarly'
    BY <1>1, <2>1 DEF HeardInv, NothingEarly
  <2>3. ASSUME asked * FrameMs >= 1000
        PROVE  Begin(sent \o <<>>, made, asked, emit')
    <3>1. sent \in Seq(PCM) /\ frames \in Seq(PCM) /\ sent \o <<>> = sent
      BY <1>1, ConcatEmptySeq DEF PathInv, Typed
    <3>2. CASE emit = "none"
      <4>1. sent = <<>> /\ made = <<>>
        BY <3>2 DEF HeardInv, NothingEarly
      <4>. QED
        BY <4>1, Nothing
    <3>3. CASE emit = "failed"
      <4>1. frames = <<>> /\ emit' = emit
        BY <1>1, <2>1, <3>3 DEF PathInv, FailsBetween
      <4>. QED
        BY <2>3, <4>1 DEF HeardInv
    <3>4. CASE emit \notin {"none", "failed"}
      <4>1. PICK rest \in PCM :
              FlattenSeq(Blocks(made, asked)) = FlattenSeq(sent \o frames) \o rest
        BY <2>3 DEF HeardInv, Begin
      <4> DEFINE p == FlattenSeq(sent)
                 q == FlattenSeq(frames)
      <4>2. /\ p \in Seq(Samples) /\ q \in Seq(Samples) /\ rest \in Seq(Samples)
            /\ FlattenSeq(sent \o frames) = p \o q
        BY <3>1, Flattened, FlattenConcat DEF PCM
      <4>. HIDE DEF p, q
      <4>3. (p \o q) \o rest = p \o (q \o rest)
        BY ONLY <4>2, Regroup
      <4>4. q \o rest \in PCM
        BY <4>2, ConcatProperties DEF PCM
      <4>5. emit' \notin {"runs", "failed"}
        BY <2>1, <3>4
      <4>6. FlattenSeq(Blocks(made, asked)) = FlattenSeq(sent \o <<>>) \o (q \o rest)
        BY <3>1, <4>1, <4>2, <4>3 DEF p
      <4>. QED
        BY <4>4, <4>5, <4>6 DEF Begin
    <3>. QED
      BY <3>2, <3>3, <3>4
  <2>. QED
    BY <1>1, <2>1, <2>2, <2>3 DEF HeardInv
<1>4. ASSUME UNCHANGED <<outputSr, emit, waiting, frames, asked>>
      PROVE  HeardInv'
  BY <1>1, <1>4 DEF HeardInv, NothingEarly
<1>. QED
  BY <1>2, <1>3, <1>4 DEF Receive, msg

\* A chunk adds its samples to what is made and, as frames, to what will be sent.
LEMMA ShipHeard ==
  ASSUME HeardInv, PathInv', NEW n \in 1..MaxSamples, NEW wav \in [1..n -> Amplitudes],
         NEW signal \in Signals(wav), Ship(wav, signal)
  PROVE  HeardInv'
<1> DEFINE s == SamplesPerFrame(outputSr)
           pcm == [i \in 1..Len(signal) |-> F32ToInt16(signal[i])]
           new == SliceIntoFrames(pcm, s)
           chunk == [length |-> Len(wav), signal |-> signal, frames |-> Len(new)]
<1>1. /\ PathInv /\ emit = "runs" /\ frames = <<>>
      /\ frames' = new /\ made' = Append(made, chunk)
      /\ UNCHANGED <<emit, sent, asked>>
  BY DEF HeardInv, Ship, Starts
<1>2. ASSUME asked * FrameMs >= 1000
      PROVE  Begin(sent \o new, Append(made, chunk), asked, emit)
  <2>1. s = (asked * FrameMs) \div 1000
    BY <1>1 DEF PathInv, FirstRate, SamplesPerFrame
  <2>2. s \in Nat \ {0} /\ Blocks(made, asked) \in Seq(PCM)
    BY <1>1, <1>2, <2>1, BlocksTyped
  <2>3. made \in Seq(Chunk) /\ made' \in Seq(Chunk) /\ sent \in Seq(PCM)
    BY <1>1 DEF PathInv, Typed
  <2>4. chunk \in Chunk /\ PcmOf(chunk) = pcm
    <3>1. made'[Len(made) + 1] = chunk /\ Len(made') = Len(made) + 1 /\ Len(made) \in Nat
      BY <1>1, <2>3
    <3>2. made'[Len(made) + 1] \in Chunk
      BY <2>3, <3>1
    <3>. QED
      BY <3>1, <3>2 DEF PcmOf
  <2>5. pcm \in PCM
    BY <1>1, <1>2, <2>4, BlocksTyped
  <2>. HIDE DEF s, pcm, chunk
  <2>6. new \in Seq(PCM) /\ FlattenSeq(new) = Padded(pcm, s) /\ Padded(pcm, s) \in PCM
    BY <2>2, <2>5, SlicesFit, SlicesFlatten
  <2>. HIDE DEF new
  <2>7. Blocks(Append(made, chunk), asked) = Append(Blocks(made, asked), Padded(pcm, s))
    <3> DEFINE left == Blocks(Append(made, chunk), asked)
               right == Append(Blocks(made, asked), Padded(pcm, s))
    <3>1. /\ DOMAIN Append(made, chunk) = 1..(Len(made) + 1) /\ DOMAIN made = 1..Len(made)
          /\ Append(made, chunk)[Len(made) + 1] = chunk /\ Len(made) \in Nat
          /\ \A k \in 1..Len(made) : Append(made, chunk)[k] = made[k]
      BY <2>3, <2>4
    <3>2. left = [k \in 1..(Len(made) + 1) |-> Padded(PcmOf(Append(made, chunk)[k]), s)]
      BY <2>1, <3>1 DEF Blocks
    <3>3. Blocks(made, asked) = [k \in 1..Len(made) |-> Padded(PcmOf(made[k]), s)]
      BY <2>1, <3>1 DEF Blocks
    <3>4. Len(Blocks(made, asked)) = Len(made)
      BY <3>1, <3>3
    <3>5. /\ right = [k \in 1..(Len(made) + 1) |-> right[k]]
          /\ right[Len(made) + 1] = Padded(pcm, s)
          /\ \A k \in 1..Len(made) : right[k] = Blocks(made, asked)[k]
      <4> DEFINE blocks == Blocks(made, asked)
                 last == Padded(pcm, s)
      <4>1. blocks \in Seq(PCM) /\ last \in PCM /\ Len(blocks) = Len(made)
        BY <2>2, <2>6, <3>4
      <4>. HIDE DEF blocks, last
      <4>2. /\ Append(blocks, last) \in Seq(PCM)
            /\ Len(Append(blocks, last)) = Len(made) + 1
            /\ Append(blocks, last)[Len(made) + 1] = last
            /\ \A k \in 1..Len(made) : Append(blocks, last)[k] = blocks[k]
        BY <4>1, AppendProperties
      <4>3. Append(blocks, last) = [k \in 1..(Len(made) + 1) |-> Append(blocks, last)[k]]
        BY <4>2, LenProperties
      <4>. QED
        BY <4>2, <4>3 DEF blocks, last
    <3>. HIDE DEF right
    <3>6. ASSUME NEW k \in 1..(Len(made) + 1)
          PROVE  Padded(PcmOf(Append(made, chunk)[k]), s) = right[k]
      <4>1. CASE k = Len(made) + 1
        BY <2>4, <3>1, <3>5, <4>1
      <4>2. CASE k # Len(made) + 1
        <5>1. k \in 1..Len(made)
          BY <3>1, <4>2
        <5>. QED
          BY <3>1, <3>3, <3>5, <5>1
      <4>. QED
        BY <4>1, <4>2
    <3>7. left = right
      BY <3>2, <3>5, <3>6
    <3>. QED
      BY <3>7 DEF right
  <2>8. PICK rest \in PCM :
          /\ FlattenSeq(Blocks(made, asked)) = FlattenSeq(sent \o frames) \o rest
          /\ rest = <<>>
    BY <1>1, <1>2 DEF HeardInv, Begin
  <2>9. FlattenSeq(Blocks(made, asked)) = FlattenSeq(sent)
    <3>1. sent \o frames = sent /\ FlattenSeq(sent) \in Seq(Samples)
      BY <1>1, <2>3, ConcatEmptySeq, Flattened DEF PCM
    <3>. QED
      BY <2>8, <3>1, ConcatEmptySeq
  <2>10. FlattenSeq(Append(Blocks(made, asked), Padded(pcm, s)))
           = FlattenSeq(sent) \o Padded(pcm, s)
    BY <2>2, <2>6, <2>9, FlattenAppend DEF PCM
  <2>11. FlattenSeq(sent \o new) = FlattenSeq(sent) \o Padded(pcm, s)
    BY <2>3, <2>6, FlattenConcat DEF PCM
  <2>12. FlattenSeq(sent \o new) \o <<>> = FlattenSeq(sent \o new)
    <3>1. FlattenSeq(sent) \in Seq(Samples) /\ Padded(pcm, s) \in Seq(Samples)
      BY <2>3, <2>6, Flattened DEF PCM
    <3>2. FlattenSeq(sent) \o Padded(pcm, s) \in Seq(Samples)
      BY <3>1, ConcatProperties
    <3>. QED
      BY <2>11, <3>2, ConcatEmptySeq
  <2>13. <<>> \in PCM
    BY DEF PCM
  <2>. QED
    BY <2>7, <2>10, <2>11, <2>12, <2>13 DEF Begin
<1>. HIDE DEF new, chunk
<1>. QED
  BY <1>1, <1>2 DEF HeardInv, NothingEarly

\* Frames are sent in their order.
LEMMA SendHeard ==
  ASSUME HeardInv, PathInv', SendFrame
  PROVE  HeardInv'
<1>1. /\ frames \in Seq(PCM) /\ sent \in Seq(PCM) /\ frames # <<>>
      /\ sent' = Append(sent, Head(frames)) /\ frames' = Tail(frames)
      /\ UNCHANGED <<emit, asked, made>>
  BY DEF HeardInv, SendFrame, PathInv, Typed
<1>2. sent' \o frames' = sent \o frames
  BY <1>1, Moved
<1>3. PathInv' /\ NothingEarly /\ (asked * FrameMs >= 1000 => Begin(sent \o frames, made, asked, emit))
  BY DEF HeardInv
<1>4. emit # "none"
  BY <1>1, <1>3 DEF NothingEarly
<1>5. NothingEarly'
  BY <1>1, <1>4 DEF NothingEarly
<1>6. emit' = emit /\ asked' = asked /\ made' = made
  BY <1>1
<1>7. (asked * FrameMs >= 1000 => Begin(sent \o frames, made, asked, emit))'
  BY ONLY <1>2, <1>3, <1>6
<1>. QED
  BY <1>3, <1>5, <1>7 DEF HeardInv

\* Every step keeps the invariant.
LEMMA HeardStep == HeardInv /\ [Next]_vars => HeardInv'
<1> SUFFICES ASSUME HeardInv, [Next]_vars
             PROVE  HeardInv'
  OBVIOUS
<1>1. PathInv'
  BY InvStep DEF HeardInv
<1>2. UNCHANGED vars => HeardInv'
  BY <1>1 DEF vars, HeardInv, NothingEarly
<1>3. ASSUME ShipRaises
      PROVE  HeardInv'
  <2>1. emit = "runs" /\ emit' = "failed" /\ UNCHANGED <<frames, sent, made, asked>>
    BY <1>3 DEF ShipRaises, Starts
  <2>. QED
    BY <1>1, <2>1 DEF HeardInv, NothingEarly, Begin
<1>. QED
  BY <1>1, <1>2, <1>3, ReceiveHeard, ShipHeard, SendHeard DEF Next, Spent

\* It holds in every behaviour.
LEMMA HeardInvariant == Spec => []HeardInv
<1>1. Init => HeardInv
  BY InvInit, Nothing DEF Init, HeardInv, NothingEarly
<1>. QED
  BY <1>1, HeardStep, PTL DEF Spec

\* For every frame length, all rates and all interleavings of the receive loop with
\* the emit task: what a client hears is the samples of the chunks in their order,
\* each chunk filled up with silence to a whole frame; a cancel only cuts it off at
\* the end, and a failure of pipeline() takes nothing away (slice_into_frames, _ship).
THEOREM HeardAsMade == Spec => []HeardIsMade
<1>1. ASSUME HeardInv, asked * FrameMs >= 1000
      PROVE  LET all == FlattenSeq(Blocks(made, asked))
                 heard == FlattenSeq(sent \o frames)
             IN  IsPrefix(heard, all) /\ (emit \in {"runs", "failed"} => heard = all)
  <2> DEFINE heard == FlattenSeq(sent \o frames)
  <2>1. sent \in Seq(PCM) /\ frames \in Seq(PCM)
    BY <1>1 DEF HeardInv, PathInv, Typed
  <2>2. sent \o frames \in Seq(PCM)
    BY <2>1, ConcatProperties
  <2>3. heard \in Seq(Samples) /\ heard \o <<>> = heard
    BY <2>2, Flattened, ConcatEmptySeq DEF PCM
  <2>4. PICK rest \in Seq(Samples) :
          /\ FlattenSeq(Blocks(made, asked)) = heard \o rest
          /\ emit \in {"runs", "failed"} => rest = <<>>
    BY <1>1 DEF HeardInv, Begin, PCM
  <2>. HIDE DEF heard
  <2>5. IsPrefix(heard, heard \o rest)
    BY <2>3, PrefixOfMore
  <2>. QED
    BY <2>3, <2>4, <2>5 DEF heard
<1>2. HeardInv => HeardIsMade
  BY <1>1 DEF HeardIsMade, Blocks, PcmOf
<1>. QED
  BY <1>2, HeardInvariant, PTL
=============================================================================
