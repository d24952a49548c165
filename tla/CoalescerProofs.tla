-------------------------- MODULE CoalescerProofs --------------------------
(***************************************************************************)
(* Proofs about the text coalescer, for every limit, window and alphabet   *)
(* of texts: nothing is lost, the buffer is bounded between calls, every   *)
(* turn of push()'s loop makes progress, and a number is divided only      *)
(* where its text came in pieces or the limit was reached.                 *)
(***************************************************************************)
EXTENDS Coalescer, SequenceTheorems, WellFoundedInduction, TLAPS

\* Where chunks end: the last one at the end of what is out; with a mark or a
\* blank, if that was avoidable; and the text received ends where a push ended.
Ends ==
  /\ out # <<>> => Len(out) \in chunkEnds
  /\ \A e \in chunkEnds : e \in 1..Len(out)
  /\ \A e \in chunkEnds : received[e] \in Mark \cup Blank \/ Unavoidable(e)
  /\ received # <<>> => Len(received) \in seams

\* What excuses a chunk that ends at e, at the mark of a number.
Excused(e) == Unavoidable(e) \/ (e - 1 \in chunkEnds /\ Unavoidable(e - 1))

MarksWhole == \A e \in chunkEnds : NumberMark(e) => Excused(e)

CoalescerInv == TypeOK /\ Conservation /\ Bounded /\ Ends /\ MarksWhole
-----------------------------------------------------------------------------
(***************************************************************************)
(* Where _find_boundary() cuts.                                            *)
(***************************************************************************)

\* A nonempty set of naturals has a least element.
LEMMA LeastElement ==
  ASSUME NEW S \in SUBSET Nat, S # {}
  PROVE  \E n \in S : \A m \in S : n <= m
<1> DEFINE Below == OpToRel(<, Nat)
<1>1. IsWellFoundedOn(Below, Nat)
  BY NatLessThanWellFounded
<1>2. \A m, n \in Nat : m < n => <<m, n>> \in Below
  BY DEF OpToRel
<1> HIDE DEF Below
<1>3. PICK n \in S : \A m \in S : <<m, n>> \notin Below
  BY <1>1, WFMin
<1>4. \A m \in S : ~(m < n) /\ m \in Nat /\ n \in Nat
  BY <1>2, <1>3
<1>. QED
  BY <1>4

\* A nonempty set of naturals up to a bound has a greatest one.
LEMMA GreatestElement ==
  ASSUME NEW b \in Nat, NEW S \in SUBSET (0..b), S # {}
  PROVE  \E n \in S : \A m \in S : m <= n
<1> DEFINE Gaps == {b - m : m \in S}
<1>1. Gaps \in SUBSET Nat /\ Gaps # {}
  <2>1. \A m \in S : b - m \in Nat
    OBVIOUS
  <2>. QED
    BY <2>1
<1>2. PICK g \in Gaps : \A h \in Gaps : g <= h
  <2> HIDE DEF Gaps
  <2>. QED
    BY <1>1, LeastElement
<1>3. PICK n \in S : g = b - n
  OBVIOUS
<1>4. \A m \in S : b - n <= b - m
  BY <1>2, <1>3
<1>. QED
  BY <1>4

\* A cut is within the buffer.
LEMMA CutsInside ==
  ASSUME NEW b \in Seq(Char), NEW n \in FindBoundary(b)
  PROVE  n \in 1..Len(b)
<1>1. Len(b) \in Nat /\ DOMAIN b = 1..Len(b) /\ HardMax \in Nat \ {0}
  BY LenProperties, CoalescerAssumption
<1>2. MarkCuts(b) \subseteq 1..Len(b)
  BY <1>1 DEF MarkCuts
<1>3. ForcedCuts(b) \subseteq 1..Len(b)
  <2>1. Spaces(b) \subseteq 1..HardMax
    BY <1>1 DEF Spaces
  <2>. QED
    BY <1>1, <2>1 DEF ForcedCuts
<1>. QED
  BY <1>2, <1>3 DEF FindBoundary

\* Without a cut the buffer is within the limit.
LEMMA NoCutBounded ==
  ASSUME NEW b \in Seq(Char), FindBoundary(b) = {}
  PROVE  Len(b) <= HardMax
<1>1. Len(b) \in Nat /\ DOMAIN b = 1..Len(b) /\ HardMax \in Nat \ {0}
  BY LenProperties, CoalescerAssumption
<1>2. MarkCuts(b) = {}
  <2> SUFFICES ASSUME MarkCuts(b) # {}
               PROVE  FALSE
    OBVIOUS
  <2>1. MarkCuts(b) \in SUBSET Nat
    BY <1>1 DEF MarkCuts
  <2>2. PICK n \in MarkCuts(b) : \A m \in MarkCuts(b) : n <= m
    BY <2>1, LeastElement
  <2>3. n \in FindBoundary(b)
    BY <2>2 DEF FindBoundary
  <2>. QED
    BY <2>3
<1>3. ForcedCuts(b) = {}
  BY <1>2 DEF FindBoundary
<1> SUFFICES ASSUME Len(b) > HardMax
             PROVE  FALSE
  BY <1>1
<1>4. CASE Spaces(b) = {}
  BY <1>1, <1>3, <1>4 DEF ForcedCuts
<1>5. CASE Spaces(b) # {}
  <2>1. Spaces(b) \in SUBSET (0..HardMax)
    BY <1>1 DEF Spaces
  <2>2. PICK n \in Spaces(b) : \A m \in Spaces(b) : m <= n
    BY <1>1, <1>5, <2>1, GreatestElement
  <2>3. n \in ForcedCuts(b)
    BY <1>1, <1>5, <2>2 DEF ForcedCuts
  <2>. QED
    BY <1>3, <2>3
<1>. QED
  BY <1>4, <1>5
-----------------------------------------------------------------------------
(***************************************************************************)
(* The turns of push()'s loop.                                             *)
(***************************************************************************)

\* A text that grows at its end keeps its characters.
LEMMA Prefix ==
  ASSUME NEW q \in Seq(Char), NEW r \in Seq(Char)
  PROVE  /\ q \o r \in Seq(Char)
         /\ Len(q \o r) = Len(q) + Len(r) /\ Len(q) \in Nat /\ Len(r) \in Nat
         /\ \A i \in 1..Len(q) : (q \o r)[i] = q[i]
         /\ \A i \in 1..Len(r) : (q \o r)[Len(q) + i] = r[i]
<1>1. /\ q \o r \in Seq(Char)
      /\ Len(q \o r) = Len(q) + Len(r)
      /\ \A i \in 1..(Len(q) + Len(r)) :
           (q \o r)[i] = IF i <= Len(q) THEN q[i] ELSE r[i - Len(q)]
  BY ConcatProperties
<1>2. Len(q) \in Nat /\ Len(r) \in Nat
  BY LenProperties
<1>3. \A i \in 1..Len(q) : (q \o r)[i] = q[i]
  BY <1>1, <1>2
<1>4. \A i \in 1..Len(r) : (q \o r)[Len(q) + i] = r[i]
  <2> SUFFICES ASSUME NEW i \in 1..Len(r)
               PROVE  (q \o r)[Len(q) + i] = r[i]
    OBVIOUS
  <2>1. Len(q) + i \in 1..(Len(q) + Len(r)) /\ ~(Len(q) + i <= Len(q)) /\ (Len(q) + i) - Len(q) = i
    BY <1>2
  <2>. QED
    BY <1>1, <2>1
<1>. QED
  BY <1>1, <1>2, <1>3, <1>4

\* Texts may be put together in any order.
LEMMA Regroup ==
  ASSUME NEW p \in Seq(Char), NEW q \in Seq(Char), NEW r \in Seq(Char)
  PROVE  (p \o q) \o r = p \o (q \o r)
<1> DEFINE pq == p \o q
           left == pq \o r
           qr == q \o r
           right == p \o qr
<1>1. /\ pq \in Seq(Char)
      /\ Len(pq) = Len(p) + Len(q) /\ Len(p) \in Nat /\ Len(q) \in Nat
      /\ \A i \in 1..Len(p) : pq[i] = p[i]
      /\ \A i \in 1..Len(q) : pq[Len(p) + i] = q[i]
  BY Prefix
<1>2. /\ qr \in Seq(Char)
      /\ Len(qr) = Len(q) + Len(r) /\ Len(r) \in Nat
      /\ \A i \in 1..Len(q) : qr[i] = q[i]
      /\ \A i \in 1..Len(r) : qr[Len(q) + i] = r[i]
  BY Prefix
<1> HIDE DEF pq, qr
<1>3. /\ left \in Seq(Char)
      /\ Len(left) = Len(pq) + Len(r)
      /\ \A i \in 1..Len(pq) : left[i] = pq[i]
      /\ \A i \in 1..Len(r) : left[Len(pq) + i] = r[i]
  <2>1. pq \in Seq(Char)
    BY <1>1
  <2>. QED
    BY <2>1, Prefix
<1>4. /\ right \in Seq(Char)
      /\ Len(right) = Len(p) + Len(qr)
      /\ \A i \in 1..Len(p) : right[i] = p[i]
      /\ \A i \in 1..Len(qr) : right[Len(p) + i] = qr[i]
  <2>1. qr \in Seq(Char)
    BY <1>2
  <2>. QED
    BY <2>1, Prefix
<1> HIDE DEF left, right
<1>5. ASSUME NEW i \in 1..Len(left)
      PROVE  left[i] = right[i]
  <2>1. i \in Nat \ {0} /\ Len(p) \in Nat /\ Len(q) \in Nat /\ Len(r) \in Nat
    BY <1>1, <1>2, <1>3
  <2>2. CASE i <= Len(p)
    <3>1. i \in 1..Len(p) /\ i \in 1..Len(pq)
      BY <1>1, <2>1, <2>2
    <3>. QED
      BY <1>1, <1>3, <1>4, <3>1
  <2>3. CASE Len(p) < i /\ i <= Len(p) + Len(q)
    <3> DEFINE j == i - Len(p)
    <3>1. j \in 1..Len(q) /\ j \in 1..Len(qr) /\ i \in 1..Len(pq) /\ i = Len(p) + j
      BY <1>1, <1>2, <2>1, <2>3
    <3> HIDE DEF j
    <3>. QED
      BY <1>1, <1>2, <1>3, <1>4, <3>1
  <2>4. CASE Len(p) + Len(q) < i
    <3> DEFINE j == i - Len(p) - Len(q)
    <3>1. /\ j \in 1..Len(r) /\ i = Len(pq) + j
          /\ Len(q) + j \in 1..Len(qr) /\ i = Len(p) + (Len(q) + j)
      BY <1>1, <1>2, <1>3, <2>1, <2>4
    <3> HIDE DEF j
    <3>2. left[i] = r[j]
      BY <1>3, <3>1
    <3>3. right[i] = qr[Len(q) + j]
      BY <1>4, <3>1
    <3>4. qr[Len(q) + j] = r[j]
      BY <1>2, <3>1
    <3>. QED
      BY <3>2, <3>3, <3>4
  <2>. QED
    BY <2>1, <2>2, <2>3, <2>4
<1>6. Len(left) = Len(right)
  BY <1>1, <1>2, <1>3, <1>4
<1>7. left \in Seq(Char) /\ right \in Seq(Char)
  BY <1>3, <1>4
<1>8. left = right
  BY <1>5, <1>6, <1>7, SeqEqual
<1>. QED
  BY <1>8 DEF left, right, pq, qr

\* A turn takes a nonempty chunk off the front of the buffer.
LEMMA CutShape ==
  ASSUME TypeOK, Cut
  PROVE  \E n \in FindBoundary(buf), e \in 1..Len(buf) :
           /\ n <= e /\ n \in 1..Len(buf)
           /\ CarryOver(buf, n, e)
           /\ out' = out \o SubSeq(buf, 1, e)
           /\ buf' = SubSeq(buf, e + 1, Len(buf))
           /\ SubSeq(buf, 1, e) \in Seq(Char) /\ Len(SubSeq(buf, 1, e)) = e
           /\ buf' \in Seq(Char) /\ Len(buf') = Len(buf) - e
           /\ out' \in Seq(Char) /\ Len(out') = Len(out) + e
           /\ out' \o buf' = out \o buf
           /\ IF n \in MarkCuts(buf)
                THEN markEnds' = markEnds \cup {Len(out) + e} /\ UNCHANGED otherEnds
                ELSE otherEnds' = otherEnds \cup {Len(out) + e} /\ UNCHANGED markEnds
<1>1. PICK n \in FindBoundary(buf) : \E e \in n..Len(buf) :
        /\ CarryOver(buf, n, e)
        /\ out' = out \o SubSeq(buf, 1, e)
        /\ buf' = Rest(e)
        /\ IF n \in MarkCuts(buf)
             THEN markEnds' = markEnds \cup {Len(out) + e} /\ UNCHANGED otherEnds
             ELSE otherEnds' = otherEnds \cup {Len(out) + e} /\ UNCHANGED markEnds
  BY DEF Cut
<1>2. PICK e \in n..Len(buf) :
        /\ CarryOver(buf, n, e)
        /\ out' = out \o SubSeq(buf, 1, e)
        /\ buf' = SubSeq(buf, e + 1, Len(buf))
        /\ IF n \in MarkCuts(buf)
             THEN markEnds' = markEnds \cup {Len(out) + e} /\ UNCHANGED otherEnds
             ELSE otherEnds' = otherEnds \cup {Len(out) + e} /\ UNCHANGED markEnds
  BY <1>1 DEF Rest
<1>3. buf \in Seq(Char) /\ out \in Seq(Char) /\ Len(buf) \in Nat /\ Len(out) \in Nat
  BY LenProperties DEF TypeOK
<1>4. n \in 1..Len(buf) /\ e \in 1..Len(buf) /\ n <= e
  <2>1. n \in 1..Len(buf)
    BY <1>3, CutsInside
  <2>. QED
    BY <1>3, <2>1
<1> DEFINE chunk == SubSeq(buf, 1, e)
           rest == SubSeq(buf, e + 1, Len(buf))
<1>5. chunk \in Seq(Char) /\ Len(chunk) = e
  <2>1. \A i \in 1..e : buf[i] \in Char
    BY <1>3, <1>4, ElementOfSeq
  <2>2. 1 \in Int /\ e \in Int /\ 1 <= e
    BY <1>3, <1>4
  <2>. QED
    BY <2>1, <2>2, SubSeqProperties
<1>6. rest \in Seq(Char) /\ Len(rest) = Len(buf) - e
  <2>1. \A i \in (e + 1)..Len(buf) : buf[i] \in Char
    <3> SUFFICES ASSUME NEW i \in (e + 1)..Len(buf)
                 PROVE  buf[i] \in Char
      OBVIOUS
    <3>1. i \in 1..Len(buf)
      BY <1>3, <1>4
    <3>. QED
      BY <1>3, <3>1, ElementOfSeq
  <2>2. e + 1 \in Int /\ Len(buf) \in Int
    BY <1>3, <1>4
  <2>3. /\ rest \in Seq(Char)
        /\ Len(rest) = IF e + 1 <= Len(buf) THEN Len(buf) - (e + 1) + 1 ELSE 0
    BY <2>1, <2>2, SubSeqProperties
  <2> HIDE DEF rest
  <2>. QED
    BY <1>3, <1>4, <2>3
<1>7. chunk \o rest = buf
  <2>1. 1 \in 1..(Len(buf) + 1) /\ e \in (1 - 1)..Len(buf) /\ Len(buf) \in e..Len(buf)
    BY <1>3, <1>4
  <2>. QED
    BY <1>3, <2>1, ConcatAdjacentSubSeq, SubSeqFull
<1> HIDE DEF chunk, rest
<1>8. (out \o chunk) \o rest = out \o buf
  <2>1. out \in Seq(Char)
    BY <1>3
  <2>2. chunk \in Seq(Char)
    BY <1>5
  <2>3. rest \in Seq(Char)
    BY <1>6
  <2>4. (out \o chunk) \o rest = out \o (chunk \o rest)
    BY <2>1, <2>2, <2>3, Regroup
  <2>. QED
    BY <1>7, <2>4
<1>9. out \o chunk \in Seq(Char) /\ Len(out \o chunk) = Len(out) + e
  BY <1>3, <1>5, ConcatProperties
<1>. QED
  BY <1>2, <1>4, <1>5, <1>6, <1>8, <1>9 DEF chunk, rest

\* What was received is what is out and what is buffered.
LEMMA Parts ==
  ASSUME CoalescerInv
  PROVE  /\ buf \in Seq(Char) /\ out \in Seq(Char) /\ received \in Seq(Char)
         /\ received = out \o buf
         /\ Len(buf) \in Nat /\ Len(out) \in Nat /\ Len(received) = Len(out) + Len(buf)
         /\ DOMAIN received = 1..Len(received)
         /\ \A i \in 1..Len(buf) : received[Len(out) + i] = buf[i]
<1>1. buf \in Seq(Char) /\ out \in Seq(Char) /\ received \in Seq(Char) /\ received = out \o buf
  BY DEF CoalescerInv, TypeOK, Conservation
<1>2. DOMAIN received = 1..Len(received)
  BY <1>1, LenProperties
<1>. QED
  BY <1>1, <1>2, Prefix

\* A chunk cut after a mark ends with a mark or a blank; with the mark of a number
\* only if its first digits were cut off before.
LEMMA MarkCutEnds ==
  ASSUME CoalescerInv, NEW n \in MarkCuts(buf), n \in 1..Len(buf), NEW e \in 1..Len(buf),
         n <= e, CarryOver(buf, n, e)
  PROVE  /\ received[Len(out) + e] \in Mark \cup Blank
         /\ NumberMark(Len(out) + e) =>
              Len(out) = Len(out) + e - 1 /\ Len(out) \in chunkEnds /\ Unavoidable(Len(out))
<1>0. /\ received = out \o buf /\ out \in Seq(Char)
      /\ Len(buf) \in Nat /\ Len(out) \in Nat /\ Len(received) = Len(out) + Len(buf)
      /\ DOMAIN received = 1..Len(received)
      /\ \A i \in 1..Len(buf) : received[Len(out) + i] = buf[i]
  BY Parts
<1>1. buf[n] \in Mark /\ ~InsideNumber(buf, n)
  BY DEF MarkCuts
<1>2. n < e => buf[e] \in Blank
  BY <1>0 DEF CarryOver
<1>3. received[Len(out) + e] \in Mark \cup Blank
  <2>1. n < e \/ n = e
    BY <1>0
  <2>. QED
    BY <1>0, <1>1, <1>2, <2>1
<1>4. ASSUME NumberMark(Len(out) + e)
      PROVE  Len(out) = Len(out) + e - 1 /\ Len(out) \in chunkEnds /\ Unavoidable(Len(out))
  <2>1. /\ Len(out) + e - 1 \in 1..Len(received) /\ Len(out) + e + 1 \in 1..Len(received)
        /\ received[Len(out) + e] \in Mark
        /\ received[Len(out) + e - 1] = "digit"
        /\ received[Len(out) + e + 1] = "digit"
    BY <1>0, <1>4 DEF NumberMark, Digit
  <2>2. e = n
    <3>1. received[Len(out) + e] = buf[e]
      BY <1>0
    <3>2. buf[e] \notin Blank
      BY <2>1, <3>1 DEF Mark, Blank
    <3>3. n \in Nat /\ e \in Nat
      BY <1>0
    <3>. QED
      BY <1>2, <3>2, <3>3
  <2>3. n + 1 \in 1..Len(buf) /\ buf[n + 1] = "digit"
    <3>1. n + 1 \in 1..Len(buf) /\ Len(out) + (n + 1) = Len(out) + e + 1
      <4>1. n \in Nat \ {0} /\ e \in Nat /\ Len(out) \in Nat /\ Len(buf) \in Nat
            /\ Len(out) + e + 1 <= Len(out) + Len(buf)
        BY <1>0, <2>1
      <4>. QED
        BY <2>2, <4>1
    <3>. QED
      BY <1>0, <2>1, <3>1
  <2>4. n = 1
    <3> SUFFICES ASSUME n # 1
                 PROVE  FALSE
      OBVIOUS
    <3>1. n - 1 \in 1..Len(buf) /\ Len(out) + (n - 1) = Len(out) + e - 1
      BY <1>0, <2>2
    <3>2. buf[n - 1] = "digit"
      BY <1>0, <2>1, <3>1
    <3>. QED
      BY <1>0, <1>1, <2>3, <3>1, <3>2 DEF InsideNumber
  <2>5. Len(out) + e - 1 = Len(out) /\ Len(out) >= 1 /\ out # <<>>
    <3>1. Len(out) + e - 1 = Len(out) /\ Len(out) >= 1
      BY <1>0, <2>1, <2>2, <2>4
    <3>. QED
      BY <1>0, <3>1, EmptySeq
  <2>6. Len(out) \in chunkEnds
    BY <2>5 DEF CoalescerInv, Ends
  <2>7. received[Len(out)] = "digit"
    BY <2>1, <2>5
  <2>8. Unavoidable(Len(out))
    BY <2>6, <2>7 DEF CoalescerInv, Ends, Mark, Blank
  <2>. QED
    BY <2>5, <2>6, <2>8
<1>. QED
  BY <1>3, <1>4

\* A chunk cut for its length ends with a blank, or it is as long as the limit and
\* has no space to cut at.
LEMMA ForcedCutEnds ==
  ASSUME CoalescerInv, NEW n \in ForcedCuts(buf), n \in 1..Len(buf), NEW e \in 1..Len(buf),
         n <= e, CarryOver(buf, n, e)
  PROVE  \/ received[Len(out) + e] \in Blank
         \/ e = HardMax /\ \A i \in 2..HardMax : buf[i] # "space"
<1>0. /\ Len(buf) \in Nat /\ Len(out) \in Nat
      /\ received[Len(out) + e] = buf[e] /\ n \in Nat /\ e \in Nat
  BY Parts
<1>1. CASE n < e
  BY <1>0, <1>1 DEF CarryOver
<1>2. CASE n = e /\ n \in Spaces(buf)
  BY <1>0, <1>2 DEF Spaces, Blank
<1>3. CASE n = e /\ n \notin Spaces(buf)
  <2>1. n = HardMax /\ Spaces(buf) = {}
    BY <1>3 DEF ForcedCuts
  <2>. QED
    BY <1>3, <2>1 DEF Spaces
<1>. QED
  BY <1>0, <1>1, <1>2, <1>3

\* What excuses a chunk does so for ever: more text and later chunks do not change
\* where it was cut.
LEMMA StaysUnavoidable ==
  ASSUME CoalescerInv, NEW e \in chunkEnds, Unavoidable(e),
         seams \subseteq seams', chunkEnds \subseteq chunkEnds',
         \A d \in chunkEnds' : d \in chunkEnds \/ (d \in Nat /\ Len(out) < d),
         \A i \in 1..Len(received) : received'[i] = received[i]
  PROVE  Unavoidable(e)'
<1>1. /\ Len(out) \in Nat /\ Len(received) \in Nat /\ Len(out) <= Len(received)
      /\ HardMax \in Nat \ {0}
  BY Parts, CoalescerAssumption
<1>2. chunkEnds \subseteq 1..Len(out)
  BY DEF CoalescerInv, Ends
<1>3. CASE e \in seams
  BY <1>3 DEF Unavoidable
<1>4. CASE EndsAtLimit(e)
  <2>1. e - HardMax \in chunkEnds' \cup {0} /\ e - HardMax \in Nat
    BY <1>1, <1>2, <1>4 DEF EndsAtLimit
  <2>2. ASSUME NEW i \in (e - HardMax + 1)..(e - 1)
        PROVE  i \notin chunkEnds'
    <3>1. i \notin chunkEnds /\ ~(Len(out) < i)
      BY <1>1, <1>2, <1>4 DEF EndsAtLimit
    <3>. QED
      BY <3>1
  <2>3. ASSUME NEW i \in (e - HardMax + 2)..e
        PROVE  received'[i] # "space"
    <3>1. i \in 1..Len(received)
      BY <1>1, <1>2, <2>1
    <3>. QED
      BY <1>4, <3>1 DEF EndsAtLimit
  <2>4. EndsAtLimit(e)'
    BY <2>1, <2>2, <2>3 DEF EndsAtLimit
  <2>. QED
    BY <2>4 DEF Unavoidable
<1>. QED
  BY <1>3, <1>4 DEF Unavoidable

\* What is known of the chunks that are out remains true.
LEMMA OldEnds ==
  ASSUME CoalescerInv, received' \in Seq(Char), Len(received) <= Len(received'),
         seams \subseteq seams', chunkEnds \subseteq chunkEnds',
         \A d \in chunkEnds' : d \in chunkEnds \/ (d \in Nat /\ Len(out) < d),
         \A i \in 1..Len(received) : received'[i] = received[i],
         NEW e \in chunkEnds
  PROVE  /\ received'[e] \in Mark \cup Blank \/ Unavoidable(e)'
         /\ NumberMark(e)' => Excused(e)'
<1>1. /\ Len(out) \in Nat /\ Len(received) \in Nat /\ Len(out) <= Len(received)
      /\ DOMAIN received = 1..Len(received) /\ received \in Seq(Char)
  BY Parts
<1>2. e \in 1..Len(out) /\ e \in 1..Len(received)
  BY <1>1 DEF CoalescerInv, Ends
<1>3. received[e] \in Mark \cup Blank \/ Unavoidable(e)
  BY DEF CoalescerInv, Ends
<1>4. Unavoidable(e) => Unavoidable(e)'
  BY StaysUnavoidable
<1>5. ASSUME NumberMark(e)'
      PROVE  Excused(e)'
  <2>1. CASE e = Len(received)
    <3>1. e \in seams
      <4>1. received # <<>>
        BY <1>1, <1>2, EmptySeq
      <4>. QED
        BY <2>1, <4>1 DEF CoalescerInv, Ends
    <3>. QED
      BY <3>1 DEF Excused, Unavoidable
  <2>2. CASE e # Len(received)
    <3>1. DOMAIN received' = 1..Len(received')
      BY LenProperties
    <3>2. e - 1 \in 1..Len(received) /\ e + 1 \in 1..Len(received)
      BY <1>1, <1>2, <1>5, <2>2, <3>1 DEF NumberMark, Digit
    <3>3. NumberMark(e)
      BY <1>1, <1>2, <1>5, <3>2 DEF NumberMark, Digit
    <3>4. Excused(e)
      BY <3>3 DEF CoalescerInv, MarksWhole
    <3>5. ASSUME e - 1 \in chunkEnds, Unavoidable(e - 1)
          PROVE  e - 1 \in chunkEnds' /\ Unavoidable(e - 1)'
      BY <3>5, StaysUnavoidable
    <3>. QED
      BY <1>4, <3>4, <3>5 DEF Excused
  <2>. QED
    BY <2>1, <2>2
<1>. QED
  BY <1>2, <1>3, <1>4, <1>5
-----------------------------------------------------------------------------
\* A push appends its text to the buffer.
LEMMA ReceiveKeeps ==
  ASSUME CoalescerInv, NEW text \in Texts, Receive(text)
  PROVE  CoalescerInv'
<1>0. /\ text \in Seq(Char) /\ buf \in Seq(Char) /\ out \in Seq(Char) /\ received \in Seq(Char)
      /\ received = out \o buf
      /\ UNCHANGED <<out, markEnds, otherEnds>>
      /\ buf' = buf \o text /\ received' = received \o text /\ scanning' = TRUE
      /\ seams' = seams \cup {Len(received) + Len(text)}
  BY CoalescerAssumption DEF CoalescerInv, TypeOK, Conservation, Receive
<1>1. /\ received' \in Seq(Char) /\ buf' \in Seq(Char)
      /\ Len(received') = Len(received) + Len(text)
      /\ Len(received) \in Nat /\ Len(text) \in Nat
      /\ \A i \in 1..Len(received) : received'[i] = received[i]
  <2>1. buf \o text \in Seq(Char)
    BY <1>0, Prefix
  <2>2. /\ received \o text \in Seq(Char)
        /\ Len(received \o text) = Len(received) + Len(text)
        /\ Len(received) \in Nat /\ Len(text) \in Nat
        /\ \A i \in 1..Len(received) : (received \o text)[i] = received[i]
    BY <1>0, Prefix
  <2>. QED
    BY <1>0, <2>1, <2>2
<1>2. Conservation'
  <2>1. (out \o buf) \o text = out \o (buf \o text)
    <3>1. out \in Seq(Char) /\ buf \in Seq(Char) /\ text \in Seq(Char)
      BY <1>0
    <3>. QED
      BY <3>1, Regroup
  <2>. QED
    BY <1>0, <2>1 DEF Conservation
<1>3. /\ chunkEnds' = chunkEnds /\ seams \subseteq seams' /\ Len(received) <= Len(received')
      /\ received' # <<>> => Len(received') \in seams'
  <2>1. chunkEnds' = chunkEnds /\ seams \subseteq seams' /\ Len(received') \in seams'
    BY <1>0, <1>1 DEF chunkEnds
  <2>. QED
    BY <1>1, <2>1
<1>4. TypeOK'
  <2>1. seams \cup markEnds \cup otherEnds \subseteq 0..Len(received)
    BY DEF CoalescerInv, TypeOK
  <2>2. 0..Len(received) \subseteq 0..Len(received') /\ Len(received') \in 0..Len(received')
    BY <1>1
  <2>. QED
    BY <1>0, <1>1, <2>1, <2>2 DEF TypeOK
<1>5. \A e \in chunkEnds :
        /\ received'[e] \in Mark \cup Blank \/ Unavoidable(e)'
        /\ NumberMark(e)' => Excused(e)'
  BY <1>1, <1>3, OldEnds
<1>6. Ends'
  BY <1>0, <1>3, <1>5 DEF CoalescerInv, Ends
<1>7. MarksWhole'
  BY <1>3, <1>5 DEF MarksWhole
<1>. QED
  BY <1>0, <1>2, <1>4, <1>6, <1>7 DEF CoalescerInv, Bounded

\* A turn of the loop moves text from the buffer to a chunk.
LEMMA CutKeeps ==
  ASSUME CoalescerInv, Cut
  PROVE  CoalescerInv'
<1>0. /\ TypeOK /\ buf \in Seq(Char) /\ out \in Seq(Char) /\ received = out \o buf
      /\ received \in Seq(Char) /\ scanning = TRUE
      /\ UNCHANGED <<scanning, received, seams>>
  BY DEF CoalescerInv, TypeOK, Conservation, Cut
<1>1. PICK n \in FindBoundary(buf), e \in 1..Len(buf) :
        /\ n <= e /\ n \in 1..Len(buf)
        /\ CarryOver(buf, n, e)
        /\ buf' \in Seq(Char)
        /\ out' \in Seq(Char) /\ Len(out') = Len(out) + e
        /\ out' \o buf' = out \o buf
        /\ IF n \in MarkCuts(buf)
             THEN markEnds' = markEnds \cup {Len(out) + e} /\ UNCHANGED otherEnds
             ELSE otherEnds' = otherEnds \cup {Len(out) + e} /\ UNCHANGED markEnds
  BY <1>0, CutShape
<1>2. Len(out) \in Nat /\ Len(buf) \in Nat /\ Len(received) = Len(out) + Len(buf)
  BY <1>0, Prefix
<1>3. Conservation'
  BY <1>0, <1>1 DEF Conservation
<1>4. TypeOK'
  <2>1. Len(out) + e \in 0..Len(received)
    BY <1>2
  <2>. QED
    BY <1>0, <1>1, <2>1 DEF TypeOK
<1>e. PICK end \in Nat : end = Len(out) + e
  BY <1>2
<1>5. /\ chunkEnds' = chunkEnds \cup {end}
      /\ end \in Nat /\ Len(out) < end /\ end \in 1..Len(out') /\ 1..Len(out) \subseteq 1..Len(out')
  BY <1>1, <1>2, <1>e DEF chunkEnds
<1>6. \A d \in chunkEnds :
        /\ received'[d] \in Mark \cup Blank \/ Unavoidable(d)'
        /\ NumberMark(d)' => Excused(d)'
  <2>1. /\ received' \in Seq(Char) /\ Len(received) <= Len(received')
        /\ seams \subseteq seams' /\ \A i \in 1..Len(received) : received'[i] = received[i]
    BY <1>0, <1>2
  <2>2. /\ chunkEnds \subseteq chunkEnds'
        /\ \A d \in chunkEnds' : d \in chunkEnds \/ (d \in Nat /\ Len(out) < d)
    BY <1>5
  <2>. QED
    BY <2>1, <2>2, OldEnds
<1>7. /\ received'[end] \in Mark \cup Blank \/ Unavoidable(end)'
      /\ NumberMark(end)' => Excused(end)'
  <2>0. received' = received /\ (NumberMark(end)' <=> NumberMark(end))
    BY <1>0 DEF NumberMark, Digit
  <2>1. CASE n \in MarkCuts(buf)
    <3>1. /\ received[end] \in Mark \cup Blank
          /\ NumberMark(end) =>
               Len(out) = end - 1 /\ Len(out) \in chunkEnds /\ Unavoidable(Len(out))
      BY <1>1, <1>e, <2>1, MarkCutEnds
    <3>2. ASSUME NumberMark(end)
          PROVE  Excused(end)'
      <4>1. end - 1 \in chunkEnds /\ Unavoidable(end - 1)
        BY <3>1, <3>2
      <4>2. /\ received' \in Seq(Char) /\ seams \subseteq seams'
            /\ \A i \in 1..Len(received) : received'[i] = received[i]
            /\ chunkEnds \subseteq chunkEnds'
            /\ \A d \in chunkEnds' : d \in chunkEnds \/ (d \in Nat /\ Len(out) < d)
        BY <1>0, <1>5
      <4>3. Unavoidable(end - 1)'
        BY <4>1, <4>2, StaysUnavoidable
      <4>. QED
        BY <1>5, <4>1, <4>3 DEF Excused
    <3>. QED
      BY <2>0, <3>1, <3>2
  <2>2. CASE n \notin MarkCuts(buf)
    <3>1. n \in ForcedCuts(buf)
      BY <2>2 DEF FindBoundary
    <3>2. CASE received[end] \in Blank
      BY <2>0, <3>2 DEF NumberMark, Mark, Blank
    <3>3. CASE received[end] \notin Blank
      <4>1. e = HardMax /\ \A i \in 2..HardMax : buf[i] # "space"
        BY <1>1, <1>e, <3>1, <3>3, ForcedCutEnds
      <4>2. end - HardMax = Len(out) /\ Len(out) \in chunkEnds' \cup {0}
        <5>1. end - HardMax = Len(out)
          BY <1>2, <1>e, <4>1
        <5>2. Len(out) = 0 \/ out # <<>>
          BY <1>0, EmptySeq
        <5>. QED
          BY <1>5, <5>1, <5>2 DEF CoalescerInv, Ends
      <4>3. ASSUME NEW i \in (end - HardMax + 1)..(end - 1)
            PROVE  i \notin chunkEnds'
        <5>1. i > Len(out) /\ i # end
          BY <1>2, <1>5, <4>2
        <5>2. i \notin chunkEnds
          BY <1>2, <5>1 DEF CoalescerInv, Ends
        <5>. QED
          BY <1>5, <5>1, <5>2
      <4>4. ASSUME NEW i \in (end - HardMax + 2)..end
            PROVE  received'[i] # "space"
        <5>1. /\ i - Len(out) \in 2..HardMax
              /\ i - Len(out) \in 1..Len(buf)
              /\ Len(out) + (i - Len(out)) = i
          BY <1>2, <1>e, <4>1, <4>2
        <5>2. received[i] = buf[i - Len(out)]
          BY <5>1, Parts
        <5>. QED
          BY <2>0, <4>1, <5>1, <5>2
      <4>5. Unavoidable(end)'
        BY <4>2, <4>3, <4>4 DEF Unavoidable, EndsAtLimit
      <4>. QED
        BY <4>5 DEF Excused
    <3>. QED
      BY <3>2, <3>3
  <2>. QED
    BY <2>1, <2>2
<1>8. Ends'
  <2>1. Len(out') = end
    BY <1>1, <1>e
  <2>. QED
    BY <1>0, <1>5, <1>6, <1>7, <2>1 DEF CoalescerInv, Ends
<1>9. MarksWhole'
  BY <1>5, <1>6, <1>7 DEF MarksWhole
<1>. QED
  BY <1>0, <1>3, <1>4, <1>8, <1>9 DEF CoalescerInv, Bounded

\* push() returns when there is nothing to cut, and so within the limit.
LEMMA ReturnKeeps ==
  ASSUME CoalescerInv, Return
  PROVE  CoalescerInv'
<1>1. UNCHANGED <<buf, received, out, seams, markEnds, otherEnds>> /\ scanning' = FALSE
  BY DEF Return
<1>2. Len(buf) <= HardMax
  BY NoCutBounded DEF Return, CoalescerInv, TypeOK
<1>. QED
  BY <1>1, <1>2
  DEF CoalescerInv, TypeOK, Conservation, Bounded, Ends, MarksWhole, Excused,
      NumberMark, Digit, Unavoidable, EndsAtLimit, chunkEnds

\* flush() makes a chunk of what is left.
LEMMA FlushKeeps ==
  ASSUME CoalescerInv, Flush
  PROVE  CoalescerInv'
<1>0. /\ buf \in Seq(Char) /\ out \in Seq(Char) /\ received = out \o buf
      /\ received \in Seq(Char)
      /\ UNCHANGED <<scanning, received, seams, markEnds>>
      /\ out' = out \o buf /\ buf' = <<>>
      /\ otherEnds' = otherEnds \cup {Len(received)}
  BY DEF CoalescerInv, TypeOK, Conservation, Flush
<1>1. /\ Len(out) \in Nat /\ Len(buf) \in Nat /\ Len(received) = Len(out) + Len(buf)
      /\ <<>> \in Seq(Char) /\ Len(<<>>) = 0 /\ HardMax \in Nat
  BY <1>0, Prefix, EmptySeq, CoalescerAssumption
<1>2. Conservation'
  BY <1>0, ConcatEmptySeq DEF Conservation
<1>3. TypeOK'
  BY <1>0, <1>1 DEF CoalescerInv, TypeOK
<1>4. /\ chunkEnds' = chunkEnds \cup {Len(received)} /\ Len(received) \in seams
      /\ Len(received) \in Nat /\ Len(out) < Len(received) /\ Len(out') = Len(received)
  <2>1. buf # <<>> /\ Len(buf) > 0
    BY <1>0, <1>1, EmptySeq DEF Flush
  <2>2. received # <<>>
    BY <1>0, <1>1, <2>1, EmptySeq
  <2>3. Len(received) \in seams
    BY <2>2 DEF CoalescerInv, Ends
  <2>. QED
    BY <1>0, <1>1, <2>1, <2>3 DEF chunkEnds
<1>5. \A e \in chunkEnds :
        /\ received'[e] \in Mark \cup Blank \/ Unavoidable(e)'
        /\ NumberMark(e)' => Excused(e)'
  <2>1. /\ received' \in Seq(Char) /\ Len(received) <= Len(received')
        /\ seams \subseteq seams' /\ \A i \in 1..Len(received) : received'[i] = received[i]
    BY <1>0, <1>4
  <2>2. /\ chunkEnds \subseteq chunkEnds'
        /\ \A d \in chunkEnds' : d \in chunkEnds \/ (d \in Nat /\ Len(out) < d)
    BY <1>4
  <2>. QED
    BY <2>1, <2>2, OldEnds
<1>6. Unavoidable(Len(received))'
  BY <1>0, <1>4 DEF Unavoidable
<1>7. Ends'
  BY <1>0, <1>1, <1>4, <1>5, <1>6 DEF CoalescerInv, Ends
<1>8. MarksWhole'
  BY <1>0, <1>4, <1>5, <1>6 DEF MarksWhole, Excused
<1>. QED
  BY <1>0, <1>1, <1>2, <1>3, <1>7, <1>8 DEF CoalescerInv, Bounded

\* Every step keeps the invariant, and at first it holds.
LEMMA CoalescerStep == CoalescerInv /\ [Next]_vars => CoalescerInv'
<1> SUFFICES ASSUME CoalescerInv, [Next]_vars
             PROVE  CoalescerInv'
  OBVIOUS
<1>1. CASE UNCHANGED vars
  BY <1>1
  DEF vars, CoalescerInv, TypeOK, Conservation, Bounded, Ends, MarksWhole, Excused,
      NumberMark, Digit, Unavoidable, EndsAtLimit, chunkEnds
<1>. QED
  BY <1>1, ReceiveKeeps, CutKeeps, ReturnKeeps, FlushKeeps DEF Next

LEMMA CoalescerInit == Init => CoalescerInv
<1> SUFFICES ASSUME Init
             PROVE  CoalescerInv
  OBVIOUS
<1>1. /\ buf = <<>> /\ received = <<>> /\ out = <<>> /\ scanning = FALSE
      /\ seams = {} /\ markEnds = {} /\ otherEnds = {}
  BY DEF Init
<1>2. <<>> \in Seq(Char) /\ Len(<<>>) = 0 /\ <<>> \o <<>> = <<>> /\ HardMax \in Nat
  BY EmptySeq, ConcatEmptySeq, CoalescerAssumption
<1>3. TypeOK /\ Bounded
  <2>1. Bounded
    BY <1>1, <1>2 DEF Bounded
  <2>2. seams \cup markEnds \cup otherEnds \subseteq 0..Len(received)
    BY <1>1
  <2>. QED
    BY <1>1, <1>2, <2>1, <2>2 DEF TypeOK
<1>4. Conservation /\ Ends /\ MarksWhole
  BY <1>1, <1>2 DEF Conservation, Ends, MarksWhole, chunkEnds
<1>. QED
  BY <1>3, <1>4 DEF CoalescerInv

LEMMA CoalescerSafe == Spec => []CoalescerInv
BY CoalescerInit, CoalescerStep, PTL DEF Spec
-----------------------------------------------------------------------------
\* The buffer and the histories are texts, and chunks end within the text.
THEOREM TextTyped == Spec => []TypeOK
<1>1. CoalescerInv => TypeOK
  BY DEF CoalescerInv
<1>. QED
  BY <1>1, CoalescerSafe, PTL

\* No character is lost, duplicated or moved, for all texts and limits.
THEOREM NothingLost == Spec => []Conservation
<1>1. CoalescerInv => Conservation
  BY DEF CoalescerInv
<1>. QED
  BY <1>1, CoalescerSafe, PTL

\* Between calls the buffer is within the limit, whatever the texts.
THEOREM BufferBounded == Spec => []Bounded
<1>1. CoalescerInv => Bounded
  BY DEF CoalescerInv
<1>. QED
  BY <1>1, CoalescerSafe, PTL

\* Whatever made a chunk end, it divides a number only where a push had ended or
\* where the limit was reached without a space to cut at; or it ends with a mark
\* whose first digits had been cut off at such a place.
THEOREM NumbersKept == Spec => []NumbersWhole
<1>1. CoalescerInv => NumbersWhole
  <2> SUFFICES ASSUME CoalescerInv, NEW e \in chunkEnds, DividesNumber(e)
               PROVE  \/ Unavoidable(e)
                      \/ NumberMark(e) /\ e - 1 \in chunkEnds /\ Unavoidable(e - 1)
    BY DEF NumbersWhole
  <2>1. e \in Nat /\ (e + 1) - 1 = e
    <3>1. e \in 1..Len(out)
      BY DEF CoalescerInv, Ends
    <3>. QED
      BY <3>1, Parts
  <2>2. CASE NumberMark(e)
    BY <2>2 DEF CoalescerInv, MarksWhole, Excused
  <2>3. CASE ~NumberMark(e)
    <3>1. received[e] = "digit"
      BY <2>1, <2>3 DEF DividesNumber, NumberMark, Digit
    <3>. QED
      BY <3>1 DEF CoalescerInv, Ends, Mark, Blank
  <2>. QED
    BY <2>2, <2>3
<1>. QED
  BY <1>1, CoalescerSafe, PTL

\* Every turn of push()'s loop shortens the buffer, so that push() returns.
THEOREM PushProgresses == Spec => TurnsShrink
<1>1. CoalescerInv /\ [Next]_vars => [scanning /\ scanning' => Len(buf') < Len(buf)]_vars
  <2> SUFFICES ASSUME CoalescerInv, Next, scanning, scanning'
               PROVE  Len(buf') < Len(buf)
    OBVIOUS
  <2>1. Cut
    BY DEF Next, Receive, Return, Flush
  <2>2. TypeOK /\ Len(buf) \in Nat
    BY LenProperties DEF CoalescerInv, TypeOK
  <2>3. PICK e \in 1..Len(buf) : Len(buf') = Len(buf) - e
    BY <2>1, <2>2, CutShape
  <2>. QED
    BY <2>2, <2>3
<1>. QED
  BY <1>1, CoalescerSafe, PTL DEF Spec, TurnsShrink
=============================================================================
