----------------------------- MODULE Recursion -----------------------------
(***************************************************************************)
(* Induction over the natural numbers, and with it what the recursive      *)
(* definitions compute that the models take from the community modules.    *)
(*                                                                         *)
(* The induction theorems of the library have the property to prove as an  *)
(* operator.  Here it is the set of the numbers that have the property.    *)
(***************************************************************************)
EXTENDS Integers, SequencesExt, SequenceTheorems, WellFoundedInduction, TLAPS

\* A set of numbers that has 0 and with every number the next one has them all: the
\* least number it does not have would be the next one of some that it has.
LEMMA Induction ==
  ASSUME NEW T, 0 \in T, \A m \in Nat : m \in T => m + 1 \in T
  PROVE  Nat \subseteq T
<1> DEFINE R == {p \in Nat \X Nat : p[1] < p[2]}
           U == Nat \ T
<1>1. IsWellFoundedOn(R, Nat)
  BY NatLessThanWellFounded DEF OpToRel
<1>2. \A i, j \in Nat : i < j => <<i, j>> \in R
  OBVIOUS
<1>3. SUFFICES ASSUME U # {} PROVE FALSE
  OBVIOUS
<1> HIDE DEF R
<1>4. PICK m \in U : \A i \in U : <<i, m>> \notin R
  <2>1. U \subseteq Nat
    OBVIOUS
  <2> HIDE DEF U
  <2>. QED
    BY <1>1, <1>3, <2>1, WFMin
<1>5. m # 0 /\ m - 1 \in Nat /\ m - 1 < m
  BY <1>4
<1>6. m - 1 \in T
  BY <1>2, <1>4, <1>5
<1>7. (m - 1) + 1 \in T
  BY <1>5, <1>6
<1>. QED
  BY <1>4, <1>5, <1>7

\* The same up to n.
LEMMA InductionUpTo ==
  ASSUME NEW n \in Nat, NEW T, 0 \in T,
         \A m \in 0..(n - 1) : m \in T => m + 1 \in T
  PROVE  0..n \subseteq T
<1> DEFINE U == {m \in Nat : m <= n => m \in T}
<1>1. 0 \in U
  OBVIOUS
<1>2. ASSUME NEW m \in Nat, m \in U
      PROVE  m + 1 \in U
  BY <1>2
<1> HIDE DEF U
<1>3. Nat \subseteq U
  BY <1>1, <1>2, Induction
<1>. QED
  BY <1>3 DEF U

\* What each of n steps makes of a value, and the values from a on.
Steps(n, A) == [(1..n) \X A -> A]

Run(h, a, n, Step) ==
  h[0] = a /\ \A i \in 1..n : h[i] = Step[<<i, h[i - 1]>>]

\* After each step there is one value.
LEMMA Iterated ==
  ASSUME NEW A, NEW a \in A, NEW n \in Nat, NEW Step \in Steps(n, A)
  PROVE  \E h \in [0..n -> A] : Run(h, a, n, Step)
<1> DEFINE T == {m \in 0..n : \E h \in [0..m -> A] : Run(h, a, m, Step)}
<1>1. 0 \in T
  <2> DEFINE g == [i \in 0..0 |-> a]
  <2>1. g \in [0..0 -> A] /\ Run(g, a, 0, Step)
    BY DEF Run
  <2> HIDE DEF g
  <2>. QED
    BY <2>1
<1>2. ASSUME NEW m \in 0..(n - 1), m \in T
      PROVE  m + 1 \in T
  <2>1. PICK h \in [0..m -> A] : Run(h, a, m, Step)
    BY <1>2
  <2> DEFINE g == [i \in 0..(m + 1) |-> IF i <= m THEN h[i] ELSE Step[<<i, h[m]>>]]
  <2>2. m \in Nat /\ m + 1 \in 1..n /\ h[m] \in A
    OBVIOUS
  <2>3. Step[<<m + 1, h[m]>>] \in A
    BY <2>2 DEF Steps
  <2>4. g \in [0..(m + 1) -> A]
    BY <2>2, <2>3
  <2>5. \A i \in 1..(m + 1) : g[i] = Step[<<i, g[i - 1]>>]
    <3> TAKE i \in 1..(m + 1)
    <3>1. i - 1 \in 0..m /\ g[i - 1] = h[i - 1]
      BY <2>2
    <3>2. CASE i <= m
      BY <2>1, <2>2, <3>1, <3>2 DEF Run
    <3>3. CASE i = m + 1
      BY <2>2, <3>1, <3>3
    <3>. QED
      BY <2>2, <3>2, <3>3
  <2>6. g[0] = a
    BY <2>1, <2>2 DEF Run
  <2>7. Run(g, a, m + 1, Step)
    BY <2>5, <2>6 DEF Run
  <2> HIDE DEF g
  <2>8. m + 1 \in 0..n
    BY <2>2
  <2>. QED
    BY <2>4, <2>7, <2>8
<1> HIDE DEF T
<1>3. n \in T
  BY <1>1, <1>2, InductionUpTo
<1>. QED
  BY <1>3 DEF T
-----------------------------------------------------------------------------
(***************************************************************************)
(* Concatenation.                                                          *)
(***************************************************************************)

\* A sequence that grows at its end keeps its elements.
LEMMA Prefix ==
  ASSUME NEW S, NEW q \in Seq(S), NEW r \in Seq(S)
  PROVE  /\ q \o r \in Seq(S)
         /\ Len(q \o r) = Len(q) + Len(r) /\ Len(q) \in Nat /\ Len(r) \in Nat
         /\ \A i \in 1..Len(q) : (q \o r)[i] = q[i]
         /\ \A i \in 1..Len(r) : (q \o r)[Len(q) + i] = r[i]
<1>1. /\ q \o r \in Seq(S)
      /\ Len(q \o r) = Len(q) + Len(r)
      /\ \A i \in 1..(Len(q) + Len(r)) :
           (q \o r)[i] = IF i <= Len(q) THEN q[i] ELSE r[i - Len(q)]
  BY ConcatProperties
<1>2. Len(q) \in Nat /\ Len(r) \in Nat
  BY LenProperties
<1>3. \A i \in 1..Len(q) : (q \o r)[i] = q[i]
  BY <1>1, <1>2
<1>4. \A i \in 1..Len(r) : (q \o r)[Len(q) + i] = r[i]
  <2> SUFFICES ASSUME NEW i \in 1..Len(r)
               PROVE  (q \o r)[Len(q) + i] = r[i]
    OBVIOUS
  <2>1. Len(q) + i \in 1..(Len(q) + Len(r)) /\ ~(Len(q) + i <= Len(q)) /\ (Len(q) + i) - Len(q) = i
    BY <1>2
  <2>. QED
    BY <1>1, <2>1
<1>. QED
  BY <1>1, <1>2, <1>3, <1>4

\* Sequences may be put together in any order.
LEMMA Regroup ==
  ASSUME NEW S, NEW p \in Seq(S), NEW q \in Seq(S), NEW r \in Seq(S)
  PROVE  (p \o q) \o r = p \o (q \o r)
<1> DEFINE pq == p \o q
           left == pq \o r
           qr == q \o r
           right == p \o qr
<1>1. /\ pq \in Seq(S)
      /\ Len(pq) = Len(p) + Len(q) /\ Len(p) \in Nat /\ Len(q) \in Nat
      /\ \A i \in 1..Len(p) : pq[i] = p[i]
      /\ \A i \in 1..Len(q) : pq[Len(p) + i] = q[i]
  BY Prefix
<1>2. /\ qr \in Seq(S)
      /\ Len(qr) = Len(q) + Len(r) /\ Len(r) \in Nat
      /\ \A i \in 1..Len(q) : qr[i] = q[i]
      /\ \A i \in 1..Len(r) : qr[Len(q) + i] = r[i]
  BY Prefix
<1> HIDE DEF pq, qr
<1>3. /\ left \in Seq(S)
      /\ Len(left) = Len(pq) + Len(r)
      /\ \A i \in 1..Len(pq) : left[i] = pq[i]
      /\ \A i \in 1..Len(r) : left[Len(pq) + i] = r[i]
  <2>1. pq \in Seq(S)
    BY <1>1
  <2>. QED
    BY <2>1, Prefix
<1>4. /\ right \in Seq(S)
      /\ Len(right) = Len(p) + Len(qr)
      /\ \A i \in 1..Len(p) : right[i] = p[i]
      /\ \A i \in 1..Len(qr) : right[Len(p) + i] = qr[i]
  <2>1. qr \in Seq(S)
    BY <1>2
  <2>. QED
    BY <2>1, Prefix
<1> HIDE DEF left, right
<1>5. ASSUME NEW i \in 1..Len(left)
      PROVE  left[i] = right[i]
  <2>1. i \in Nat \ {0} /\ Len(p) \in Nat /\ Len(q) \in Nat /\ Len(r) \in Nat
    BY <1>1, <1>2, <1>3
  <2>2. CASE i <= Len(p)
    <3>1. i \in 1..Len(p) /\ i \in 1..Len(pq)
      BY <1>1, <2>1, <2>2
    <3>. QED
      BY <1>1, <1>3, <1>4, <3>1
  <2>3. CASE Len(p) < i /\ i <= Len(p) + Len(q)
    <3> DEFINE j == i - Len(p)
    <3>1. j \in 1..Len(q) /\ j \in 1..Len(qr) /\ i \in 1..Len(pq) /\ i = Len(p) + j
      BY <1>1, <1>2, <2>1, <2>3
    <3> HIDE DEF j
    <3>. QED
      BY <1>1, <1>2, <1>3, <1>4, <3>1
  <2>4. CASE Len(p) + Len(q) < i
    <3> DEFINE j == i - Len(p) - Len(q)
    <3>1. /\ j \in 1..Len(r) /\ i = Len(pq) + j
          /\ Len(q) + j \in 1..Len(qr) /\ i = Len(p) + (Len(q) + j)
      BY <1>1, <1>2, <1>3, <2>1, <2>4
    <3> HIDE DEF j
    <3>2. left[i] = r[j]
      BY <1>3, <3>1
    <3>3. right[i] = qr[Len(q) + j]
      BY <1>4, <3>1
    <3>4. qr[Len(q) + j] = r[j]
      BY <1>2, <3>1
    <3>. QED
      BY <3>2, <3>3, <3>4
  <2>. QED
    BY <2>1, <2>2, <2>3, <2>4
<1>6. Len(left) = Len(right)
  BY <1>1, <1>2, <1>3, <1>4
<1>7. left \in Seq(S) /\ right \in Seq(S)
  BY <1>3, <1>4
<1>8. left = right
  BY <1>5, <1>6, <1>7, SeqEqual
<1>. QED
  BY <1>8 DEF left, right, pq, qr

-----------------------------------------------------------------------------
(***************************************************************************)
(* FlattenSeq().                                                           *)
(***************************************************************************)

\* FlattenSeq(s) is what is there after all sequences of s have been appended, one
\* after the other.
LEMMA FlattenIs ==
  ASSUME NEW S, NEW n \in Nat, NEW s \in [1..n -> Seq(S)],
         NEW h \in [0..n -> Seq(S)], h[0] = <<>>,
         \A i \in 1..n : h[i] = h[i - 1] \o s[i]
  PROVE  FlattenSeq(s) = h[n]
<1>0. s \in Seq(Seq(S)) /\ Len(s) = n
  OBVIOUS
<1>1. CASE n = 0
  <2>1. s = <<>>
    BY <1>0, <1>1
  <2>. QED
    BY <1>0, <1>1, <2>1 DEF FlattenSeq
<1>2. CASE n # 0
  <2> DEFINE Rec(f) == [i \in 1..Len(s) |-> IF i = 1 THEN s[i] ELSE f[i - 1] \o s[i]]
             F == CHOOSE f : f = Rec(f)
             g == [i \in 1..n |-> h[i]]
  <2>1. FlattenSeq(s) = F[Len(s)]
    BY <1>0, <1>2 DEF FlattenSeq
  <2>2. h[1] = s[1]
    <3>1. 1 \in 1..n /\ 1 - 1 = 0
      BY <1>2
    <3>2. h[1] = <<>> \o s[1] /\ s[1] \in Seq(S)
      BY <3>1
    <3>. QED
      BY <3>2, ConcatEmptySeq
  <2>3. g = Rec(g)
    <3>1. ASSUME NEW i \in 1..n
          PROVE  h[i] = IF i = 1 THEN s[i] ELSE g[i - 1] \o s[i]
      <4>1. i # 1 => i - 1 \in 1..n
        OBVIOUS
      <4>2. i # 1 => g[i - 1] = h[i - 1]
        BY <4>1
      <4> HIDE DEF g
      <4>. QED
        BY <2>2, <4>2
    <3>. QED
      BY <1>0, <3>1
  <2> HIDE DEF g
  <2>4. F = Rec(F)
    BY <2>3
  <2> HIDE DEF F
  <2> DEFINE T == {m \in 0..n : m = 0 \/ F[m] = h[m]}
  <2>5. ASSUME NEW m \in 0..(n - 1), m \in T
        PROVE  m + 1 \in T
    <3>1. m + 1 \in 1..n /\ (m + 1) - 1 = m
      OBVIOUS
    <3>2. F[m + 1] = IF m + 1 = 1 THEN s[m + 1] ELSE F[(m + 1) - 1] \o s[m + 1]
      BY <1>0, <2>4, <3>1
    <3>3. m + 1 # 1 => F[m] = h[m]
      BY <2>5
    <3>4. F[m + 1] = h[m + 1]
      BY <2>2, <3>1, <3>2, <3>3
    <3>. QED
      BY <3>1, <3>4
  <2>6. 0 \in T
    OBVIOUS
  <2>61. \A m \in 0..(n - 1) : m \in T => m + 1 \in T
    BY <2>5
  <2> HIDE DEF T
  <2>7. 0..n \subseteq T
    BY ONLY <2>61, <2>6, n \in Nat, InductionUpTo
  <2>. QED
    BY <1>0, <1>2, <2>1, <2>7 DEF T
<1>. QED
  BY <1>1, <1>2

\* What is there after each sequence.
LEMMA Flattened ==
  ASSUME NEW S, NEW s \in Seq(Seq(S))
  PROVE  /\ FlattenSeq(s) \in Seq(S)
         /\ \E h \in [0..Len(s) -> Seq(S)] :
              /\ h[0] = <<>> /\ h[Len(s)] = FlattenSeq(s)
              /\ \A i \in 1..Len(s) : h[i] = h[i - 1] \o s[i]
<1> DEFINE n == Len(s)
           Step == [p \in (1..n) \X Seq(S) |-> p[2] \o s[p[1]]]
<1>1. n \in Nat /\ s \in [1..n -> Seq(S)]
  BY LenProperties
<1>2. ASSUME NEW p \in (1..n) \X Seq(S)
      PROVE  p[2] \o s[p[1]] \in Seq(S)
  <2>1. p[2] \in Seq(S) /\ s[p[1]] \in Seq(S)
    BY <1>1
  <2>. QED
    BY <2>1, ConcatProperties
<1>3. Step \in Steps(n, Seq(S))
  BY <1>2 DEF Steps
<1>4. <<>> \in Seq(S)
  OBVIOUS
<1> HIDE DEF n, Step
<1>5. PICK h \in [0..n -> Seq(S)] : Run(h, <<>>, n, Step)
  BY <1>1, <1>3, <1>4, Iterated
<1>6. ASSUME NEW i \in 1..n
      PROVE  h[i] = h[i - 1] \o s[i]
  <2>1. i - 1 \in 0..n
    BY <1>1
  <2>2. <<i, h[i - 1]>> \in (1..n) \X Seq(S)
    BY <1>5, <2>1
  <2>. QED
    BY <1>5, <2>2 DEF Step, Run
<1>7. FlattenSeq(s) = h[n]
  BY <1>1, <1>5, <1>6, FlattenIs DEF Run
<1>8. h[n] \in Seq(S)
  BY <1>1, <1>5
<1>. QED
  BY <1>5, <1>6, <1>7, <1>8 DEF n, Run

\* Two sequences put together are flattened one after the other.
LEMMA FlattenConcat ==
  ASSUME NEW S, NEW s \in Seq(Seq(S)), NEW t \in Seq(Seq(S))
  PROVE  FlattenSeq(s \o t) = FlattenSeq(s) \o FlattenSeq(t)
<1>0. ASSUME NEW p \in Seq(S), NEW q \in Seq(S), NEW r \in Seq(S)
      PROVE  (p \o q) \o r = p \o (q \o r)
  BY ONLY Regroup, SMTT(30)
<1> DEFINE m == Len(s)
           k == Len(t)
<1>1. m \in Nat /\ k \in Nat
  BY LenProperties
<1>2. PICK f \in [0..m -> Seq(S)] :
        /\ f[0] = <<>> /\ f[m] = FlattenSeq(s)
        /\ \A i \in 1..m : f[i] = f[i - 1] \o s[i]
  BY Flattened
<1>3. PICK g \in [0..k -> Seq(S)] :
        /\ g[0] = <<>> /\ g[k] = FlattenSeq(t)
        /\ \A i \in 1..k : g[i] = g[i - 1] \o t[i]
  BY Flattened
<1>4. /\ s \o t \in [1..(m + k) -> Seq(S)]
      /\ \A i \in 1..m : (s \o t)[i] = s[i]
      /\ \A i \in 1..k : (s \o t)[m + i] = t[i] /\ t[i] \in Seq(S)
  <2>1. /\ s \o t \in Seq(Seq(S)) /\ Len(s \o t) = m + k
        /\ \A i \in 1..(m + k) : (s \o t)[i] = IF i <= m THEN s[i] ELSE t[i - m]
    BY ConcatProperties
  <2>2. s \o t \in [1..(m + k) -> Seq(S)]
    BY <2>1, LenProperties
  <2>3. \A i \in 1..m : (s \o t)[i] = s[i]
    BY <1>1, <2>1
  <2>4. ASSUME NEW i \in 1..k
        PROVE  (s \o t)[m + i] = t[i] /\ t[i] \in Seq(S)
    <3>1. m + i \in 1..(m + k) /\ ~(m + i <= m) /\ (m + i) - m = i
      BY <1>1
    <3>2. t[i] \in Seq(S)
      BY ElementOfSeq
    <3>. QED
      BY <2>1, <3>1, <3>2
  <2>. QED
    BY <2>2, <2>3, <2>4
<1> HIDE DEF m, k
<1> DEFINE h == [i \in 0..(m + k) |-> IF i <= m THEN f[i] ELSE f[m] \o g[i - m]]
<1>5. f[m] \in Seq(S)
  BY <1>1
<1>6. ASSUME NEW i \in 0..k
      PROVE  h[m + i] = f[m] \o g[i] /\ g[i] \in Seq(S)
  <2>1. m + i \in 0..(m + k) /\ (m + i) - m = i /\ g[i] \in Seq(S)
    BY <1>1
  <2>2. CASE i = 0
    <3>1. h[m + i] = f[m] /\ g[i] = <<>>
      BY <1>1, <1>3, <2>1, <2>2
    <3>. QED
      BY <1>5, <2>1, <3>1, ConcatEmptySeq
  <2>3. CASE i # 0
    BY <1>1, <2>1, <2>3
  <2>. QED
    BY <2>2, <2>3
<1>7. \A i \in 0..m : h[i] = f[i]
  BY <1>1
<1>8. h \in [0..(m + k) -> Seq(S)]
  <2>1. ASSUME NEW i \in 0..(m + k)
        PROVE  h[i] \in Seq(S)
    <3>1. CASE i <= m
      BY <1>1, <1>7, <3>1
    <3>2. CASE i > m
      <4>1. i - m \in 0..k /\ m + (i - m) = i
        BY <1>1, <3>2
      <4>2. h[i] = f[m] \o g[i - m] /\ g[i - m] \in Seq(S)
        BY <1>6, <4>1
      <4> DEFINE p == f[m]
                 q == g[i - m]
      <4>3. p \in Seq(S) /\ q \in Seq(S) /\ h[i] = p \o q
        BY ONLY <1>5, <4>2
      <4> HIDE DEF h, p, q
      <4>4. p \o q \in Seq(S)
        BY ONLY <4>3, ConcatProperties
      <4>. QED
        BY <4>3, <4>4
    <3>. QED
      BY <1>1, <3>1, <3>2
  <2>. QED
    BY <2>1
<1>9. ASSUME NEW i \in 1..(m + k)
      PROVE  h[i] = h[i - 1] \o (s \o t)[i]
  <2>1. CASE i <= m
    <3>1. i \in 1..m /\ i - 1 \in 0..m
      BY <1>1, <2>1
    <3> HIDE DEF h
    <3>2. f[i] = f[i - 1] \o s[i] /\ (s \o t)[i] = s[i]
      BY <1>2, <1>4, <3>1
    <3>3. h[i] = f[i] /\ h[i - 1] = f[i - 1]
      BY <1>7, <3>1, <1>1
    <3>. QED
      BY <3>2, <3>3
  <2>2. CASE i > m
    <3> DEFINE j == i - m
    <3>1. j \in 1..k /\ j - 1 \in 0..k /\ j \in 0..k /\ i = m + j /\ i - 1 = m + (j - 1)
      BY <1>1, <2>2
    <3> HIDE DEF j, h
    <3>2. h[i] = f[m] \o g[j] /\ h[i - 1] = f[m] \o g[j - 1] /\ g[j - 1] \in Seq(S)
      BY <1>6, <3>1
    <3>3. g[j] = g[j - 1] \o t[j] /\ (s \o t)[i] = t[j] /\ t[j] \in Seq(S)
      BY <1>3, <1>4, <3>1
    <3>4. (f[m] \o g[j - 1]) \o t[j] = f[m] \o (g[j - 1] \o t[j])
      <4> DEFINE p == f[m]
                 q == g[j - 1]
                 r == t[j]
      <4>1. p \in Seq(S) /\ q \in Seq(S) /\ r \in Seq(S)
        <5>1. p \in Seq(S)
          BY ONLY <1>5
        <5>2. q \in Seq(S)
          BY ONLY <3>2
        <5>3. r \in Seq(S)
          BY ONLY <3>3
        <5>. QED
          BY ONLY <5>1, <5>2, <5>3
      <4> HIDE DEF p, q, r
      <4>2. (p \o q) \o r = p \o (q \o r)
        BY ONLY <4>1, <1>0, Zenon
      <4>. QED
        BY ONLY <4>2 DEF p, q, r
    <3>. QED
      BY <3>2, <3>3, <3>4
  <2> HIDE DEF h
  <2>3. i <= m \/ i > m
    BY <1>1
  <2>. QED
    BY <2>1, <2>2, <2>3
<1>10. h[0] = <<>> /\ h[m + k] = FlattenSeq(s) \o FlattenSeq(t)
  <2>1. 0 \in 0..m /\ k \in 0..k
    BY <1>1
  <2> HIDE DEF h
  <2>. QED
    BY <1>2, <1>3, <1>6, <1>7, <2>1
<1>11. m + k \in Nat
  BY <1>1
<1> HIDE DEF h
<1>. QED
  BY <1>4, <1>8, <1>9, <1>10, <1>11, FlattenIs

\* A sequence put at the end is at the end of what is flattened.
LEMMA FlattenAppend ==
  ASSUME NEW S, NEW s \in Seq(Seq(S)), NEW e \in Seq(S)
  PROVE  FlattenSeq(Append(s, e)) = FlattenSeq(s) \o e
<1>1. <<e>> \in Seq(Seq(S)) /\ Append(s, e) = s \o <<e>>
  BY AppendIsConcat
<1>2. FlattenSeq(<<e>>) = e
  <2>1. PICK q : q = <<e>>
    OBVIOUS
  <2>2. q \in Seq(Seq(S)) /\ Len(q) = 1 /\ q[1] = e
    BY <2>1
  <2>3. q \in [1..1 -> Seq(S)]
    BY <2>2, LenProperties
  <2> DEFINE h == [i \in 0..1 |-> IF i = 0 THEN <<>> ELSE e]
  <2>4. h \in [0..1 -> Seq(S)] /\ h[0] = <<>> /\ h[1] = e
    OBVIOUS
  <2> HIDE DEF h
  <2>5. h[1] = h[0] \o q[1]
    BY <2>2, <2>4, ConcatEmptySeq
  <2>6. ASSUME NEW i \in 1..1
        PROVE  h[i] = h[i - 1] \o q[i]
    <3>1. i = 1 /\ i - 1 = 0
      OBVIOUS
    <3>. QED
      BY ONLY <2>5, <3>1
  <2>7. FlattenSeq(q) = h[1]
    BY <2>3, <2>4, <2>6, FlattenIs
  <2>. QED
    BY <2>1, <2>4, <2>7
<1>. QED
  BY <1>1, <1>2, FlattenConcat
=============================================================================
