---------------------------- MODULE WorkerProofs ----------------------------
(***************************************************************************)
(* Proofs about Worker: for any number of workers and threads, any voices  *)
(* and any machine, the style cache, the hit counters and the device.      *)
(*                                                                         *)
(* What threads do between two of their accesses is counted: Calling is    *)
(* the set of the threads that are at certain points of a call for one     *)
(* voice of one worker.  A step of a thread moves it into such a set, or   *)
(* out of it, and changes no other.                                        *)
(***************************************************************************)
EXTENDS Worker, Recursion, FiniteSetTheorems, TLAPS

USE WorkerAssumption
-----------------------------------------------------------------------------
Calling(points, w, v) ==
  {i \in Runners : /\ thread[i].at \in points
                   /\ thread[i].worker = w
                   /\ thread[i].voice = v}

Loading(w, v) == Calling({"miss", "load"}, w, v)
Storing(w, v) == Calling({"store"}, w, v)
Fetching(w, v) == Calling({"miss", "load", "store", "hit", "count"}, w, v)

\* start() calls before the executor's threads do.
Phases ==
  /\ \A i \in Threads : ~At(i, "idle") => boot = "done"
  /\ ~At(Boot, "idle") => boot = "warm"

\* A style that was loaded is of the voice it is kept or held for.
StylesKept ==
  /\ \A w \in Workers, v \in VoiceNames :
       cache[w][v] = NoStyle \/ (cache[w][v].voice = v /\ cache[w][v].load > 0)
  /\ \A i \in Runners : thread[i].at \in {"store", "hit", "count", "synth"} =>
       thread[i].style.voice = thread[i].voice /\ thread[i].style.load > 0

\* Each call loads and returns a style at most once.
CallsCounted ==
  \A w \in Workers, v \in VoiceNames :
    /\ loads[w][v] + Cardinality(Loading(w, v)) <= calls
    /\ fetches[w][v] + Cardinality(Fetching(w, v)) <= calls
    /\ hits[w][v] <= fetches[w][v]

\* The counter a thread has read was right at some time.
SeenBounded ==
  \A i \in Runners : At(i, "count") =>
    thread[i].seen <= fetches[thread[i].worker][thread[i].voice]

\* Who loads a style started before the first one was stored.
LoadsPending ==
  \A w \in Workers, v \in VoiceNames :
    /\ loads[w][v] + Cardinality(Loading(w, v)) <= Cardinality(Threads)
    /\ cache[w][v] = NoStyle => loads[w][v] <= Cardinality(Storing(w, v))

\* Calls that do not overlap.
Serialized ==
  /\ \A i, j \in Runners :
       /\ ~At(i, "idle") /\ ~At(j, "idle")
       /\ thread[i].worker = thread[j].worker
       /\ thread[i].worker \notin overlapped
       => i = j
  /\ \A i \in Runners : thread[i].worker \notin overlapped =>
       /\ thread[i].at \in {"miss", "load"} =>
            loads[thread[i].worker][thread[i].voice] = 0
       /\ At(i, "count") => thread[i].seen = hits[thread[i].worker][thread[i].voice]

\* The device the answer of cuda_is_usable() leads to, once there is one.
Target == IF WantsGpu /\ usable = "yes" THEN "cuda" ELSE "cpu"

OnTarget ==
  /\ boot = "load" => providers = Target
  /\ \A w \in Workers : model[w] \in {"none", Target}
  /\ WantsGpu /\ usable = "unknown" =>
       boot # "load" /\ \A w \in Workers : model[w] = "none"

\* A machine with all wheels in one directory, where a probe never fails.
Complete(m) ==
  /\ m.onnxruntime /\ m.cudaBuild
  /\ \E root \in DOMAIN m.wheels : m.wheels[root] = Components

NeverNo == Complete(machine) => usable # "no"

WorkerInv ==
  /\ TypeOK /\ Phases /\ StylesKept /\ CallsCounted /\ SeenBounded
  /\ LoadsPending /\ Serialized /\ SerialContract
  /\ OnTarget /\ NeverNo
-----------------------------------------------------------------------------
(***************************************************************************)
(* Constants and sets.                                                     *)
(***************************************************************************)

\* What a thread does.
CallState ==
  [at : {"idle"} \cup Busy, worker : Workers, voice : VoiceNames, style : Style,
   seen : 0..MaxCalls]

\* The default values are of their types.
LEMMA Defaults ==
  /\ NoVoice \in VoiceNames
  /\ NoStyle \in Style
  /\ Idle \in CallState
  /\ 1 \in Workers
<1>1. NoVoice \in VoiceNames
  <2>1. PICK entry \in Shipped : IsVoiceFile(entry)
    OBVIOUS
  <2>2. VoiceOf(entry).name \in Names(Found \cup Shipped)
    BY <2>1 DEF Names, ListVoices
  <2>. QED
    BY <2>2 DEF NoVoice
<1>2. NoStyle \in Style
  BY <1>1 DEF NoStyle, Style
<1>3. 1 \in Workers
  BY DEF Workers
<1>. QED
  BY <1>1, <1>2, <1>3 DEF Idle, CallState

\* The voices of the catalogue are among those clients use.
LEMMA CatalogueKnown ==
  ASSUME TypeOK, NEW v \in FirstVoices(disk)
  PROVE  v.name \in VoiceNames
<1>1. Names(disk) \subseteq Names(Found \cup Shipped)
  BY DEF TypeOK, Names, ListVoices
<1>2. v.name \in Names(disk)
  BY DEF FirstVoices, Names
<1>. QED
  BY <1>1, <1>2

\* There are finitely many threads.
LEMMA RunnersFinite ==
  /\ IsFiniteSet(Runners)
  /\ Cardinality(Threads) \in Nat \ {0}
<1>1. Cardinality(Threads) \in Nat /\ Cardinality(Threads) # 0
  BY FS_CardinalityType, FS_EmptySet
<1>2. IsFiniteSet(Runners)
  BY FS_AddElement DEF Runners
<1>. QED
  BY <1>1, <1>2

\* Of two sets that agree on all elements but one, the sizes differ by that one.
LEMMA OneMoves ==
  ASSUME NEW R, IsFiniteSet(R), NEW i \in R,
         NEW A \in SUBSET R, NEW B \in SUBSET R,
         \A j \in R : j # i => (j \in A <=> j \in B)
  PROVE  /\ Cardinality(A) \in Nat /\ Cardinality(B) \in Nat
         /\ (i \in A <=> i \in B) => Cardinality(B) = Cardinality(A)
         /\ i \notin A /\ i \in B => Cardinality(B) = Cardinality(A) + 1
         /\ i \in A /\ i \notin B => Cardinality(B) = Cardinality(A) - 1
<1>1. IsFiniteSet(A) /\ IsFiniteSet(B)
  BY FS_Subset
<1>2. Cardinality(A) \in Nat /\ Cardinality(B) \in Nat
  BY <1>1, FS_CardinalityType
<1>3. (i \in A <=> i \in B) => A = B
  <2>1. \A j : (i \in A <=> i \in B) => (j \in A <=> j \in B)
    OBVIOUS
  <2>. QED
    BY ONLY <2>1
<1>4. ASSUME i \notin A, i \in B
      PROVE  Cardinality(B) = Cardinality(A) + 1
  <2>1. B = A \cup {i}
    BY <1>4
  <2>. QED
    BY <1>1, <1>4, <2>1, FS_AddElement
<1>5. ASSUME i \in A, i \notin B
      PROVE  Cardinality(B) = Cardinality(A) - 1
  <2>1. A = B \cup {i}
    BY <1>5
  <2>2. Cardinality(A) = Cardinality(B) + 1
    BY <1>1, <1>5, <2>1, FS_AddElement
  <2>. QED
    BY <1>2, <2>2
<1>. QED
  BY <1>2, <1>3, <1>4, <1>5
-----------------------------------------------------------------------------
(***************************************************************************)
(* The shapes of the steps.                                                *)
(***************************************************************************)

\* What a step of thread i leaves alone: the other threads, and, unless its call
\* ends, the call's worker and voice.
OthersStay(i) == \A j \in Runners : j # i => thread'[j] = thread[j]

SameCall(i) ==
  /\ thread'[i].worker = thread[i].worker
  /\ thread'[i].voice = thread[i].voice

\* A step to another point of the call.
LEMMA GoesShape ==
  ASSUME TypeOK, NEW i \in Runners, NEW p \in Busy, Goes(i, p)
  PROVE  /\ thread' \in [Runners -> CallState]
         /\ OthersStay(i) /\ SameCall(i)
         /\ thread'[i].at = p
         /\ thread'[i].style = thread[i].style
         /\ thread'[i].seen = thread[i].seen
<1>1. thread \in [Runners -> CallState]
  BY DEF TypeOK, CallState
<1>. QED
  BY <1>1 DEF Goes, OthersStay, SameCall, CallState

\* The end of a call.
LEMMA IdleShape ==
  ASSUME TypeOK, NEW i \in Runners, thread' = [thread EXCEPT ![i] = Idle]
  PROVE  /\ thread' \in [Runners -> CallState]
         /\ OthersStay(i)
         /\ thread'[i] = Idle
         /\ At(i, "idle")'
<1>1. thread \in [Runners -> CallState]
  BY DEF TypeOK, CallState
<1>. QED
  BY <1>1, Defaults DEF OthersStay, CallState, Idle, At

\* The start of a call.
LEMMA BeginShape ==
  ASSUME TypeOK, NEW i \in Runners, NEW w \in Workers, NEW v \in VoiceNames, Begin(i, w, v)
  PROVE  /\ thread' \in [Runners -> CallState]
         /\ OthersStay(i)
         /\ At(i, "idle")
         /\ thread'[i].worker = w /\ thread'[i].voice = v
         /\ thread'[i].style = cache[w][v]
         /\ thread'[i].at = IF cache[w][v] = NoStyle THEN "miss" ELSE "hit"
         /\ calls' \in 0..MaxCalls /\ calls' = calls + 1
<1>1. /\ thread \in [Runners -> CallState]
      /\ cache[w][v] \in Style
      /\ calls \in 0..MaxCalls /\ MaxCalls \in Nat
  BY DEF TypeOK, CallState
<1>2. [at |-> IF cache[w][v] = NoStyle THEN "miss" ELSE "hit",
       worker |-> w, voice |-> v, style |-> cache[w][v], seen |-> 0] \in CallState
  BY <1>1 DEF CallState, Busy
<1>3. calls' \in 0..MaxCalls /\ calls' = calls + 1
  BY <1>1 DEF Begin
<1>. QED
  BY <1>1, <1>2, <1>3 DEF Begin, OthersStay

\* A thread at some points of a call is counted there.
LEMMA CountedThere ==
  ASSUME NEW i \in Runners, NEW points, thread[i].at \in points,
         NEW w, w = thread[i].worker, NEW v, v = thread[i].voice
  PROVE  Cardinality(Calling(points, w, v)) \in Nat \ {0}
<1>1. i \in Calling(points, w, v) /\ Calling(points, w, v) \subseteq Runners
  BY DEF Calling
<1>2. IsFiniteSet(Calling(points, w, v))
  BY <1>1, RunnersFinite, FS_Subset
<1>. QED
  BY <1>1, <1>2, FS_CardinalityType, FS_EmptySet

\* Where threads are counted within a bound there is room for one more.
LEMMA RoomLeft ==
  ASSUME NEW n \in Nat, NEW k \in 0..n, NEW x \in 0..n, NEW c \in Nat \ {0}, x + c <= k
  PROVE  x + 1 \in 0..n
OBVIOUS

\* A style that has been loaded; the number of loads stays within its bound.
LEMMA LoadShape ==
  ASSUME TypeOK, CallsCounted, NEW i \in Runners, LoadStyle(i),
         NEW w, w = thread[i].worker, NEW v, v = thread[i].voice
  PROVE  /\ At(i, "load") /\ w \in Workers /\ v \in VoiceNames
         /\ thread' \in [Runners -> CallState]
         /\ OthersStay(i) /\ SameCall(i)
         /\ thread'[i].at = "store"
         /\ thread'[i].style.voice = v /\ thread'[i].style.load > 0
         /\ loads' \in [Workers -> [VoiceNames -> 0..MaxCalls]]
         /\ loads' = [loads EXCEPT ![w][v] = loads[w][v] + 1]
<1>1. /\ thread \in [Runners -> CallState]
      /\ loads \in [Workers -> [VoiceNames -> 0..MaxCalls]]
      /\ calls \in 0..MaxCalls /\ MaxCalls \in Nat
      /\ w \in Workers /\ v \in VoiceNames
  BY DEF TypeOK, CallState
<1>2. At(i, "load")
  BY DEF LoadStyle
<1>3. loads[w][v] + 1 \in 0..MaxCalls
  <2>1. Cardinality(Loading(w, v)) \in Nat \ {0}
    BY <1>2, CountedThere DEF At, Loading
  <2>2. loads[w][v] + Cardinality(Loading(w, v)) <= calls /\ loads[w][v] \in 0..MaxCalls
    BY <1>1 DEF CallsCounted
  <2>. QED
    BY <1>1, <2>1, <2>2, RoomLeft
<1>4. loads' = [loads EXCEPT ![w][v] = loads[w][v] + 1]
  BY DEF LoadStyle
<1>5. thread' = [thread EXCEPT
        ![i].at = "store", ![i].style = [voice |-> v, load |-> loads[w][v] + 1]]
  BY DEF LoadStyle
<1>6. loads' \in [Workers -> [VoiceNames -> 0..MaxCalls]]
  BY <1>1, <1>3, <1>4
<1>7. [voice |-> v, load |-> loads[w][v] + 1] \in Style
  BY <1>1, <1>3 DEF Style
<1>8. [thread[i] EXCEPT !.at = "store", !.style = [voice |-> v, load |-> loads[w][v] + 1]]
        \in CallState
  <2> DEFINE s == [voice |-> v, load |-> loads[w][v] + 1]
  <2>1. thread[i] \in CallState /\ s \in Style
    BY <1>1, <1>7
  <2> HIDE DEF s
  <2>2. [thread[i] EXCEPT !.at = "store", !.style = s] \in CallState
    BY <2>1 DEF CallState, Busy
  <2>. QED
    BY <2>2 DEF s
<1>9. thread' \in [Runners -> CallState]
  BY <1>1, <1>5, <1>8
<1>10. /\ thread'[i].at = "store"
       /\ thread'[i].style.voice = v /\ thread'[i].style.load = loads[w][v] + 1
       /\ OthersStay(i) /\ SameCall(i)
  BY <1>1, <1>5 DEF OthersStay, SameCall, CallState
<1>11. loads[w][v] + 1 > 0
  <2>1. loads[w][v] \in Nat
    BY <1>1
  <2>. QED
    BY <2>1
<1>. QED
  BY <1>1, <1>2, <1>4, <1>6, <1>9, <1>10, <1>11

\* The hit counter has been read.
LEMMA ReadShape ==
  ASSUME TypeOK, NEW i \in Runners, ReadHits(i)
  PROVE  /\ At(i, "hit")
         /\ thread' \in [Runners -> CallState]
         /\ OthersStay(i) /\ SameCall(i)
         /\ thread'[i].at = "count"
         /\ thread'[i].style = thread[i].style
         /\ thread'[i].seen = hits[thread[i].worker][thread[i].voice]
<1>1. /\ thread \in [Runners -> CallState]
      /\ hits \in [Workers -> [VoiceNames -> 0..MaxCalls]]
  BY DEF TypeOK, CallState
<1>2. hits[thread[i].worker][thread[i].voice] \in 0..MaxCalls
  BY <1>1 DEF CallState
<1>. QED
  BY <1>1, <1>2 DEF ReadHits, OthersStay, SameCall, CallState, Busy

\* The hit counter has been written; it stays within its bound.
LEMMA WriteShape ==
  ASSUME TypeOK, CallsCounted, SeenBounded, NEW i \in Runners, WriteHits(i),
         NEW w, w = thread[i].worker, NEW v, v = thread[i].voice
  PROVE  /\ At(i, "count") /\ w \in Workers /\ v \in VoiceNames
         /\ hits' = [hits EXCEPT ![w][v] = thread[i].seen + 1]
         /\ fetches' = [fetches EXCEPT ![w][v] = fetches[w][v] + 1]
         /\ thread[i].seen \in Nat /\ thread[i].seen <= fetches[w][v]
         /\ hits' \in [Workers -> [VoiceNames -> 0..MaxCalls]]
         /\ fetches' \in [Workers -> [VoiceNames -> 0..MaxCalls]]
<1>1. /\ thread \in [Runners -> CallState]
      /\ hits \in [Workers -> [VoiceNames -> 0..MaxCalls]]
      /\ fetches \in [Workers -> [VoiceNames -> 0..MaxCalls]]
      /\ calls \in 0..MaxCalls /\ MaxCalls \in Nat
      /\ w \in Workers /\ v \in VoiceNames
  BY DEF TypeOK, CallState
<1>2. At(i, "count")
  BY DEF WriteHits
<1>3. fetches[w][v] + 1 \in 0..MaxCalls
  <2>1. Cardinality(Fetching(w, v)) \in Nat \ {0}
    BY <1>2, CountedThere DEF At, Fetching
  <2>2. fetches[w][v] + Cardinality(Fetching(w, v)) <= calls /\ fetches[w][v] \in 0..MaxCalls
    BY <1>1 DEF CallsCounted
  <2>. QED
    BY <1>1, <2>1, <2>2, RoomLeft
<1>4. thread[i].seen \in 0..MaxCalls /\ thread[i].seen <= fetches[w][v]
  BY <1>1, <1>2 DEF SeenBounded, CallState
<1>5. thread[i].seen + 1 \in 0..MaxCalls
  BY <1>1, <1>3, <1>4
<1>6. /\ hits' = [hits EXCEPT ![w][v] = thread[i].seen + 1]
      /\ fetches' = [fetches EXCEPT ![w][v] = fetches[w][v] + 1]
  BY DEF WriteHits, Counted
<1>7. hits' \in [Workers -> [VoiceNames -> 0..MaxCalls]]
  BY <1>1, <1>5, <1>6
<1>8. fetches' \in [Workers -> [VoiceNames -> 0..MaxCalls]]
  BY <1>1, <1>3, <1>6
<1>9. thread[i].seen \in Nat /\ w \in Workers /\ v \in VoiceNames
  BY <1>1, <1>4
<1>. QED
  BY <1>2, <1>4, <1>6, <1>7, <1>8, <1>9, Zenon

\* A style has been stored.
LEMMA StoreShape ==
  ASSUME TypeOK, NEW i \in Runners, Store(i),
         NEW w, w = thread[i].worker, NEW v, v = thread[i].voice
  PROVE  /\ At(i, "store") /\ w \in Workers /\ v \in VoiceNames
         /\ Goes(i, "hit")
         /\ cache' = [cache EXCEPT ![w][v] = thread[i].style]
         /\ cache' \in [Workers -> [VoiceNames -> Style]]
<1>1. thread \in [Runners -> CallState] /\ cache \in [Workers -> [VoiceNames -> Style]]
  BY DEF TypeOK, CallState
<1>2. thread[i].style \in Style /\ w \in Workers /\ v \in VoiceNames
  BY <1>1 DEF CallState
<1>3. cache' = [cache EXCEPT ![w][v] = thread[i].style]
  BY DEF Store, Fill
<1>. QED
  BY <1>1, <1>2, <1>3 DEF Store

\* A call that ends with audio.
LEMMA SynthesizedShape ==
  ASSUME TypeOK, NEW i \in Runners, Synthesized(i)
  PROVE  /\ At(i, "synth")
         /\ thread' = [thread EXCEPT ![i] = Idle]
         /\ i # Boot => UNCHANGED <<boot, building>>
         /\ boot' = boot \/ (i = Boot /\ boot' \in {"pin", "done"})
         /\ building' \in Workers
         /\ UNCHANGED <<machine, disk, usable, providers, model, styleVars, calls, historyVars>>
<1>1. building \in 1..NWorkers /\ NWorkers \in Nat
  BY DEF TypeOK, Workers
<1>. QED
  BY <1>1 DEF Synthesized, IsLast, Workers

\* An exception ends the call; in the bootstrap thread it ends start().
LEMMA RaisesShape ==
  ASSUME TypeOK, NEW i \in Runners, Raises(i)
  PROVE  /\ thread' = [thread EXCEPT ![i] = Idle]
         /\ i # Boot => boot' = boot
         /\ boot' \in {boot, "no"}
         /\ UNCHANGED <<machine, disk, building, usable, providers, model, styleVars, calls,
                        loads, fetches, overlapped>>
BY DEF Raises

\* The steps of a thread during a call.
InCall(i) ==
  \/ Validate(i) \/ LoadStyle(i) \/ LoadStyleRaises(i) \/ Store(i)
  \/ ReadHits(i) \/ WriteHits(i) \/ Synthesized(i) \/ SynthesisRaises(i)

\* The steps that end it.
LEMMA EndShape ==
  ASSUME TypeOK, NEW i \in Runners, InCall(i), At(i, "idle")'
  PROVE  /\ thread' = [thread EXCEPT ![i] = Idle]
         /\ thread[i].at \in {"miss", "load", "synth"}
         /\ UNCHANGED <<machine, disk, usable, providers, model, styleVars, calls, loads,
                        fetches, overlapped>>
         /\ boot' = boot \/ (i = Boot /\ boot' \in {"no", "pin", "done"})
<1>1. "idle" \notin Busy /\ {"load", "hit", "count", "synth"} \subseteq Busy
  BY DEF Busy
<1>2. CASE Raises(i) /\ thread[i].at \in {"miss", "load", "synth"}
  BY <1>2, RaisesShape
<1>3. CASE Synthesized(i)
  BY <1>3, SynthesizedShape DEF At, historyVars
<1>4. ASSUME NEW p \in Busy, Goes(i, p)
      PROVE  FALSE
  BY <1>1, <1>4, GoesShape DEF At
<1>5. ASSUME LoadStyle(i) \/ ReadHits(i)
      PROVE  thread'[i].at # "idle"
  <2>1. thread \in [Runners -> CallState]
    BY DEF TypeOK, CallState
  <2>. QED
    BY <1>5, <2>1 DEF LoadStyle, ReadHits, CallState
<1>. QED
  BY <1>1, <1>2, <1>3, <1>4, <1>5
  DEF InCall, Validate, LoadStyleRaises, Store, WriteHits, SynthesisRaises, At
-----------------------------------------------------------------------------
(***************************************************************************)
(* Types.                                                                  *)
(***************************************************************************)

\* The initial states are well-typed.
LEMMA InitTyped == Init => TypeOK
BY Defaults DEF Init, TypeOK, Nothing, CallState, Workers, Runners

\* The steps of start() itself.
LEMMA BootTyped ==
  ASSUME TypeOK, OnTarget, Start \/ Pin \/ PinRaises \/ LoadModel \/ LoadFails
  PROVE  TypeOK'
<1>1. CASE Start
  BY <1>1, Defaults DEF Start, Fresh, Nothing, TypeOK
<1>2. CASE Pin
  BY <1>2 DEF Pin, Probe, styleVars, historyVars, TypeOK
<1>3. CASE LoadModel
  <2>1. providers \in {"cpu", "cuda"}
    BY <1>3 DEF LoadModel, OnTarget, Target
  <2>. QED
    BY <1>3, <2>1 DEF LoadModel, styleVars, historyVars, TypeOK
<1>4. CASE LoadFails
  BY <1>4 DEF LoadFails, styleVars, historyVars, TypeOK
<1>5. CASE PinRaises
  BY <1>5 DEF PinRaises, styleVars, historyVars, TypeOK
<1>. QED
  BY <1>1, <1>2, <1>3, <1>4, <1>5

\* A call begins: in the bootstrap thread, or in another once start() is over.
LEMMA CallBegins ==
  ASSUME TypeOK,
         \/ WarmUp
         \/ \E i \in Threads, w \in Workers, v \in VoiceNames : Call(i, w, v)
  PROVE  \E i \in Runners, w \in Workers, v \in VoiceNames :
           /\ Begin(i, w, v)
           /\ boot = IF i = Boot THEN "warm" ELSE "done"
<1>1. CASE WarmUp
  <2>1. PICK v \in FirstVoices(disk) : Begin(Boot, building, v.name) /\ boot = "warm"
    BY <1>1 DEF WarmUp
  <2>2. Boot \in Runners /\ building \in Workers /\ v.name \in VoiceNames
    BY CatalogueKnown DEF Runners, TypeOK
  <2>. QED
    BY <2>1, <2>2
<1>2. CASE \E i \in Threads, w \in Workers, v \in VoiceNames : Call(i, w, v)
  BY <1>2 DEF Call, Runners
<1>. QED
  BY <1>1, <1>2

\* The steps of a call.
LEMMA CallTyped ==
  ASSUME TypeOK, CallsCounted, SeenBounded, NEW i \in Runners, InCall(i)
  PROVE  TypeOK'
<1>0. thread \in [Runners -> CallState] /\ Workers \subseteq Nat
  BY DEF TypeOK, CallState, Workers
<1>1. ASSUME thread' \in [Runners -> CallState],
             UNCHANGED <<bootVars, styleVars, calls, historyVars>>
      PROVE  TypeOK'
  BY <1>1 DEF TypeOK, CallState, bootVars, styleVars, historyVars
<1>2. ASSUME Raises(i)
      PROVE  TypeOK'
  <2>1. thread' \in [Runners -> CallState]
    BY <1>2, RaisesShape, IdleShape
  <2>. QED
    BY <1>2, <2>1, RaisesShape DEF TypeOK, CallState, styleVars
<1>3. thread[i].voice \in VoiceNames
  BY <1>0 DEF TypeOK, CallState
<1>4. CASE Validate(i)
  <2>1. "load" \in Busy
    BY DEF Busy
  <2>. QED
    BY <1>1, <1>2, <1>3, <1>4, <2>1, GoesShape DEF Validate
<1>5. CASE LoadStyle(i)
  <2>1. /\ thread' \in [Runners -> CallState]
        /\ loads' \in [Workers -> [VoiceNames -> 0..MaxCalls]]
    BY <1>5, LoadShape
  <2>2. UNCHANGED <<bootVars, styleVars, calls, fetches, overlapped>>
    BY <1>5 DEF LoadStyle
  <2>. QED
    BY <2>1, <2>2 DEF TypeOK, CallState, bootVars, styleVars
<1>6. CASE LoadStyleRaises(i)
  BY <1>2, <1>3, <1>6 DEF LoadStyleRaises
<1>7. CASE Store(i)
  <2>1. cache' \in [Workers -> [VoiceNames -> Style]] /\ Goes(i, "hit")
    BY <1>7, StoreShape
  <2>2. thread' \in [Runners -> CallState]
    BY <2>1, GoesShape DEF Busy
  <2>3. UNCHANGED <<bootVars, hits, calls, historyVars>>
    BY <1>7 DEF Store
  <2>. QED
    BY <2>1, <2>2, <2>3 DEF TypeOK, CallState, bootVars, historyVars
<1>8. CASE ReadHits(i)
  BY <1>1, <1>8, ReadShape DEF ReadHits
<1>9. CASE WriteHits(i)
  <2>1. /\ hits' \in [Workers -> [VoiceNames -> 0..MaxCalls]]
        /\ fetches' \in [Workers -> [VoiceNames -> 0..MaxCalls]]
    BY <1>9, WriteShape
  <2>2. Goes(i, "synth") /\ UNCHANGED <<bootVars, cache, calls, loads, overlapped>>
    BY <1>9 DEF WriteHits
  <2>3. thread' \in [Runners -> CallState]
    BY <2>2, GoesShape DEF Busy
  <2>. QED
    BY <2>1, <2>2, <2>3 DEF TypeOK, CallState, bootVars
<1>10. CASE Synthesized(i)
  <2>1. thread' \in [Runners -> CallState] /\ building' \in Workers
    BY <1>10, SynthesizedShape, IdleShape
  <2>. QED
    BY <1>10, <2>1, SynthesizedShape DEF TypeOK, CallState, styleVars, historyVars
<1>11. CASE SynthesisRaises(i)
  BY <1>2, <1>3, <1>11 DEF SynthesisRaises
<1>. QED
  BY <1>4, <1>5, <1>6, <1>7, <1>8, <1>9, <1>10, <1>11 DEF InCall

\* The parts of the next-state relation, as the proofs below split it.
LEMMA StepKinds ==
  ASSUME TypeOK, [Next]_vars
  PROVE  \/ UNCHANGED vars
         \/ Start \/ Pin \/ PinRaises \/ LoadModel \/ LoadFails
         \/ \E i \in Runners, w \in Workers, v \in VoiceNames :
              /\ Begin(i, w, v)
              /\ boot = IF i = Boot THEN "warm" ELSE "done"
         \/ \E i \in Runners : InCall(i)
BY CallBegins DEF Next, InCall, Spent

\* The type invariant is inductive together with the bounds.
LEMMA TypeStep == TypeOK /\ CallsCounted /\ SeenBounded /\ OnTarget /\ [Next]_vars => TypeOK'
<1> SUFFICES ASSUME TypeOK, CallsCounted, SeenBounded, OnTarget, [Next]_vars
             PROVE  TypeOK'
  OBVIOUS
<1>1. CASE UNCHANGED vars
  BY <1>1 DEF vars, bootVars, styleVars, historyVars, TypeOK
<1>2. CASE Start \/ Pin \/ PinRaises \/ LoadModel \/ LoadFails
  BY <1>2, BootTyped
<1>3. ASSUME NEW i \in Runners, NEW w \in Workers, NEW v \in VoiceNames, Begin(i, w, v)
      PROVE  TypeOK'
  <2>1. thread' \in [Runners -> CallState] /\ calls' \in 0..MaxCalls
    BY <1>3, BeginShape
  <2>. QED
    BY <1>3, <2>1 DEF Begin, bootVars, styleVars, TypeOK, CallState
<1>4. ASSUME NEW i \in Runners, InCall(i)
      PROVE  TypeOK'
  BY <1>4, CallTyped
<1>. QED
  BY <1>1, <1>2, <1>3, <1>4, StepKinds

\* The steps that do not end the call.
LEMMA MidShape ==
  ASSUME TypeOK, CallsCounted, NEW i \in Runners, InCall(i), ~At(i, "idle")'
  PROVE  /\ SameCall(i)
         /\ UNCHANGED <<bootVars, calls, overlapped>>
<1>1. ASSUME Raises(i)
      PROVE  FALSE
  BY <1>1, RaisesShape, IdleShape
<1>2. ~Synthesized(i)
  BY SynthesizedShape, IdleShape
<1>3. {"load", "hit", "synth"} \subseteq Busy
  BY DEF Busy
<1>4. CASE Validate(i) \/ Store(i) \/ WriteHits(i)
  BY <1>1, <1>3, <1>4, GoesShape DEF Validate, Store, WriteHits, historyVars
<1>5. CASE LoadStyle(i)
  BY <1>5, LoadShape DEF LoadStyle
<1>6. CASE ReadHits(i)
  BY <1>6, ReadShape DEF ReadHits, historyVars
<1>. QED
  BY <1>1, <1>2, <1>4, <1>5, <1>6 DEF InCall, LoadStyleRaises, SynthesisRaises

\* A step of a call is its thread's alone, and the call had begun.
LEMMA CallShape ==
  ASSUME TypeOK, CallsCounted, NEW i \in Runners, InCall(i)
  PROVE  OthersStay(i) /\ ~At(i, "idle")
<1>1. OthersStay(i)
  <2>1. CASE At(i, "idle")'
    BY <2>1, EndShape, IdleShape
  <2>2. CASE \E p \in Busy : Goes(i, p)
    BY <2>2, GoesShape
  <2>3. CASE LoadStyle(i) \/ ReadHits(i)
    BY <2>3, LoadShape, ReadShape
  <2>4. {"load", "hit", "synth"} \subseteq Busy
    BY DEF Busy
  <2>5. Raises(i) \/ Synthesized(i) => At(i, "idle")'
    BY RaisesShape, SynthesizedShape, IdleShape
  <2>. QED
    BY <2>1, <2>2, <2>3, <2>4, <2>5
    DEF InCall, Validate, LoadStyleRaises, Store, WriteHits, SynthesisRaises
<1>2. ~At(i, "idle")
  BY DEF InCall, Validate, LoadStyle, LoadStyleRaises, Store, ReadHits, WriteHits,
         Synthesized, SynthesisRaises, At
<1>. QED
  BY <1>1, <1>2
-----------------------------------------------------------------------------
(***************************************************************************)
(* The phases of start() and the device.                                   *)
(***************************************************************************)

\* start() alone calls until it is done.
LEMMA PhasesStep == TypeOK /\ CallsCounted /\ Phases /\ [Next]_vars => Phases'
<1> SUFFICES ASSUME TypeOK, CallsCounted, Phases, [Next]_vars
             PROVE  Phases'
  OBVIOUS
<1>0. Boot \in Runners /\ Boot \notin Threads /\ Threads \subseteq Runners
  BY DEF Runners
<1>1. CASE UNCHANGED vars
  BY <1>1 DEF vars, bootVars, Phases, At
<1>2. CASE Start \/ Pin \/ PinRaises \/ LoadModel \/ LoadFails
  BY <1>2 DEF Start, Pin, PinRaises, LoadModel, LoadFails, Phases, At
<1>3. ASSUME NEW i \in Runners, NEW w \in Workers, NEW v \in VoiceNames, Begin(i, w, v),
             boot = IF i = Boot THEN "warm" ELSE "done"
      PROVE  Phases'
  <2>1. boot' = boot /\ OthersStay(i)
    BY <1>3, BeginShape DEF Begin, bootVars
  <2>. QED
    BY <1>0, <1>3, <2>1 DEF Phases, At, OthersStay, Runners
<1>4. ASSUME NEW i \in Runners, InCall(i)
      PROVE  Phases'
  <2>1. OthersStay(i) /\ ~At(i, "idle")
    BY <1>4, CallShape
  <2>2. CASE At(i, "idle")'
    <3>1. boot' = boot \/ i = Boot
      BY <1>4, <2>2, EndShape
    <3>. QED
      BY <1>0, <2>1, <2>2, <3>1 DEF Phases, At, OthersStay, Runners
  <2>3. CASE ~At(i, "idle")'
    <3>1. boot' = boot
      BY <1>4, <2>3, MidShape DEF bootVars
    <3>. QED
      BY <1>0, <2>1, <3>1 DEF Phases, At, OthersStay, Runners
  <2>. QED
    BY <2>2, <2>3
<1>. QED
  BY <1>1, <1>2, <1>3, <1>4, StepKinds

\* A call does not touch the device.
LEMMA CallKeepsDevice ==
  ASSUME TypeOK, CallsCounted, NEW i \in Runners, InCall(i)
  PROVE  /\ UNCHANGED <<machine, usable, providers, model>>
         /\ boot' \in {boot, "no", "pin", "done"}
<1>1. CASE At(i, "idle")'
  BY <1>1, EndShape
<1>2. CASE ~At(i, "idle")'
  BY <1>2, MidShape DEF bootVars
<1>. QED
  BY <1>1, <1>2

\* The answer of cuda_is_usable() decides once and for all.
LEMMA DeviceStep == TypeOK /\ CallsCounted /\ OnTarget /\ [Next]_vars => OnTarget'
<1> SUFFICES ASSUME TypeOK, CallsCounted, OnTarget, [Next]_vars
             PROVE  OnTarget'
  OBVIOUS
<1>1. CASE UNCHANGED vars
  BY <1>1 DEF vars, bootVars, OnTarget, Target, WantsGpu
<1>2. CASE Start
  BY <1>2 DEF Start, Fresh, OnTarget, Target, WantsGpu
<1>3. CASE Pin
  BY <1>3 DEF Pin, Probe, OnTarget, Target, WantsGpu
<1>4. CASE LoadModel
  BY <1>4 DEF LoadModel, OnTarget, Target, WantsGpu, TypeOK
<1>5. CASE LoadFails
  BY <1>5 DEF LoadFails, OnTarget, Target, WantsGpu
<1>6. ASSUME NEW i \in Runners, NEW w \in Workers, NEW v \in VoiceNames, Begin(i, w, v)
      PROVE  OnTarget'
  BY <1>6 DEF Begin, bootVars, OnTarget, Target, WantsGpu
<1>7. ASSUME NEW i \in Runners, InCall(i)
      PROVE  OnTarget'
  BY <1>7, CallKeepsDevice DEF OnTarget, Target, WantsGpu
<1>8. CASE PinRaises
  BY <1>8 DEF PinRaises, OnTarget, Target, WantsGpu
<1>. QED
  BY <1>1, <1>2, <1>3, <1>4, <1>5, <1>6, <1>7, <1>8, StepKinds
-----------------------------------------------------------------------------
(***************************************************************************)
(* Styles.                                                                 *)
(***************************************************************************)

\* A style is stored for the voice it was loaded for, and a thread leaves
\* _get_style with a style of its voice.
LEMMA StylesStep == TypeOK /\ CallsCounted /\ StylesKept /\ [Next]_vars => StylesKept'
<1> SUFFICES ASSUME TypeOK, CallsCounted, StylesKept, [Next]_vars
             PROVE  StylesKept'
  OBVIOUS
<1> DEFINE Kept(w, v) == cache[w][v] = NoStyle \/ (cache[w][v].voice = v /\ cache[w][v].load > 0)
           Holds(i) == thread[i].at \in {"store", "hit", "count", "synth"} =>
                         thread[i].style.voice = thread[i].voice /\ thread[i].style.load > 0
<1>0. /\ \A w \in Workers, v \in VoiceNames : Kept(w, v)
      /\ \A i \in Runners : Holds(i)
  BY DEF StylesKept
<1>1. CASE UNCHANGED <<cache, thread>>
  BY <1>1 DEF StylesKept
<1>2. CASE Start
  <2>1. \A w \in Workers, v \in VoiceNames : cache'[w][v] = NoStyle
    BY <1>2 DEF Start, Fresh, Nothing
  <2>2. thread' = thread
    BY <1>2 DEF Start
  <2>. QED
    BY <2>1, <2>2 DEF StylesKept
<1>3. ASSUME NEW i \in Runners, OthersStay(i), Holds(i)',
             \A w \in Workers, v \in VoiceNames : Kept(w, v)'
      PROVE  StylesKept'
  BY <1>0, <1>3 DEF StylesKept, OthersStay
<1>4. ASSUME NEW i \in Runners, NEW w \in Workers, NEW v \in VoiceNames, Begin(i, w, v)
      PROVE  StylesKept'
  <2>1. cache' = cache
    BY <1>4 DEF Begin, styleVars
  <2>2. Holds(i)'
    <3>1. /\ thread'[i].voice = v
          /\ thread'[i].style = cache[w][v]
          /\ thread'[i].at = IF cache[w][v] = NoStyle THEN "miss" ELSE "hit"
      BY <1>4, BeginShape
    <3>. QED
      BY <1>0, <3>1
  <2>3. OthersStay(i)
    BY <1>4, BeginShape
  <2>. QED
    BY <1>0, <1>3, <2>1, <2>2, <2>3
<1>5. ASSUME NEW i \in Runners, InCall(i)
      PROVE  StylesKept'
  <2>0. OthersStay(i)
    BY <1>5, CallShape
  <2>1. CASE At(i, "idle")'
    <3>1. cache' = cache /\ Holds(i)'
      BY <1>5, <2>1, EndShape DEF styleVars, At
    <3>. QED
      BY <1>0, <1>3, <2>0, <3>1
  <2>2. CASE ~At(i, "idle")'
    <3>1. SameCall(i) /\ ~Raises(i) /\ ~Synthesized(i)
      BY <1>5, <2>2, MidShape, RaisesShape, SynthesizedShape, IdleShape
    <3>2. CASE Validate(i)
      <4>1. cache' = cache /\ thread'[i].at = "load"
        BY <3>1, <3>2, GoesShape DEF Validate, styleVars, Busy
      <4>. QED
        BY <1>0, <1>3, <2>0, <4>1
    <3>3. CASE LoadStyle(i)
      <4>1. cache' = cache
        BY <3>3 DEF LoadStyle, styleVars
      <4>2. Holds(i)'
        BY <3>3, LoadShape DEF SameCall
      <4>. QED
        BY <1>0, <1>3, <2>0, <4>1, <4>2
    <3>4. CASE Store(i)
      <4> DEFINE w == thread[i].worker
                 v == thread[i].voice
      <4>1. /\ cache' = [cache EXCEPT ![w][v] = thread[i].style]
            /\ At(i, "store") /\ w \in Workers /\ v \in VoiceNames
            /\ cache' \in [Workers -> [VoiceNames -> Style]]
        BY <3>4, StoreShape
      <4>2. Holds(i) /\ thread[i].at = "store"
        BY <1>0, <4>1 DEF At
      <4>3. thread[i].style.voice = v /\ thread[i].style.load > 0
        BY <4>2
      <4>4. cache \in [Workers -> [VoiceNames -> Style]]
        BY DEF TypeOK
      <4>5. \A x \in Workers, y \in VoiceNames : Kept(x, y)'
        <5>1. \A x \in Workers, y \in VoiceNames : Kept(x, y)
          BY <1>0
        <5>. QED
          BY <4>1, <4>3, <4>4, <5>1
      <4>6. Goes(i, "hit")
        BY <3>4, StoreShape
      <4>7. SameCall(i) /\ thread'[i].style = thread[i].style
        BY <4>6, GoesShape DEF Busy
      <4>8. Holds(i)'
        BY <4>3, <4>7 DEF SameCall
      <4>. QED
        BY <1>3, <2>0, <4>5, <4>8
    <3>5. CASE ReadHits(i) \/ WriteHits(i)
      <4>1. cache' = cache /\ thread'[i].style = thread[i].style
            /\ thread[i].at \in {"hit", "count"}
        BY <3>5, ReadShape, GoesShape DEF ReadHits, WriteHits, styleVars, At, Busy
      <4>. QED
        BY <1>0, <1>3, <2>0, <3>1, <4>1 DEF SameCall
    <3>. QED
      BY <1>5, <3>1, <3>2, <3>3, <3>4, <3>5 DEF InCall, LoadStyleRaises, SynthesisRaises
  <2>. QED
    BY <2>1, <2>2
<1>6. Pin \/ PinRaises \/ LoadModel \/ LoadFails \/ UNCHANGED vars => UNCHANGED <<cache, thread>>
  BY DEF Pin, PinRaises, LoadModel, LoadFails, styleVars, vars
<1>. QED
  BY <1>1, <1>2, <1>4, <1>5, <1>6, StepKinds
-----------------------------------------------------------------------------
(***************************************************************************)
(* Counts.                                                                 *)
(***************************************************************************)
Within(points, i, w, v) ==
  thread[i].at \in points /\ thread[i].worker = w /\ thread[i].voice = v

\* A step of one thread changes the number of those at certain points by one, at
\* most.
LEMMA CallingMoves ==
  ASSUME NEW i \in Runners, OthersStay(i), NEW points, NEW w, NEW v
  PROVE  /\ Cardinality(Calling(points, w, v)) \in Nat
         /\ Cardinality(Calling(points, w, v)') \in Nat
         /\ (Within(points, i, w, v) <=> Within(points, i, w, v)') =>
              Cardinality(Calling(points, w, v)') = Cardinality(Calling(points, w, v))
         /\ ~Within(points, i, w, v) /\ Within(points, i, w, v)' =>
              Cardinality(Calling(points, w, v)') = Cardinality(Calling(points, w, v)) + 1
         /\ Within(points, i, w, v) /\ ~Within(points, i, w, v)' =>
              Cardinality(Calling(points, w, v)') = Cardinality(Calling(points, w, v)) - 1
<1> DEFINE A == Calling(points, w, v)
           B == Calling(points, w, v)'
<1>1. A \in SUBSET Runners /\ B \in SUBSET Runners
  BY DEF Calling
<1>2. \A j \in Runners : j # i => (j \in A <=> j \in B)
  BY DEF Calling, OthersStay
<1>3. /\ i \in A <=> Within(points, i, w, v)
      /\ i \in B <=> Within(points, i, w, v)'
  BY DEF Calling, Within
<1>4. IsFiniteSet(Runners)
  BY RunnersFinite
<1>. HIDE DEF A, B
<1>5. /\ Cardinality(A) \in Nat /\ Cardinality(B) \in Nat
      /\ (i \in A <=> i \in B) => Cardinality(B) = Cardinality(A)
      /\ i \notin A /\ i \in B => Cardinality(B) = Cardinality(A) + 1
      /\ i \in A /\ i \notin B => Cardinality(B) = Cardinality(A) - 1
  BY <1>1, <1>2, <1>4, OneMoves
<1>. QED
  BY <1>3, <1>5 DEF A, B

\* While all threads are idle, none is counted.
LEMMA NobodyCalls ==
  ASSUME \A i \in Runners : At(i, "idle"), NEW points, "idle" \notin points, NEW w, NEW v
  PROVE  Cardinality(Calling(points, w, v)) = 0
<1>1. Calling(points, w, v) = {}
  BY DEF Calling, At
<1>. QED
  BY <1>1, FS_EmptySet

\* A counter only grows after a thread has read it.
LEMMA SeenStep ==
  TypeOK /\ Phases /\ CallsCounted /\ SeenBounded /\ [Next]_vars => SeenBounded'
<1> SUFFICES ASSUME TypeOK, Phases, CallsCounted, SeenBounded, [Next]_vars
             PROVE  SeenBounded'
  OBVIOUS
<1> DEFINE Right(i) == At(i, "count") =>
             thread[i].seen <= fetches[thread[i].worker][thread[i].voice]
<1>0. /\ \A i \in Runners : Right(i)
      /\ thread \in [Runners -> CallState]
      /\ fetches \in [Workers -> [VoiceNames -> 0..MaxCalls]]
      /\ hits \in [Workers -> [VoiceNames -> 0..MaxCalls]]
  BY DEF SeenBounded, TypeOK, CallState
<1>1. ASSUME UNCHANGED <<thread, fetches>>
      PROVE  SeenBounded'
  BY <1>1 DEF SeenBounded, At
<1>2. CASE Start
  BY <1>2 DEF Start, Phases, SeenBounded, At, Runners
<1>3. ASSUME NEW i \in Runners, OthersStay(i), Right(i)', fetches' = fetches
      PROVE  SeenBounded'
  BY <1>0, <1>3 DEF SeenBounded, OthersStay, At
<1>4. ASSUME NEW i \in Runners, NEW w \in Workers, NEW v \in VoiceNames, Begin(i, w, v)
      PROVE  SeenBounded'
  <2>1. OthersStay(i) /\ thread'[i].at # "count" /\ fetches' = fetches
    BY <1>4, BeginShape DEF Begin
  <2>. QED
    BY <1>3, <2>1 DEF At
<1>5. ASSUME NEW i \in Runners, InCall(i)
      PROVE  SeenBounded'
  <2>0. OthersStay(i)
    BY <1>5, CallShape
  <2>1. CASE At(i, "idle")'
    <3>1. fetches' = fetches
      BY <1>5, <2>1, EndShape
    <3>. QED
      BY <1>3, <2>0, <2>1, <3>1 DEF At
  <2>2. CASE Validate(i) \/ LoadStyle(i) \/ Store(i)
    <3>1. At(i, "idle")' \/ (thread'[i].at # "count" /\ fetches' = fetches)
      BY <1>5, <2>2, GoesShape, LoadShape, RaisesShape, IdleShape
      DEF Validate, LoadStyle, Store, Busy, historyVars
    <3>. QED
      BY <1>3, <2>0, <2>1, <3>1 DEF At
  <2>3. CASE ReadHits(i)
    <3>1. /\ thread'[i].seen = hits[thread[i].worker][thread[i].voice]
          /\ SameCall(i) /\ fetches' = fetches
      BY <2>3, ReadShape DEF ReadHits, historyVars
    <3>2. thread[i].worker \in Workers /\ thread[i].voice \in VoiceNames
      BY <1>0 DEF CallState
    <3>3. Right(i)'
      BY <3>1, <3>2 DEF CallsCounted, SameCall
    <3>. QED
      BY <1>3, <2>0, <3>1, <3>3
  <2>4. CASE WriteHits(i)
    <3> DEFINE w == thread[i].worker
               v == thread[i].voice
    <3>0. w \in Workers /\ v \in VoiceNames
      BY <1>0 DEF CallState
    <3>1. fetches' = [fetches EXCEPT ![w][v] = fetches[w][v] + 1]
      BY <2>4 DEF WriteHits
    <3>2. thread'[i].at = "synth"
      BY <2>4, GoesShape DEF WriteHits, Busy
    <3>3. ASSUME NEW j \in Runners, j # i, At(j, "count")
          PROVE  thread[j].seen <= fetches'[thread[j].worker][thread[j].voice]
      <4>1. /\ thread[j].seen \in 0..MaxCalls
            /\ thread[j].worker \in Workers /\ thread[j].voice \in VoiceNames
        BY <1>0 DEF CallState
      <4>2. thread[j].seen <= fetches[thread[j].worker][thread[j].voice]
        BY <1>0, <3>3
      <4>. QED
        BY <1>0, <3>0, <3>1, <4>1, <4>2
    <3>. QED
      BY <2>0, <3>2, <3>3 DEF SeenBounded, OthersStay, At
  <2>. QED
    BY <1>5, <2>1, <2>2, <2>3, <2>4, RaisesShape, SynthesizedShape, IdleShape
    DEF InCall, LoadStyleRaises, SynthesisRaises
<1>6. Pin \/ PinRaises \/ LoadModel \/ LoadFails \/ UNCHANGED vars => UNCHANGED <<thread, fetches>>
  BY DEF Pin, PinRaises, LoadModel, LoadFails, historyVars, vars
<1>. QED
  BY <1>1, <1>2, <1>4, <1>5, <1>6, StepKinds

\* A thread that begins a call finds at most the others loading or storing.
LEMMA RoomForOne ==
  ASSUME Phases, NEW i \in Runners, At(i, "idle"),
         boot = IF i = Boot THEN "warm" ELSE "done", NEW w, NEW v
  PROVE  Cardinality(Loading(w, v)) + Cardinality(Storing(w, v)) + 1 <= Cardinality(Threads)
<1>1. CASE i = Boot
  <2>1. \A j \in Runners : At(j, "idle")
    BY <1>1 DEF Phases, Runners
  <2>2. Cardinality(Loading(w, v)) = 0 /\ Cardinality(Storing(w, v)) = 0
    BY <2>1, NobodyCalls DEF Loading, Storing
  <2>. QED
    BY <2>2, RunnersFinite
<1>2. CASE i # Boot
  <2> DEFINE L == Loading(w, v)
             S == Storing(w, v)
             T == Threads \ {i}
  <2>1. i \in Threads /\ L \subseteq T /\ S \subseteq T /\ L \cap S = {}
    BY <1>2 DEF Phases, Runners, Loading, Storing, Calling, At
  <2>2. IsFiniteSet(T) /\ Cardinality(T) = Cardinality(Threads) - 1
    BY <2>1, FS_RemoveElement
  <2>3. IsFiniteSet(L) /\ IsFiniteSet(S)
    BY <2>1, <2>2, FS_Subset
  <2>4. Cardinality(L \cup S) = Cardinality(L) + Cardinality(S) - Cardinality(L \cap S)
    BY <2>3, FS_Union
  <2>5. Cardinality(L \cup S) <= Cardinality(T)
    BY <2>1, <2>2, FS_Subset
  <2>6. /\ Cardinality(L) \in Nat /\ Cardinality(S) \in Nat
        /\ Cardinality(L \cap S) = 0 /\ Cardinality(Threads) \in Nat
    BY <2>1, <2>3, FS_CardinalityType, FS_EmptySet, RunnersFinite
  <2>. HIDE DEF L, S, T
  <2>7. Cardinality(L) + Cardinality(S) + 1 <= Cardinality(Threads)
    BY <2>2, <2>4, <2>5, <2>6
  <2>. QED
    BY <2>7 DEF L, S
<1>. QED
  BY <1>1, <1>2

\* What a step of a call does to the counts of a voice of a worker: a style that is
\* loaded, and one that is returned, takes its thread out of those that are counted.
LEMMA CallCounts ==
  ASSUME TypeOK, CallsCounted, SeenBounded, StylesKept, NEW i \in Runners, InCall(i),
         NEW w \in Workers, NEW v \in VoiceNames
  PROVE  /\ loads'[w][v] + Cardinality(Loading(w, v)')
              <= loads[w][v] + Cardinality(Loading(w, v))
         /\ fetches'[w][v] + Cardinality(Fetching(w, v)')
              <= fetches[w][v] + Cardinality(Fetching(w, v))
         /\ hits'[w][v] <= fetches'[w][v]
         /\ cache'[w][v] = NoStyle =>
              /\ cache[w][v] = NoStyle
              /\ loads'[w][v] - Cardinality(Storing(w, v)')
                   <= loads[w][v] - Cardinality(Storing(w, v))
         /\ calls' = calls
<1> DEFINE L == Loading(w, v)
           F == Fetching(w, v)
           S == Storing(w, v)
           P == {"miss", "load"}
           Q == {"miss", "load", "store", "hit", "count"}
<1>0. /\ thread \in [Runners -> CallState]
      /\ loads[w][v] \in Nat /\ fetches[w][v] \in Nat /\ hits[w][v] \in Nat
      /\ hits[w][v] <= fetches[w][v]
      /\ loads \in [Workers -> [VoiceNames -> 0..MaxCalls]]
      /\ fetches \in [Workers -> [VoiceNames -> 0..MaxCalls]]
      /\ hits \in [Workers -> [VoiceNames -> 0..MaxCalls]]
      /\ cache \in [Workers -> [VoiceNames -> Style]]
  BY DEF TypeOK, CallState, CallsCounted
<1>1. OthersStay(i)
  BY CallShape
<1>2. /\ Cardinality(L) \in Nat /\ Cardinality(L') \in Nat
      /\ (Within(P, i, w, v) <=> Within(P, i, w, v)') => Cardinality(L') = Cardinality(L)
      /\ Within(P, i, w, v) /\ ~Within(P, i, w, v)' => Cardinality(L') = Cardinality(L) - 1
  BY <1>1, CallingMoves DEF Loading
<1>3. /\ Cardinality(F) \in Nat /\ Cardinality(F') \in Nat
      /\ (Within(Q, i, w, v) <=> Within(Q, i, w, v)') => Cardinality(F') = Cardinality(F)
      /\ Within(Q, i, w, v) /\ ~Within(Q, i, w, v)' => Cardinality(F') = Cardinality(F) - 1
  BY <1>1, CallingMoves DEF Fetching
<1>4. /\ Cardinality(S) \in Nat /\ Cardinality(S') \in Nat
      /\ (Within({"store"}, i, w, v) <=> Within({"store"}, i, w, v)')
           => Cardinality(S') = Cardinality(S)
      /\ ~Within({"store"}, i, w, v) /\ Within({"store"}, i, w, v)'
           => Cardinality(S') = Cardinality(S) + 1
  BY <1>1, CallingMoves DEF Storing
<1>. HIDE DEF L, F, S
<1>5. CASE At(i, "idle")'
  <2>1. /\ ~Within(P, i, w, v)' /\ ~Within(Q, i, w, v)'
        /\ ~Within({"store"}, i, w, v)' /\ ~Within({"store"}, i, w, v)
    BY <1>5, EndShape DEF Within, At
  <2>2. UNCHANGED <<cache, hits, calls, loads, fetches>>
    BY <1>5, EndShape DEF styleVars
  <2>3. Cardinality(L') <= Cardinality(L)
    BY <1>2, <2>1
  <2>4. Cardinality(F') <= Cardinality(F)
    BY <1>3, <2>1
  <2>5. Cardinality(S') = Cardinality(S)
    BY <1>4, <2>1
  <2>. QED
    BY <1>0, <1>2, <1>3, <1>4, <2>2, <2>3, <2>4, <2>5 DEF L, F, S
<1>6. CASE ~At(i, "idle")'
  <2>0. SameCall(i) /\ calls' = calls /\ ~Raises(i) /\ ~Synthesized(i)
    BY <1>6, MidShape, RaisesShape, SynthesizedShape, IdleShape
  <2>1. CASE Validate(i) \/ ReadHits(i)
    <3>1. \/ thread[i].at = "miss" /\ thread'[i].at = "load"
          \/ thread[i].at = "hit" /\ thread'[i].at = "count"
      BY <2>0, <2>1, GoesShape, ReadShape DEF Validate, At, Busy
    <3>2. UNCHANGED <<cache, hits, loads, fetches>>
      BY <2>0, <2>1 DEF Validate, ReadHits, styleVars, historyVars
    <3>3. /\ Within(P, i, w, v) <=> Within(P, i, w, v)'
          /\ Within(Q, i, w, v) <=> Within(Q, i, w, v)'
          /\ Within({"store"}, i, w, v) <=> Within({"store"}, i, w, v)'
      BY <2>0, <3>1 DEF Within, SameCall
    <3>. QED
      BY <1>0, <1>2, <1>3, <1>4, <2>0, <3>2, <3>3 DEF L, F, S
  <2>2. CASE LoadStyle(i)
    <3>1. /\ thread[i].at = "load" /\ thread'[i].at = "store"
          /\ loads' = [loads EXCEPT ![thread[i].worker][thread[i].voice] =
                         loads[thread[i].worker][thread[i].voice] + 1]
      BY <2>2, LoadShape DEF At
    <3>2. UNCHANGED <<cache, hits, fetches>>
      BY <2>2 DEF LoadStyle, styleVars
    <3>3. Within(Q, i, w, v) <=> Within(Q, i, w, v)'
      BY <2>0, <3>1 DEF Within, SameCall
    <3>4. CASE w = thread[i].worker /\ v = thread[i].voice
      <4>1. /\ Within(P, i, w, v) /\ ~Within(P, i, w, v)'
            /\ ~Within({"store"}, i, w, v) /\ Within({"store"}, i, w, v)'
        BY <2>0, <3>1, <3>4 DEF Within, SameCall
      <4>2. loads'[w][v] = loads[w][v] + 1
        BY <1>0, <3>1, <3>4
      <4>3. Cardinality(L') = Cardinality(L) - 1 /\ Cardinality(S') = Cardinality(S) + 1
        BY <1>2, <1>4, <4>1
      <4>4. Cardinality(F') = Cardinality(F)
        BY <1>3, <3>3
      <4>. QED
        BY <1>0, <1>2, <1>3, <1>4, <2>0, <3>2, <4>2, <4>3, <4>4 DEF L, F, S
    <3>5. CASE ~(w = thread[i].worker /\ v = thread[i].voice)
      <4>1. /\ Within(P, i, w, v) <=> Within(P, i, w, v)'
            /\ Within({"store"}, i, w, v) <=> Within({"store"}, i, w, v)'
        BY <2>0, <3>5 DEF Within, SameCall
      <4>2. loads'[w][v] = loads[w][v]
        BY <1>0, <3>1, <3>5 DEF CallState
      <4>. QED
        BY <1>0, <1>2, <1>3, <1>4, <2>0, <3>2, <3>3, <4>1, <4>2 DEF L, F, S
    <3>. QED
      BY <3>4, <3>5
  <2>3. CASE Store(i)
    <3>1. /\ thread[i].at = "store" /\ thread'[i].at = "hit"
          /\ cache' = [cache EXCEPT ![thread[i].worker][thread[i].voice] = thread[i].style]
      <4>1. Goes(i, "hit") /\ "hit" \in Busy
        BY <2>3 DEF Store, Busy
      <4>2. thread'[i].at = "hit"
        BY <4>1, GoesShape
      <4>. QED
        BY <2>3, <4>2 DEF Store, Fill, At
    <3>2. UNCHANGED <<hits, loads, fetches>>
      BY <2>3 DEF Store, historyVars
    <3>3. /\ Within(P, i, w, v) <=> Within(P, i, w, v)'
          /\ Within(Q, i, w, v) <=> Within(Q, i, w, v)'
      BY <2>0, <3>1 DEF Within, SameCall
    <3>4. CASE w = thread[i].worker /\ v = thread[i].voice
      <4>1. cache'[w][v] = thread[i].style
        BY <1>0, <3>1, <3>4
      <4>2. cache'[w][v] # NoStyle
        BY <3>1, <4>1 DEF StylesKept, NoStyle
      <4>. QED
        BY <1>0, <1>2, <1>3, <2>0, <3>2, <3>3, <4>2 DEF L, F, S
    <3>5. CASE ~(w = thread[i].worker /\ v = thread[i].voice)
      <4>1. Within({"store"}, i, w, v) <=> Within({"store"}, i, w, v)'
        BY <2>0, <3>5 DEF Within, SameCall
      <4>2. cache'[w][v] = cache[w][v]
        BY <1>0, <3>1, <3>5 DEF CallState
      <4>. QED
        BY <1>0, <1>2, <1>3, <1>4, <2>0, <3>2, <3>3, <4>1, <4>2 DEF L, F, S
    <3>. QED
      BY <3>4, <3>5
  <2>4. CASE WriteHits(i)
    <3>1. /\ thread[i].at = "count" /\ thread'[i].at = "synth"
          /\ hits' = [hits EXCEPT ![thread[i].worker][thread[i].voice] = thread[i].seen + 1]
          /\ fetches' = [fetches EXCEPT ![thread[i].worker][thread[i].voice] =
                           fetches[thread[i].worker][thread[i].voice] + 1]
          /\ thread[i].seen \in Nat
          /\ thread[i].seen <= fetches[thread[i].worker][thread[i].voice]
      <4>1. Goes(i, "synth") /\ "synth" \in Busy
        BY <2>4 DEF WriteHits, Busy
      <4>2. thread'[i].at = "synth"
        BY <4>1, GoesShape
      <4>3. /\ At(i, "count") /\ thread[i].seen \in Nat
            /\ thread[i].seen <= fetches[thread[i].worker][thread[i].voice]
        BY <1>0, <2>4 DEF WriteHits, SeenBounded, CallState
      <4>. QED
        BY <2>4, <4>2, <4>3 DEF WriteHits, Counted, At
    <3>2. UNCHANGED <<cache, loads>>
      BY <2>4 DEF WriteHits
    <3>3. /\ Within(P, i, w, v) <=> Within(P, i, w, v)'
          /\ Within({"store"}, i, w, v) <=> Within({"store"}, i, w, v)'
      BY <2>0, <3>1 DEF Within, SameCall
    <3>4. CASE w = thread[i].worker /\ v = thread[i].voice
      <4>1. Within(Q, i, w, v) /\ ~Within(Q, i, w, v)'
        BY <2>0, <3>1, <3>4 DEF Within, SameCall
      <4>2. fetches'[w][v] = fetches[w][v] + 1 /\ hits'[w][v] = thread[i].seen + 1
        BY <1>0, <3>1, <3>4
      <4>3. hits'[w][v] <= fetches'[w][v]
        BY <1>0, <3>1, <3>4, <4>2
      <4>4. Cardinality(F') = Cardinality(F) - 1
        BY <1>3, <4>1
      <4>. QED
        BY <1>0, <1>2, <1>3, <1>4, <2>0, <3>2, <3>3, <4>2, <4>3, <4>4 DEF L, F, S
    <3>5. CASE ~(w = thread[i].worker /\ v = thread[i].voice)
      <4>1. Within(Q, i, w, v) <=> Within(Q, i, w, v)'
        BY <2>0, <3>5 DEF Within, SameCall
      <4>2. fetches'[w][v] = fetches[w][v] /\ hits'[w][v] = hits[w][v]
        BY <1>0, <3>1, <3>5 DEF CallState
      <4>. QED
        BY <1>0, <1>2, <1>3, <1>4, <2>0, <3>2, <3>3, <4>1, <4>2 DEF L, F, S
    <3>. QED
      BY <3>4, <3>5
  <2>. QED
    BY <2>0, <2>1, <2>2, <2>3, <2>4 DEF InCall, LoadStyleRaises, SynthesisRaises
<1>. QED
  BY <1>5, <1>6

\* Each call loads a style at most once and returns at most one.
LEMMA CountsStep ==
  /\ TypeOK /\ Phases /\ StylesKept /\ CallsCounted /\ SeenBounded
  /\ [Next]_vars
  => CallsCounted'
<1> SUFFICES ASSUME TypeOK, Phases, StylesKept, CallsCounted, SeenBounded, [Next]_vars
             PROVE  CallsCounted'
  OBVIOUS
<1>1. CASE UNCHANGED <<thread, calls, loads, fetches, hits>>
  <2>1. \A w, v : Loading(w, v)' = Loading(w, v) /\ Fetching(w, v)' = Fetching(w, v)
    BY <1>1 DEF Loading, Fetching, Calling
  <2>. QED
    BY <1>1, <2>1 DEF CallsCounted
<1>2. CASE Start
  <2>1. \A i \in Runners : At(i, "idle")
    BY <1>2 DEF Start, Phases, Runners
  <2>2. thread' = thread /\ calls' = calls /\ calls \in Nat
    BY <1>2 DEF Start, TypeOK
  <2>3. \A w \in Workers, v \in VoiceNames :
          loads'[w][v] = 0 /\ fetches'[w][v] = 0 /\ hits'[w][v] = 0
    BY <1>2 DEF Start, Fresh, Nothing
  <2>4. \A w, v : /\ Loading(w, v)' = Loading(w, v)
                  /\ Fetching(w, v)' = Fetching(w, v)
    BY <2>2 DEF Loading, Fetching, Calling
  <2>5. \A w, v : Cardinality(Loading(w, v)) = 0 /\ Cardinality(Fetching(w, v)) = 0
    BY <2>1, NobodyCalls DEF Loading, Fetching
  <2>. QED
    BY <2>2, <2>3, <2>4, <2>5 DEF CallsCounted
<1>3. ASSUME NEW i \in Runners, NEW x \in Workers, NEW y \in VoiceNames, Begin(i, x, y)
      PROVE  CallsCounted'
  <2>1. /\ OthersStay(i) /\ At(i, "idle")
        /\ calls' = calls + 1 /\ calls \in Nat
        /\ UNCHANGED <<loads, fetches, hits>>
    <3>1. OthersStay(i) /\ At(i, "idle") /\ calls' = calls + 1
      BY <1>3, BeginShape
    <3>2. calls \in Nat
      BY DEF TypeOK
    <3>. QED
      BY <1>3, <3>1, <3>2 DEF Begin, styleVars
  <2> SUFFICES ASSUME NEW w \in Workers, NEW v \in VoiceNames
               PROVE  /\ loads[w][v] + Cardinality(Loading(w, v)') <= calls + 1
                      /\ fetches[w][v] + Cardinality(Fetching(w, v)') <= calls + 1
    BY <2>1 DEF CallsCounted
  <2>2. /\ loads[w][v] \in Nat /\ fetches[w][v] \in Nat
        /\ loads[w][v] + Cardinality(Loading(w, v)) <= calls
        /\ fetches[w][v] + Cardinality(Fetching(w, v)) <= calls
    BY DEF TypeOK, CallsCounted
  <2>3. ASSUME NEW points, "idle" \notin points
        PROVE  /\ Cardinality(Calling(points, w, v)) \in Nat
               /\ Cardinality(Calling(points, w, v)') \in Nat
               /\ Cardinality(Calling(points, w, v)') <= Cardinality(Calling(points, w, v)) + 1
    <3>1. ~Within(points, i, w, v)
      BY <2>1, <2>3 DEF Within, At
    <3>. QED
      BY <2>1, <3>1, CallingMoves
  <2>4. /\ Cardinality(Loading(w, v)) \in Nat /\ Cardinality(Loading(w, v)') \in Nat
        /\ Cardinality(Loading(w, v)') <= Cardinality(Loading(w, v)) + 1
    BY <2>3 DEF Loading
  <2>5. /\ Cardinality(Fetching(w, v)) \in Nat /\ Cardinality(Fetching(w, v)') \in Nat
        /\ Cardinality(Fetching(w, v)') <= Cardinality(Fetching(w, v)) + 1
    BY <2>3 DEF Fetching
  <2>. QED
    BY <2>1, <2>2, <2>4, <2>5
<1>4. ASSUME NEW i \in Runners, InCall(i)
      PROVE  CallsCounted'
  <2> SUFFICES ASSUME NEW w \in Workers, NEW v \in VoiceNames
               PROVE  /\ loads'[w][v] + Cardinality(Loading(w, v)') <= calls'
                      /\ fetches'[w][v] + Cardinality(Fetching(w, v)') <= calls'
                      /\ hits'[w][v] <= fetches'[w][v]
    BY DEF CallsCounted
  <2>1. /\ loads'[w][v] + Cardinality(Loading(w, v)')
             <= loads[w][v] + Cardinality(Loading(w, v))
        /\ fetches'[w][v] + Cardinality(Fetching(w, v)')
             <= fetches[w][v] + Cardinality(Fetching(w, v))
        /\ hits'[w][v] <= fetches'[w][v]
        /\ calls' = calls
    BY <1>4, CallCounts
  <2>2. /\ loads[w][v] + Cardinality(Loading(w, v)) <= calls
        /\ fetches[w][v] + Cardinality(Fetching(w, v)) <= calls
    BY DEF CallsCounted
  <2>3. /\ loads[w][v] \in Nat /\ fetches[w][v] \in Nat /\ calls \in Nat
        /\ loads'[w][v] \in Nat /\ fetches'[w][v] \in Nat
    <3>1. TypeOK'
      BY <1>4, CallTyped
    <3>. QED
      BY <3>1 DEF TypeOK
  <2>4. OthersStay(i)
    BY <1>4, CallShape
  <2>5. /\ Cardinality(Loading(w, v)) \in Nat /\ Cardinality(Loading(w, v)') \in Nat
        /\ Cardinality(Fetching(w, v)) \in Nat /\ Cardinality(Fetching(w, v)') \in Nat
    BY <2>4, CallingMoves DEF Loading, Fetching
  <2>. QED
    BY <2>1, <2>2, <2>3, <2>5
<1>5. Pin \/ PinRaises \/ LoadModel \/ LoadFails \/ UNCHANGED vars
        => UNCHANGED <<thread, calls, loads, fetches, hits>>
  BY DEF Pin, PinRaises, LoadModel, LoadFails, styleVars, historyVars, vars
<1>. QED
  BY <1>1, <1>2, <1>3, <1>4, <1>5, StepKinds

\* Only threads that began before the first style was stored load one.
LEMMA PendingStep ==
  /\ TypeOK /\ Phases /\ StylesKept /\ CallsCounted /\ SeenBounded /\ LoadsPending
  /\ [Next]_vars
  => LoadsPending'
<1> SUFFICES ASSUME TypeOK, Phases, StylesKept, CallsCounted, SeenBounded, LoadsPending,
                    [Next]_vars
             PROVE  LoadsPending'
  OBVIOUS
<1>0. Cardinality(Threads) \in Nat
  BY RunnersFinite
<1>1. CASE UNCHANGED <<thread, loads, cache>>
  <2>1. \A w \in Workers, v \in VoiceNames :
          Loading(w, v)' = Loading(w, v) /\ Storing(w, v)' = Storing(w, v)
    BY <1>1 DEF Loading, Storing, Calling
  <2>. QED
    BY <1>1, <2>1 DEF LoadsPending
<1>2. CASE Start
  <2>1. \A i \in Runners : At(i, "idle")
    BY <1>2 DEF Start, Phases, Runners
  <2>2. thread' = thread
    BY <1>2 DEF Start
  <2>3. \A w \in Workers, v \in VoiceNames : loads'[w][v] = 0
    BY <1>2 DEF Start, Fresh, Nothing
  <2>4. \A w, v : /\ Loading(w, v)' = Loading(w, v)
                  /\ Storing(w, v)' = Storing(w, v)
    BY <2>2 DEF Loading, Storing, Calling
  <2>5. \A w, v : Cardinality(Loading(w, v)) = 0 /\ Cardinality(Storing(w, v)) = 0
    BY <2>1, NobodyCalls DEF Loading, Storing
  <2>. QED
    BY <1>0, <2>3, <2>4, <2>5 DEF LoadsPending
<1>3. ASSUME NEW i \in Runners, NEW x \in Workers, NEW y \in VoiceNames, Begin(i, x, y),
             boot = IF i = Boot THEN "warm" ELSE "done"
      PROVE  LoadsPending'
  <2>1. /\ OthersStay(i) /\ At(i, "idle") /\ UNCHANGED <<loads, cache>>
        /\ thread'[i].worker = x /\ thread'[i].voice = y
        /\ thread'[i].at = IF cache[x][y] = NoStyle THEN "miss" ELSE "hit"
    BY <1>3, BeginShape DEF Begin, styleVars
  <2> SUFFICES ASSUME NEW w \in Workers, NEW v \in VoiceNames
               PROVE  /\ loads[w][v] + Cardinality(Loading(w, v)') <= Cardinality(Threads)
                      /\ cache[w][v] = NoStyle => loads[w][v] <= Cardinality(Storing(w, v)')
    BY <2>1 DEF LoadsPending
  <2>2. /\ loads[w][v] \in Nat
        /\ loads[w][v] + Cardinality(Loading(w, v)) <= Cardinality(Threads)
        /\ cache[w][v] = NoStyle => loads[w][v] <= Cardinality(Storing(w, v))
    BY DEF TypeOK, LoadsPending
  <2>3. Cardinality(Storing(w, v)') = Cardinality(Storing(w, v))
        /\ Cardinality(Storing(w, v)) \in Nat
    <3>1. ~Within({"store"}, i, w, v) /\ ~Within({"store"}, i, w, v)'
      BY <2>1 DEF Within, At
    <3>. QED
      BY <2>1, <3>1, CallingMoves DEF Storing
  <2>4. ~Within({"miss", "load"}, i, w, v)
    BY <2>1 DEF Within, At
  <2>5. CASE Within({"miss", "load"}, i, w, v)'
    <3>1. cache[w][v] = NoStyle
      BY <2>1, <2>5 DEF Within
    <3>2. Cardinality(Loading(w, v)') = Cardinality(Loading(w, v)) + 1
          /\ Cardinality(Loading(w, v)) \in Nat
      BY <2>1, <2>4, <2>5, CallingMoves DEF Loading
    <3>3. Cardinality(Loading(w, v)) + Cardinality(Storing(w, v)) + 1 <= Cardinality(Threads)
      BY <1>3, <2>1, RoomForOne
    <3>. QED
      BY <1>0, <2>2, <2>3, <3>1, <3>2, <3>3
  <2>6. CASE ~Within({"miss", "load"}, i, w, v)'
    <3>1. Cardinality(Loading(w, v)') = Cardinality(Loading(w, v))
      BY <2>1, <2>4, <2>6, CallingMoves DEF Loading
    <3>. QED
      BY <2>2, <2>3, <3>1
  <2>. QED
    BY <2>5, <2>6
<1>4. ASSUME NEW i \in Runners, InCall(i)
      PROVE  LoadsPending'
  <2> SUFFICES ASSUME NEW w \in Workers, NEW v \in VoiceNames
               PROVE  /\ loads'[w][v] + Cardinality(Loading(w, v)') <= Cardinality(Threads)
                      /\ cache'[w][v] = NoStyle => loads'[w][v] <= Cardinality(Storing(w, v)')
    BY DEF LoadsPending
  <2>1. /\ loads'[w][v] + Cardinality(Loading(w, v)')
             <= loads[w][v] + Cardinality(Loading(w, v))
        /\ cache'[w][v] = NoStyle =>
             /\ cache[w][v] = NoStyle
             /\ loads'[w][v] - Cardinality(Storing(w, v)')
                  <= loads[w][v] - Cardinality(Storing(w, v))
    BY <1>4, CallCounts
  <2>2. /\ loads[w][v] + Cardinality(Loading(w, v)) <= Cardinality(Threads)
        /\ cache[w][v] = NoStyle => loads[w][v] <= Cardinality(Storing(w, v))
    BY DEF LoadsPending
  <2>3. loads[w][v] \in Nat /\ loads'[w][v] \in Nat
    <3>1. TypeOK'
      BY <1>4, CallTyped
    <3>. QED
      BY <3>1 DEF TypeOK
  <2>4. OthersStay(i)
    BY <1>4, CallShape
  <2>5. /\ Cardinality(Loading(w, v)) \in Nat /\ Cardinality(Loading(w, v)') \in Nat
        /\ Cardinality(Storing(w, v)) \in Nat /\ Cardinality(Storing(w, v)') \in Nat
    BY <2>4, CallingMoves DEF Loading, Storing
  <2>. QED
    BY <1>0, <2>1, <2>2, <2>3, <2>5
<1>5. Pin \/ PinRaises \/ LoadModel \/ LoadFails \/ UNCHANGED vars => UNCHANGED <<thread, loads, cache>>
  BY DEF Pin, PinRaises, LoadModel, LoadFails, styleVars, historyVars, vars
<1>. QED
  BY <1>1, <1>2, <1>3, <1>4, <1>5, StepKinds
-----------------------------------------------------------------------------
(***************************************************************************)
(* Calls that do not overlap.                                              *)
(***************************************************************************)

\* A step of a call touches the counts of its own worker only.
LEMMA OtherWorkers ==
  ASSUME TypeOK, NEW i \in Runners, InCall(i), NEW w \in Workers, w # thread[i].worker
  PROVE  loads'[w] = loads[w] /\ hits'[w] = hits[w] /\ fetches'[w] = fetches[w]
<1>1. /\ loads \in [Workers -> [VoiceNames -> 0..MaxCalls]]
      /\ hits \in [Workers -> [VoiceNames -> 0..MaxCalls]]
      /\ fetches \in [Workers -> [VoiceNames -> 0..MaxCalls]]
  BY DEF TypeOK
<1>2. CASE LoadStyle(i)
  BY <1>1, <1>2 DEF LoadStyle, styleVars
<1>3. CASE WriteHits(i)
  BY <1>1, <1>3 DEF WriteHits
<1>4. CASE Validate(i) \/ LoadStyleRaises(i) \/ Store(i) \/ ReadHits(i)
  BY <1>4 DEF Validate, LoadStyleRaises, Raises, Store, ReadHits, styleVars, historyVars
<1>5. CASE Synthesized(i) \/ SynthesisRaises(i)
  BY <1>5 DEF Synthesized, SynthesisRaises, Raises, styleVars, historyVars
<1>. QED
  BY <1>2, <1>3, <1>4, <1>5 DEF InCall

\* What holds of a thread whose worker serves it alone.
Quiet(i) ==
  /\ thread[i].at \in {"miss", "load"} => loads[thread[i].worker][thread[i].voice] = 0
  /\ At(i, "count") => thread[i].seen = hits[thread[i].worker][thread[i].voice]

\* What holds of a worker that serves one call at a time.
Contract(w) == \A v \in VoiceNames : loads[w][v] <= 1 /\ hits[w][v] = fetches[w][v]

\* A step of a call that does not overlap with another of its worker.
LEMMA AloneSteps ==
  ASSUME TypeOK, CallsCounted, SeenBounded, NEW i \in Runners, InCall(i), Quiet(i),
         NEW w \in Workers, w = thread[i].worker, Contract(w)
  PROVE  Contract(w)' /\ Quiet(i)'
<1> DEFINE v == thread[i].voice
<1>0. /\ thread \in [Runners -> CallState] /\ v \in VoiceNames
      /\ loads \in [Workers -> [VoiceNames -> 0..MaxCalls]]
      /\ hits \in [Workers -> [VoiceNames -> 0..MaxCalls]]
      /\ fetches \in [Workers -> [VoiceNames -> 0..MaxCalls]]
  BY DEF TypeOK, CallState
<1>1. CASE At(i, "idle")'
  <2>1. UNCHANGED <<loads, hits, fetches>>
    BY <1>1, EndShape DEF styleVars
  <2>. QED
    BY <1>1, <2>1 DEF Contract, Quiet, At
<1>2. CASE ~At(i, "idle")'
  <2>0. SameCall(i) /\ ~Raises(i) /\ ~Synthesized(i)
    BY <1>2, MidShape, RaisesShape, SynthesizedShape, IdleShape
  <2>1. CASE Validate(i)
    <3>1. UNCHANGED <<loads, hits, fetches>> /\ thread[i].at = "miss"
      BY <2>0, <2>1 DEF Validate, styleVars, historyVars, At
    <3>2. thread'[i].at = "load"
      BY <2>0, <2>1, GoesShape DEF Validate, Busy
    <3>. QED
      BY <2>0, <3>1, <3>2 DEF Contract, Quiet, At, SameCall
  <2>2. CASE LoadStyle(i)
    <3>1. /\ thread[i].at = "load" /\ UNCHANGED <<hits, fetches>>
          /\ loads' = [loads EXCEPT ![w][v] = loads[w][v] + 1]
      BY <2>2 DEF LoadStyle, styleVars, At
    <3>2. thread'[i].at = "store"
      BY <2>2, LoadShape
    <3>3. loads[w][v] = 0
      BY <3>1 DEF Quiet
    <3>4. \A y \in VoiceNames : loads'[w][y] = IF y = v THEN 1 ELSE loads[w][y]
      BY <1>0, <3>1, <3>3
    <3>. QED
      BY <3>1, <3>2, <3>4 DEF Contract, Quiet, At
  <2>3. CASE Store(i)
    <3>1. UNCHANGED <<loads, hits, fetches>> /\ Goes(i, "hit")
      BY <2>3 DEF Store, historyVars
    <3>2. thread'[i].at = "hit"
      BY <3>1, GoesShape DEF Busy
    <3>. QED
      BY <3>1, <3>2 DEF Contract, Quiet, At
  <2>4. CASE ReadHits(i)
    <3>1. UNCHANGED <<loads, hits, fetches>>
      BY <2>4 DEF ReadHits, styleVars, historyVars
    <3>2. thread'[i].at = "count" /\ thread'[i].seen = hits[w][v]
      BY <2>4, ReadShape
    <3>. QED
      BY <2>0, <3>1, <3>2 DEF Contract, Quiet, At, SameCall
  <2>5. CASE WriteHits(i)
    <3>1. /\ thread[i].at = "count" /\ loads' = loads
          /\ hits' = [hits EXCEPT ![w][v] = thread[i].seen + 1]
          /\ fetches' = [fetches EXCEPT ![w][v] = fetches[w][v] + 1]
          /\ Goes(i, "synth")
      BY <2>5 DEF WriteHits, Counted, At
    <3>2. thread'[i].at = "synth"
      BY <3>1, GoesShape DEF Busy
    <3>3. thread[i].seen = hits[w][v]
      BY <3>1 DEF Quiet, At
    <3>4. \A y \in VoiceNames : hits[w][y] = fetches[w][y] /\ loads[w][y] <= 1
      BY DEF Contract
    <3>5. \A y \in VoiceNames : hits'[w][y] = fetches'[w][y]
      BY <1>0, <3>1, <3>3, <3>4
    <3>. QED
      BY <3>1, <3>2, <3>4, <3>5 DEF Contract, Quiet, At
  <2>. QED
    BY <2>0, <2>1, <2>2, <2>3, <2>4, <2>5 DEF InCall, LoadStyleRaises, SynthesisRaises
<1>. QED
  BY <1>1, <1>2

\* A worker that never had two calls at the same time keeps the contract.
LEMMA SerialStep ==
  /\ TypeOK /\ Phases /\ CallsCounted /\ SeenBounded /\ LoadsPending
  /\ Serialized /\ SerialContract
  /\ [Next]_vars
  => Serialized' /\ SerialContract'
<1> SUFFICES ASSUME TypeOK, Phases, CallsCounted, SeenBounded, LoadsPending, Serialized,
                    SerialContract, [Next]_vars
             PROVE  Serialized' /\ SerialContract'
  OBVIOUS
<1> DEFINE Alone(i, j) ==
             /\ ~At(i, "idle") /\ ~At(j, "idle")
             /\ thread[i].worker = thread[j].worker
             /\ thread[i].worker \notin overlapped
             => i = j
<1>0. /\ \A i, j \in Runners : Alone(i, j)
      /\ \A i \in Runners : thread[i].worker \notin overlapped => Quiet(i)
      /\ \A w \in Workers \ overlapped : Contract(w)
      /\ thread \in [Runners -> CallState]
  BY DEF Serialized, SerialContract, Quiet, Contract, TypeOK, CallState
<1>1. ASSUME \A i, j \in Runners : Alone(i, j)',
             \A i \in Runners : (thread[i].worker \notin overlapped => Quiet(i))',
             \A w \in Workers \ overlapped' : Contract(w)'
      PROVE  Serialized' /\ SerialContract'
  BY <1>1 DEF Serialized, SerialContract, Quiet, Contract
<1>2. CASE UNCHANGED <<thread, loads, hits, fetches, overlapped>>
  BY <1>2 DEF Serialized, SerialContract, At
<1>3. CASE Start
  <2>1. /\ \A i \in Runners : At(i, "idle")
        /\ thread' = thread
    BY <1>3 DEF Start, Phases, Runners
  <2>2. \A w \in Workers, v \in VoiceNames :
          loads'[w][v] = 0 /\ fetches'[w][v] = 0 /\ hits'[w][v] = 0
    BY <1>3 DEF Start, Fresh, Nothing
  <2>. QED
    BY <2>1, <2>2 DEF Serialized, SerialContract, At
<1>4. ASSUME NEW i \in Runners, NEW x \in Workers, NEW y \in VoiceNames, Begin(i, x, y)
      PROVE  Serialized' /\ SerialContract'
  <2>1. /\ OthersStay(i) /\ At(i, "idle") /\ UNCHANGED <<loads, hits, fetches, cache>>
        /\ thread'[i].worker = x /\ thread'[i].voice = y
        /\ thread'[i].at = IF cache[x][y] = NoStyle THEN "miss" ELSE "hit"
    BY <1>4, BeginShape DEF Begin, styleVars
  <2>2. /\ overlapped \subseteq overlapped'
        /\ (\E j \in Runners \ {i} : ~At(j, "idle") /\ thread[j].worker = x) => x \in overlapped'
    BY <1>4 DEF Begin
  <2>3. \A j, k \in Runners : Alone(j, k)'
    BY <1>0, <2>1, <2>2 DEF OthersStay, At
  <2>4. x \notin overlapped' => Quiet(i)'
    <3>1. ASSUME x \notin overlapped', cache[x][y] = NoStyle
          PROVE  loads[x][y] = 0
      <4>1. Storing(x, y) = {}
        BY <2>1, <2>2, <3>1 DEF Storing, Calling, At
      <4>2. Cardinality(Storing(x, y)) = 0
        BY <4>1, FS_EmptySet
      <4>3. loads[x][y] <= Cardinality(Storing(x, y)) /\ loads[x][y] \in Nat
        BY <3>1 DEF LoadsPending, TypeOK
      <4>. QED
        BY <4>2, <4>3
    <3>. QED
      BY <2>1, <3>1 DEF Quiet, At
  <2>5. \A j \in Runners : (thread[j].worker \notin overlapped => Quiet(j))'
    <3> SUFFICES ASSUME NEW j \in Runners, thread'[j].worker \notin overlapped'
                 PROVE  Quiet(j)'
      OBVIOUS
    <3>1. CASE j = i
      BY <2>1, <2>4, <3>1
    <3>2. CASE j # i
      BY <1>0, <2>1, <2>2, <3>2 DEF Quiet, OthersStay, At
    <3>. QED
      BY <3>1, <3>2
  <2>6. \A w \in Workers \ overlapped' : Contract(w)'
    BY <1>0, <2>1, <2>2 DEF Contract
  <2>. QED
    BY <1>1, <2>3, <2>5, <2>6
<1>5. ASSUME NEW i \in Runners, InCall(i)
      PROVE  Serialized' /\ SerialContract'
  <2>1. /\ OthersStay(i) /\ ~At(i, "idle") /\ overlapped' = overlapped
        /\ At(i, "idle")' \/ SameCall(i)
    <3>1. OthersStay(i) /\ ~At(i, "idle")
      BY <1>5, CallShape
    <3>2. At(i, "idle")' => overlapped' = overlapped
      BY <1>5, EndShape
    <3>3. ~At(i, "idle")' => SameCall(i) /\ overlapped' = overlapped
      BY <1>5, MidShape
    <3>. QED
      BY <3>1, <3>2, <3>3
  <2>2. PICK x \in Workers : x = thread[i].worker
    BY <1>0 DEF CallState
  <2>3. \A j, k \in Runners : Alone(j, k)'
    BY <1>0, <2>1 DEF OthersStay, SameCall, At
  <2>4. x \notin overlapped => Contract(x)' /\ Quiet(i)'
    BY <1>0, <1>5, <2>2, AloneSteps
  <2>5. \A w \in Workers \ overlapped' : Contract(w)'
    <3> SUFFICES ASSUME NEW w \in Workers \ overlapped', w # x
                 PROVE  Contract(w)'
      BY <2>1, <2>4
    <3>1. loads'[w] = loads[w] /\ hits'[w] = hits[w] /\ fetches'[w] = fetches[w]
      BY <1>5, <2>2, OtherWorkers
    <3>. QED
      BY <1>0, <2>1, <3>1 DEF Contract
  <2>6. \A j \in Runners : (thread[j].worker \notin overlapped => Quiet(j))'
    <3> SUFFICES ASSUME NEW j \in Runners, thread'[j].worker \notin overlapped'
                 PROVE  Quiet(j)'
      OBVIOUS
    <3>1. CASE j = i
      <4>1. CASE At(i, "idle")'
        BY <3>1, <4>1 DEF Quiet, At
      <4>2. CASE SameCall(i)
        BY <2>1, <2>2, <2>4, <3>1, <4>2 DEF SameCall
      <4>. QED
        BY <2>1, <4>1, <4>2
    <3>2. CASE j # i
      <4>1. thread'[j] = thread[j] /\ thread[j].worker \in Workers /\ Quiet(j)
        BY <1>0, <2>1, <3>2 DEF OthersStay, CallState
      <4>2. CASE At(j, "idle")
        BY <4>1, <4>2 DEF Quiet, At
      <4>3. CASE ~At(j, "idle")
        <5>1. thread[j].worker # thread[i].worker
          BY <1>0, <2>1, <3>2, <4>1, <4>3
        <5>2. /\ loads'[thread[j].worker] = loads[thread[j].worker]
              /\ hits'[thread[j].worker] = hits[thread[j].worker]
          BY <1>5, <4>1, <5>1, OtherWorkers
        <5>. QED
          BY <4>1, <5>2 DEF Quiet, At
      <4>. QED
        BY <4>2, <4>3
    <3>. QED
      BY <3>1, <3>2
  <2>. QED
    BY <1>1, <2>3, <2>5, <2>6
<1>6. Pin \/ PinRaises \/ LoadModel \/ LoadFails \/ UNCHANGED vars
        => UNCHANGED <<thread, loads, hits, fetches, overlapped>>
  BY DEF Pin, PinRaises, LoadModel, LoadFails, styleVars, historyVars, vars
<1>. QED
  BY <1>2, <1>3, <1>4, <1>5, <1>6, StepKinds
-----------------------------------------------------------------------------
(***************************************************************************)
(* Probing the GPU.                                                        *)
(***************************************************************************)

\* What is loaded stays loaded; where all components are found all are loaded: each
\* comes after those it needs.
LEMMA AllLoaded ==
  ASSUME NEW there \in SUBSET Components, NEW loaded \in SUBSET Components
  PROVE  /\ LoadAll(there, loaded) \in SUBSET Components
         /\ loaded \subseteq LoadAll(there, loaded)
         /\ there = Components => LoadAll(there, loaded) = Components
<1> DEFINE A == SUBSET Components
           Rec(f) == [i \in 0..Len(ComponentOrder) |->
                        IF i = 0 THEN loaded
                        ELSE IF ComponentOrder[i] \in there
                        THEN Load(f[i - 1], ComponentOrder[i])
                        ELSE f[i - 1]]
           F == CHOOSE f : f = Rec(f)
           next(i, x) == IF ComponentOrder[i] \in there
                         THEN Load(x, ComponentOrder[i]) ELSE x
           Step == [p \in (1..6) \X A |-> next(p[1], p[2])]
<1>1. Len(ComponentOrder) = 6 /\ \A i \in 1..6 : ComponentOrder[i] \in Components
  BY DEF ComponentOrder, Components, ToSet
<1>2. \A i \in 1..6, x \in A : next(i, x) \in A /\ x \subseteq next(i, x)
  BY <1>1 DEF Load
<1>3. Step \in Steps(6, A)
  BY <1>2 DEF Steps
<1>. HIDE DEF A, next
<1>4. PICK h \in [0..6 -> A] : Run(h, loaded, 6, Step)
  <2>1. loaded \in A /\ 6 \in Nat
    BY DEF A
  <2>. HIDE DEF Step
  <2>. QED
    BY <1>3, <2>1, Iterated
<1>5. /\ h[0] = loaded
      /\ \A i \in 1..6 : i - 1 \in 0..6 /\ h[i - 1] \in A /\ h[i] = next(i, h[i - 1])
  <2>1. ASSUME NEW i \in 1..6
        PROVE  i - 1 \in 0..6 /\ h[i - 1] \in A /\ h[i] = next(i, h[i - 1])
    <3>1. i - 1 \in 0..6 /\ h[i - 1] \in A
      OBVIOUS
    <3>2. Step[<<i, h[i - 1]>>] = next(i, h[i - 1])
      BY <3>1
    <3>. HIDE DEF Step
    <3>. QED
      BY <1>4, <3>1, <3>2 DEF Run
  <2>. QED
    BY <1>4, <2>1 DEF Run
<1>. HIDE DEF Step
<1>6. h = Rec(h)
  <2>1. \A i \in 0..6 : h[i] = IF i = 0 THEN loaded
                        ELSE IF ComponentOrder[i] \in there
                        THEN Load(h[i - 1], ComponentOrder[i])
                        ELSE h[i - 1]
    BY <1>5 DEF next
  <2>. QED
    BY <1>1, <2>1
<1>7. F = Rec(F) /\ LoadAll(there, loaded) = F[6]
  BY <1>1, <1>6 DEF LoadAll
<1>. HIDE DEF F
<1>8. /\ F[0] = loaded
      /\ \A i \in 1..6 : F[i] = next(i, F[i - 1])
  <2>1. \A i \in 0..6 : F[i] = IF i = 0 THEN loaded
                        ELSE IF ComponentOrder[i] \in there
                        THEN Load(F[i - 1], ComponentOrder[i])
                        ELSE F[i - 1]
    BY <1>1, <1>7
  <2>. QED
    BY <2>1 DEF next
<1>9. /\ F[1] = next(1, F[0]) /\ F[2] = next(2, F[1]) /\ F[3] = next(3, F[2])
      /\ F[4] = next(4, F[3]) /\ F[5] = next(5, F[4]) /\ F[6] = next(6, F[5])
  <2>1. /\ 1 \in 1..6 /\ 2 \in 1..6 /\ 3 \in 1..6 /\ 4 \in 1..6 /\ 5 \in 1..6 /\ 6 \in 1..6
        /\ 1 - 1 = 0 /\ 2 - 1 = 1 /\ 3 - 1 = 2 /\ 4 - 1 = 3 /\ 5 - 1 = 4 /\ 6 - 1 = 5
    OBVIOUS
  <2>. QED
    BY <1>8, <2>1
<1>10. loaded \subseteq F[6] /\ F[6] \in A
  <2>1. F[0] \in A /\ loaded \subseteq F[0]
    BY <1>8 DEF A
  <2>2. F[1] \in A /\ loaded \subseteq F[1]
    BY <1>2, <1>9, <2>1
  <2>3. F[2] \in A /\ loaded \subseteq F[2]
    BY <1>2, <1>9, <2>2
  <2>4. F[3] \in A /\ loaded \subseteq F[3]
    BY <1>2, <1>9, <2>3
  <2>5. F[4] \in A /\ loaded \subseteq F[4]
    BY <1>2, <1>9, <2>4
  <2>6. F[5] \in A /\ loaded \subseteq F[5]
    BY <1>2, <1>9, <2>5
  <2>. QED
    BY <1>2, <1>9, <2>6
<1>11. ASSUME there = Components
       PROVE  Components \subseteq F[6]
  <2>1. \A i \in 1..6 : \A x : next(i, x) = Load(x, ComponentOrder[i])
    BY <1>1, <1>11 DEF next
  <2>2. "cuda_runtime" \in F[1]
    BY <1>9, <2>1 DEF Load, Needs, ComponentOrder
  <2>3. {"cuda_runtime", "cuda_nvrtc"} \subseteq F[2]
    BY <1>9, <2>1, <2>2 DEF Load, Needs, ComponentOrder
  <2>4. {"cuda_runtime", "cuda_nvrtc", "cublas"} \subseteq F[3]
    BY <1>9, <2>1, <2>3 DEF Load, Needs, ComponentOrder
  <2>5. {"cuda_runtime", "cuda_nvrtc", "cublas", "cufft"} \subseteq F[4]
    BY <1>9, <2>1, <2>4 DEF Load, Needs, ComponentOrder
  <2>6. {"cuda_runtime", "cuda_nvrtc", "cublas", "cufft", "curand"} \subseteq F[5]
    BY <1>9, <2>1, <2>5 DEF Load, Needs, ComponentOrder
  <2>7. {"cuda_runtime", "cuda_nvrtc", "cublas", "cufft", "curand", "cudnn"} \subseteq F[6]
    BY <1>9, <2>1, <2>6 DEF Load, Needs, ComponentOrder
  <2>8. Components = {"cuda_runtime", "cuda_nvrtc", "cublas", "cufft", "curand", "cudnn"}
    BY DEF Components, ToSet, ComponentOrder
  <2>. QED
    BY <2>7, <2>8
<1>12. there = Components => F[6] = Components
  BY <1>10, <1>11 DEF A
<1>. QED
  BY <1>7, <1>10, <1>12 DEF A

\* Any order of the directories has all of them.
LEMMA AllVisited ==
  ASSUME NEW D, IsFiniteSet(D), NEW roots \in SetToSeqs(D), NEW root \in D
  PROVE  /\ Len(roots) \in Nat /\ roots \in [1..Len(roots) -> D]
         /\ \E k \in 1..Len(roots) : roots[k] = root
<1> DEFINE n == Cardinality(D)
<1>1. n \in Nat
  BY FS_CardinalityType
<1>2. roots \in [1..n -> D] /\ \A i, j \in 1..n : i # j => roots[i] # roots[j]
  BY DEF SetToSeqs
<1>3. Cardinality(1..n) = n
  BY <1>1, FS_Interval
<1>. HIDE DEF n
<1>4. Len(roots) = n
  BY <1>1, <1>2
<1>5. roots \in Injection(1..n, D)
  BY <1>2 DEF Injection, IsInjective
<1>6. roots \in Surjection(1..n, D)
  BY <1>3, <1>5, FS_Injection DEF n
<1>7. \E k \in 1..n : roots[k] = root
  BY <1>6 DEF Surjection
<1>. QED
  BY <1>1, <1>2, <1>4, <1>7

\* On such a machine everything is loaded at that directory at the latest, and from
\* then on nothing is missing.
LEMMA AllPreloaded ==
  ASSUME NEW m, IsMachine(m), Complete(m), NEW roots \in Roots(m)
  PROVE  Preload(m, roots) = Components
<1> DEFINE A == SUBSET Components
           n == Len(roots)
           next(i, x) == LoadAll(m.wheels[roots[i]], x)
           Rec(f) == [i \in 0..n |-> IF i = 0 THEN m.system ELSE next(i, f[i - 1])]
           F == CHOOSE f : f = Rec(f)
           Step == [p \in (1..n) \X A |-> next(p[1], p[2])]
<1>1. PICK root \in DOMAIN m.wheels : m.wheels[root] = Components
  BY DEF Complete
<1>2. /\ m.system \in A /\ IsFiniteSet(DOMAIN m.wheels)
      /\ \A r \in DOMAIN m.wheels : m.wheels[r] \in SUBSET Components
  BY DEF IsMachine
<1>3. n \in Nat /\ roots \in [1..n -> DOMAIN m.wheels] /\ \E k \in 1..n : roots[k] = root
  BY <1>2, AllVisited DEF Roots
<1>. HIDE DEF n
<1>4. PICK k \in 1..n : m.wheels[roots[k]] = Components
  BY <1>1, <1>3
<1>5. \A i \in 1..n, x \in A :
        /\ next(i, x) \in A
        /\ x \subseteq next(i, x)
        /\ i = k => next(i, x) = Components
  <2> SUFFICES ASSUME NEW i \in 1..n, NEW x \in A
               PROVE  /\ next(i, x) \in A
                      /\ x \subseteq next(i, x)
                      /\ i = k => next(i, x) = Components
    OBVIOUS
  <2>1. m.wheels[roots[i]] \in SUBSET Components
    BY <1>2, <1>3
  <2>. QED
    BY <1>4, <2>1, AllLoaded
<1>6. Step \in Steps(n, A)
  BY <1>5 DEF Steps
<1>. HIDE DEF A, next
<1>7. PICK h \in [0..n -> A] : Run(h, m.system, n, Step)
  <2>. HIDE DEF Step
  <2>. QED
    BY <1>2, <1>3, <1>6, Iterated
<1>8. /\ h[0] = m.system
      /\ \A i \in 1..n : i - 1 \in 0..n /\ h[i - 1] \in A /\ h[i] = next(i, h[i - 1])
  <2>1. ASSUME NEW i \in 1..n
        PROVE  i - 1 \in 0..n /\ h[i - 1] \in A /\ h[i] = next(i, h[i - 1])
    <3>1. i - 1 \in 0..n /\ h[i - 1] \in A
      BY <1>3
    <3>2. Step[<<i, h[i - 1]>>] = next(i, h[i - 1])
      BY <3>1
    <3>. HIDE DEF Step
    <3>. QED
      BY <1>7, <3>1, <3>2 DEF Run
  <2>. QED
    BY <1>7, <2>1 DEF Run
<1>. HIDE DEF Step
<1>9. F = Rec(F)
  <2>1. h = Rec(h)
    BY <1>8
  <2>. QED
    BY <2>1
<1>10. Preload(m, roots) = F[n]
  BY DEF Preload, n, next
<1>. HIDE DEF F
<1>11. F[0] = m.system /\ \A i \in 1..n : F[i] = next(i, F[i - 1])
  BY <1>3, <1>9
<1> DEFINE T == {i \in 0..n : F[i] \in A /\ (i >= k => F[i] = Components)}
<1>12. 0 \in T
  BY <1>2, <1>3, <1>11
<1>13. \A i \in 0..(n - 1) : i \in T => i + 1 \in T
  <2> SUFFICES ASSUME NEW i \in 0..(n - 1), i \in T
               PROVE  i + 1 \in T
    OBVIOUS
  <2>1. i + 1 \in 1..n /\ i + 1 \in 0..n /\ (i + 1) - 1 = i /\ i \in Int /\ k \in Int
    BY <1>3
  <2>2. F[i + 1] = next(i + 1, F[i]) /\ F[i] \in A
    BY <1>11, <2>1
  <2>3. F[i + 1] \in A /\ F[i] \subseteq F[i + 1] /\ (i + 1 = k => F[i + 1] = Components)
    BY <1>5, <2>1, <2>2
  <2>4. i >= k => F[i] = Components
    OBVIOUS
  <2>5. i + 1 >= k => F[i + 1] = Components
    <3>1. i + 1 >= k => i + 1 = k \/ i >= k
      BY <2>1
    <3>2. i >= k => F[i + 1] = Components
      BY <2>3, <2>4 DEF A
    <3>. QED
      BY <2>3, <3>1, <3>2
  <2>. QED
    BY <2>1, <2>3, <2>5
<1>. HIDE DEF T
<1>14. 0..n \subseteq T
  <2>1. n \in Nat
    BY <1>3
  <2>. QED
    BY ONLY <1>12, <1>13, <2>1, InductionUpTo
<1>15. n \in 0..n /\ n >= k
  BY <1>3
<1>16. F[n] = Components
  BY <1>14, <1>15 DEF T
<1>. QED
  BY <1>10, <1>16

\* The first probe finds the GPU.
LEMMA GpuFound ==
  ASSUME NEW m, IsMachine(m), Complete(m), NEW answer \in CudaIsUsable(m)
  PROVE  answer = TRUE
<1>1. PICK roots \in Roots(m) :
        answer = (m.onnxruntime /\ m.cudaBuild /\ ProviderLoads(Preload(m, roots)))
  BY DEF CudaIsUsable
<1>2. ProviderLoads(Preload(m, roots))
  BY AllPreloaded DEF ProviderLoads
<1>3. m.onnxruntime /\ m.cudaBuild
  BY DEF Complete
<1>. QED
  BY <1>1, <1>2, <1>3

\* On such a machine the answer is never no.
LEMMA NeverNoStep ==
  TypeOK /\ CallsCounted /\ NeverNo /\ [Next]_vars => NeverNo'
<1> SUFFICES ASSUME TypeOK, CallsCounted, NeverNo, [Next]_vars
             PROVE  NeverNo'
  OBVIOUS
<1>1. CASE UNCHANGED <<machine, usable>>
  BY <1>1 DEF NeverNo
<1>2. CASE Pin
  <2>1. machine' = machine /\ IsMachine(machine)
    BY <1>2 DEF Pin, TypeOK
  <2>2. CASE UNCHANGED usable
    BY <2>1, <2>2 DEF NeverNo
  <2>3. CASE Probe
    <3>1. ASSUME NEW answer \in CudaIsUsable(machine), Complete(machine),
                 usable' = IF answer THEN "yes" ELSE "no"
          PROVE  usable' # "no"
      <4>1. answer = TRUE
        BY <2>1, <3>1, GpuFound
      <4>. QED
        BY <3>1, <4>1
    <3>. QED
      BY <2>1, <2>3, <3>1 DEF Probe, NeverNo
  <2>. QED
    BY <1>2, <2>2, <2>3 DEF Pin
<1>3. ASSUME NEW i \in Runners, InCall(i)
      PROVE  UNCHANGED <<machine, usable>>
  <2>1. At(i, "idle")' => UNCHANGED <<machine, usable>>
    BY <1>3, EndShape
  <2>2. ~At(i, "idle")' => UNCHANGED <<machine, usable>>
    BY <1>3, MidShape DEF bootVars
  <2>. QED
    BY <2>1, <2>2
<1>4. ASSUME NEW i \in Runners, NEW w \in Workers, NEW v \in VoiceNames, Begin(i, w, v)
      PROVE  UNCHANGED <<machine, usable>>
  BY <1>4 DEF Begin, bootVars
<1>5. Start \/ PinRaises \/ LoadModel \/ LoadFails \/ UNCHANGED vars => UNCHANGED <<machine, usable>>
  BY DEF Start, PinRaises, LoadModel, LoadFails, vars, bootVars
<1>. QED
  BY <1>1, <1>2, <1>3, <1>4, <1>5, StepKinds
-----------------------------------------------------------------------------
(***************************************************************************)
(* The inductive invariant, and what follows from it.                      *)
(***************************************************************************)

\* It holds initially: nothing has been called.
LEMMA InvInit == Init => WorkerInv
<1> SUFFICES ASSUME Init
             PROVE  WorkerInv
  OBVIOUS
<1>1. TypeOK
  BY InitTyped
<1>2. \A i \in Runners : thread[i] = Idle /\ At(i, "idle")
  BY DEF Init, At, Idle
<1>3. \A w, v : /\ Cardinality(Loading(w, v)) = 0
                /\ Cardinality(Storing(w, v)) = 0
                /\ Cardinality(Fetching(w, v)) = 0
  BY <1>2, NobodyCalls DEF Loading, Storing, Fetching
<1>4. \A w \in Workers, v \in VoiceNames :
        loads[w][v] = 0 /\ fetches[w][v] = 0 /\ hits[w][v] = 0 /\ cache[w][v] = NoStyle
  BY DEF Init, Nothing
<1>5. Cardinality(Threads) \in Nat /\ calls = 0
  BY RunnersFinite DEF Init
<1>6. CallsCounted /\ LoadsPending
  BY <1>3, <1>4, <1>5 DEF CallsCounted, LoadsPending
<1>7. Phases /\ SeenBounded /\ Serialized
  BY <1>2 DEF Phases, SeenBounded, Serialized, At, Idle, Runners
<1>8. StylesKept /\ SerialContract
  BY <1>2, <1>4 DEF StylesKept, SerialContract, At, Idle
<1>9. OnTarget /\ NeverNo
  BY DEF Init, OnTarget, Target, NeverNo
<1>. QED
  BY <1>1, <1>6, <1>7, <1>8, <1>9 DEF WorkerInv

\* Every step keeps it.
LEMMA InvStep == WorkerInv /\ [Next]_vars => WorkerInv'
BY TypeStep, PhasesStep, StylesStep, CountsStep, SeenStep, PendingStep, SerialStep,
   DeviceStep, NeverNoStep
DEF WorkerInv

\* It holds in every behaviour.
LEMMA Invariant == Spec => []WorkerInv
BY InvInit, InvStep, PTL DEF Spec

\* The attributes of the workers, the provider list and the threads keep to their
\* ranges: a style is loaded, and a use is counted, at most once per call.
THEOREM WorkerTyped == Spec => []TypeOK
<1>1. WorkerInv => TypeOK
  BY DEF WorkerInv
<1>. QED
  BY <1>1, Invariant, PTL

\* However many threads share a worker's cache, a text is synthesized with a style
\* of the voice that was asked for (_get_style).
THEOREM StylesMatch == Spec => []StyleMatches
<1>1. WorkerInv => StyleMatches
  BY DEF WorkerInv, StylesKept, StyleMatches, NoStyle
<1>. QED
  BY <1>1, Invariant, PTL

\* However many calls are made, a worker loads a voice at most once per thread: only
\* who looked before the first style was stored loads one (_get_style).
THEOREM LoadsStayBounded == Spec => []LoadsBounded
<1>1. ASSUME WorkerInv, NEW w \in Workers, NEW v \in VoiceNames
      PROVE  loads[w][v] <= Cardinality(Threads)
  <2>1. loads[w][v] + Cardinality(Loading(w, v)) <= Cardinality(Threads)
    BY <1>1 DEF WorkerInv, LoadsPending
  <2>2. Cardinality(Loading(w, v)) \in Nat
    <3>1. IsFiniteSet(Loading(w, v))
      BY RunnersFinite, FS_Subset DEF Loading, Calling
    <3>. QED
      BY <3>1, FS_CardinalityType
  <2>3. loads[w][v] \in Nat /\ Cardinality(Threads) \in Nat
    BY <1>1, RunnersFinite DEF WorkerInv, TypeOK
  <2>. QED
    BY <2>1, <2>2, <2>3
<1>2. WorkerInv => LoadsBounded
  BY <1>1 DEF LoadsBounded
<1>. QED
  BY <1>2, Invariant, PTL

\* A worker whose calls never overlapped has loaded each voice at most once and
\* counted every use: the promise of worker.py:9-10 and 116-118.
THEOREM SerialWorkerKeepsContract == Spec => []SerialContract
<1>1. WorkerInv => SerialContract
  BY DEF WorkerInv
<1>. QED
  BY <1>1, Invariant, PTL

\* All models of a pool run on one device, and on CUDA only if that was asked for
\* and the first probe found it usable (_apply_device, cuda_is_usable).
THEOREM OneDevice == Spec => []SameDevice
<1>1. WorkerInv => SameDevice
  BY DEF WorkerInv, OnTarget, Target, SameDevice
<1>. QED
  BY <1>1, Invariant, PTL

\* Of any wheels in any directories, visited in any order: where all are together in
\* one, every model that may run on the GPU does (preload_cuda_libraries,
\* cuda_is_usable, _apply_device).
THEOREM GpuIsUsed == Spec => []GpuIfComplete
<1>1. ASSUME WorkerInv, Complete(machine), WantsGpu, NEW w \in Workers
      PROVE  model[w] \in {"none", "cuda"}
  <2>1. usable \in {"yes", "unknown"}
    BY <1>1 DEF WorkerInv, TypeOK, NeverNo
  <2>. QED
    BY <1>1, <2>1 DEF WorkerInv, OnTarget, Target
<1>2. WorkerInv => GpuIfComplete
  BY <1>1 DEF GpuIfComplete, Complete
<1>. QED
  BY <1>2, Invariant, PTL
=============================================================================
