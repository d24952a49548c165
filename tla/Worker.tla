------------------------------- MODULE Worker -------------------------------
(***************************************************************************)
(* worker.py: the SupertonicWorkers of a pool, from their construction by  *)
(* the pool's bootstrap thread to synthesize() on the executor's threads,  *)
(* the device they run on (Cuda) and the voice styles they load (Voices).  *)
(*                                                                         *)
(* Python threads interleave between any two accesses to an object.  An    *)
(* action runs from one access to the style cache or the hit counters, or  *)
(* one call into supertonic, to the next.  Which worker a thread calls is  *)
(* left open: the pool lets two threads call the same one (OneCallPerWorker*)
(* of WorkerPool).                                                         *)
(***************************************************************************)
EXTENDS Integers, FiniteSets, Cuda, Voices

CONSTANTS
  NWorkers,   \* n_workers
  Threads,    \* the threads of the executor
  Boot,       \* the bootstrap thread
  VoiceNames, \* the voice names clients use and the catalogue has
  Found,      \* what is in the cache directory before TTS() first runs
  Shipped,    \* what TTS(auto_download=True) downloads
  Machines,   \* the machines the server may run on (Cuda)
  Device,     \* the device asked for on each of them
  MaxCalls    \* bound: synthesize() calls in all

ASSUME WorkerAssumption ==
  /\ NWorkers \in Nat \ {0}
  /\ IsFiniteSet(Threads) /\ Threads # {} /\ Boot \notin Threads
  /\ Found \cup Shipped \subseteq DirEntry
  /\ Names(Found \cup Shipped) \subseteq VoiceNames
  /\ Shipped # {} /\ \A entry \in Shipped : IsVoiceFile(entry)
  /\ \A m \in Machines : IsMachine(m)
  /\ Device \in [Machines -> STRING]
  /\ MaxCalls \in Nat

VARIABLES
  machine,    \* the machine
  disk,       \* the entries of the voice-style cache directory
  boot,       \* what start() does: "no", "pin", "load", "warm", "done"
  building,   \* the worker it is building
  usable,     \* _cuda_usable of cuda.py
  providers,  \* supertonic.loader.DEFAULT_ONNX_PROVIDERS
  model,      \* the providers each worker's model was loaded with
  cache,      \* _style_cache of each worker
  hits,       \* _style_hits of each worker
  thread,     \* what each thread does
  calls,      \* history: synthesize() calls made
  loads,      \* history: styles loaded, per worker and voice
  fetches,    \* history: styles returned by _get_style, per worker and voice
  overlapped  \* history: workers that had two calls at the same time

bootVars == <<machine, disk, boot, building, usable, providers, model>>
styleVars == <<cache, hits>>
historyVars == <<loads, fetches, overlapped>>
vars == <<bootVars, styleVars, thread, calls, historyVars>>

Workers == 1..NWorkers
Runners == Threads \cup {Boot}
NoVoice == CHOOSE v \in VoiceNames : TRUE
NoStyle == [voice |-> NoVoice, load |-> 0]
Style == [voice : VoiceNames, load : 0..MaxCalls]   \* the load that made it
Unset == "default"   \* the list supertonic comes with

Idle == [at |-> "idle", worker |-> 1, voice |-> NoVoice, style |-> NoStyle, seen |-> 0]
Busy == {"miss", "load", "store", "hit", "count", "synth"}

Nothing(x) == [w \in Workers |-> [v \in VoiceNames |-> x]]

\* What a start() begins with: objects of their own, with empty caches.
Fresh ==
  /\ model' = [w \in Workers |-> "none"]
  /\ cache' = Nothing(NoStyle)
  /\ hits' = Nothing(0)
  /\ loads' = Nothing(0)
  /\ fetches' = Nothing(0)
  /\ overlapped' = {}

Init ==
  /\ machine \in Machines
  /\ disk = Found
  /\ boot = "no"
  /\ building = 1
  /\ usable = "unknown"
  /\ providers = Unset
  /\ model = [w \in Workers |-> "none"]
  /\ cache = Nothing(NoStyle)
  /\ hits = Nothing(0)
  /\ thread = [i \in Runners |-> Idle]
  /\ calls = 0
  /\ loads = Nothing(0)
  /\ fetches = Nothing(0)
  /\ overlapped = {}
-----------------------------------------------------------------------------
(***************************************************************************)
(* start(): one worker after the other is pinned to a device, loads its    *)
(* model and is warmed up.                                                 *)
(***************************************************************************)
Start ==
  /\ boot = "no"
  /\ boot' = "pin"
  /\ building' = 1
  /\ Fresh
  /\ UNCHANGED <<machine, disk, usable, providers, thread, calls>>

\* cuda_is_usable() keeps its first answer, for another probe may give another;
\* the mutant probes every time.
ProbeAgain ==
  \E answer \in CudaIsUsable(machine) : usable' = IF answer THEN "yes" ELSE "no"

Probe ==
  \/ usable # "unknown" /\ UNCHANGED usable
  \/ /\ usable = "unknown"
     /\ \E answer \in CudaIsUsable(machine) : usable' = IF answer THEN "yes" ELSE "no"

\* _apply_device(), which refuses other devices.
Devices == {"cuda", "gpu", "auto", "cpu"}
WantsGpu == Device[machine] \in Devices \ {"cpu"}

PinRaises ==
  /\ boot = "pin"
  /\ Device[machine] \notin Devices
  /\ boot' = "no"
  /\ UNCHANGED <<machine, disk, building, usable, providers, model, styleVars, thread,
                 calls, historyVars>>

Pin ==
  /\ boot = "pin"
  /\ Device[machine] \in Devices
  /\ IF WantsGpu THEN Probe ELSE UNCHANGED usable
  /\ providers' = IF WantsGpu /\ usable' = "yes" THEN "cuda" ELSE "cpu"
  /\ boot' = "load"
  /\ UNCHANGED <<machine, disk, building, model, styleVars, thread, calls, historyVars>>

\* TTS() downloads what is missing, reads the provider list, and may fail.
LoadModel ==
  /\ boot = "load"
  /\ model' = [model EXCEPT ![building] = providers]
  /\ disk' = disk \cup Shipped
  /\ boot' = "warm"
  /\ UNCHANGED <<machine, building, usable, providers, styleVars, thread, calls, historyVars>>

LoadFails ==
  /\ boot = "load"
  /\ boot' = "no"
  /\ UNCHANGED <<machine, disk, building, usable, providers, model, styleVars, thread,
                 calls, historyVars>>
-----------------------------------------------------------------------------
(***************************************************************************)
(* synthesize() and _get_style(), in the bootstrap thread or another.      *)
(***************************************************************************)
At(i, point) == thread[i].at = point

\* The cache is read.
Begin(i, w, v) ==
  /\ At(i, "idle")
  /\ calls < MaxCalls
  /\ calls' = calls + 1
  /\ thread' = [thread EXCEPT ![i] =
       [at |-> IF cache[w][v] = NoStyle THEN "miss" ELSE "hit",
        worker |-> w, voice |-> v, style |-> cache[w][v], seen |-> 0]]
  /\ overlapped' =
       IF \E j \in Runners \ {i} : ~At(j, "idle") /\ thread[j].worker = w
       THEN overlapped \cup {w} ELSE overlapped
  /\ UNCHANGED <<bootVars, styleVars, loads, fetches>>

\* warmup() synthesizes a short text with the first voice of the catalog.
WarmUp ==
  /\ boot = "warm"
  /\ \E v \in FirstVoices(disk) : Begin(Boot, building, v.name)

\* A job of the pool.
Call(i, w, v) ==
  /\ boot = "done"
  /\ Begin(i, w, v)

Goes(i, point) == thread' = [thread EXCEPT ![i].at = point]

\* An exception ends the call; in the bootstrap thread it ends start().
Raises(i) ==
  /\ thread' = [thread EXCEPT ![i] = Idle]
  /\ boot' = IF i = Boot THEN "no" ELSE boot
  /\ UNCHANGED <<machine, disk, building, usable, providers, model, styleVars, calls,
                 loads, fetches, overlapped>>

\* get_voice() looks the name up in the catalog.
Validate(i) ==
  /\ At(i, "miss")
  /\ \/ /\ HasVoice(disk, thread[i].voice)
        /\ Goes(i, "load")
        /\ UNCHANGED <<bootVars, styleVars, calls, historyVars>>
     \/ ~HasVoice(disk, thread[i].voice) /\ Raises(i)

\* get_voice_style() returns a new object, or raises.
LoadStyle(i) ==
  /\ At(i, "load")
  /\ HasStyleFile(disk, thread[i].voice)
  /\ LET w == thread[i].worker
         v == thread[i].voice
     IN  /\ loads' = [loads EXCEPT ![w][v] = @ + 1]
         /\ thread' = [thread EXCEPT
              ![i].at = "store", ![i].style = [voice |-> v, load |-> loads[w][v] + 1]]
  /\ UNCHANGED <<bootVars, styleVars, calls, fetches, overlapped>>

LoadStyleRaises(i) == At(i, "load") /\ Raises(i)

\* Filling the cache; mutants forget to, and fill it for all voices.
FillNothing(w, v, style) == UNCHANGED cache

FillAll(w, v, style) == cache' = [cache EXCEPT ![w] = [u \in VoiceNames |-> style]]

Fill(w, v, style) == cache' = [cache EXCEPT ![w][v] = style]

Store(i) ==
  /\ At(i, "store")
  /\ Fill(thread[i].worker, thread[i].voice, thread[i].style)
  /\ Goes(i, "hit")
  /\ UNCHANGED <<bootVars, hits, calls, historyVars>>

\* _style_hits[v] = _style_hits.get(v, 0) + 1, in two steps; _get_style returns.
ReadHits(i) ==
  /\ At(i, "hit")
  /\ thread' = [thread EXCEPT
       ![i].at = "count", ![i].seen = hits[thread[i].worker][thread[i].voice]]
  /\ UNCHANGED <<bootVars, styleVars, calls, historyVars>>

\* Mutant: the counter starts with the second use.
CountReuse(seen, style) == IF seen = 0 /\ style.load = 1 THEN 0 ELSE seen + 1

Counted(seen, style) == seen + 1

WriteHits(i) ==
  /\ At(i, "count")
  /\ LET w == thread[i].worker
         v == thread[i].voice
     IN  /\ hits' = [hits EXCEPT ![w][v] = Counted(thread[i].seen, thread[i].style)]
         /\ fetches' = [fetches EXCEPT ![w][v] = @ + 1]
  /\ Goes(i, "synth")
  /\ UNCHANGED <<bootVars, cache, calls, loads, overlapped>>

\* The end of start()'s loop over the workers, and the mutant that runs too far.
PastLast(w) == w > NWorkers

IsLast(w) == w = NWorkers

\* The model returns audio; in the bootstrap thread the worker is now warm, and
\* the next one is built.
Synthesized(i) ==
  /\ At(i, "synth")
  /\ thread' = [thread EXCEPT ![i] = Idle]
  /\ IF i # Boot THEN UNCHANGED <<boot, building>>
     ELSE IF IsLast(building) THEN boot' = "done" /\ UNCHANGED building
     ELSE boot' = "pin" /\ building' = building + 1
  /\ UNCHANGED <<machine, disk, usable, providers, model, styleVars, calls, historyVars>>

SynthesisRaises(i) == At(i, "synth") /\ Raises(i)

\* Bound: all calls have been made, or warmup() has none left.
Spent ==
  /\ calls = MaxCalls
  /\ \A i \in Runners : At(i, "idle")
  /\ boot \in {"warm", "done"}
  /\ UNCHANGED vars
-----------------------------------------------------------------------------
Next ==
  \/ Start \/ Pin \/ PinRaises \/ LoadModel \/ LoadFails \/ WarmUp
  \/ \E i \in Threads, w \in Workers, v \in VoiceNames : Call(i, w, v)
  \/ \E i \in Runners :
       \/ Validate(i) \/ LoadStyle(i) \/ LoadStyleRaises(i) \/ Store(i)
       \/ ReadHits(i) \/ WriteHits(i) \/ Synthesized(i) \/ SynthesisRaises(i)
  \/ Spent

Spec == Init /\ [][Next]_vars
-----------------------------------------------------------------------------
\* Type invariant: the attributes of the workers, the provider list and the
\* threads (worker.py, cuda.py) keep to the ranges declared above.
TypeOK ==
  /\ machine \in Machines
  /\ disk \in {Found, Found \cup Shipped}
  /\ boot \in {"no", "pin", "load", "warm", "done"}
  /\ building \in Workers
  /\ usable \in {"unknown", "yes", "no"}
  /\ providers \in {Unset, "cpu", "cuda"}
  /\ model \in [Workers -> {"none", "cpu", "cuda"}]
  /\ cache \in [Workers -> [VoiceNames -> Style]]
  /\ hits \in [Workers -> [VoiceNames -> 0..MaxCalls]]
  /\ thread \in [Runners ->
       [at : {"idle"} \cup Busy, worker : Workers, voice : VoiceNames, style : Style,
        seen : 0..MaxCalls]]
  /\ calls \in 0..MaxCalls
  /\ loads \in [Workers -> [VoiceNames -> 0..MaxCalls]]
  /\ fetches \in [Workers -> [VoiceNames -> 0..MaxCalls]]
  /\ overlapped \subseteq Workers

\* A text is synthesized with a style of the voice that was asked for, whatever
\* other calls put into the same cache meanwhile (_get_style).
StyleMatches ==
  \A i \in Runners : thread[i].at \in {"hit", "count", "synth"} =>
    thread[i].style.voice = thread[i].voice /\ thread[i].style # NoStyle

\* Calls that overlap on a worker may load a voice more than once, but never more
\* often than there are threads: who comes after the first has stored its style
\* finds it (_get_style).
LoadsBounded ==
  \A w \in Workers, v \in VoiceNames : loads[w][v] <= Cardinality(Threads)

\* worker.py:9-10 and 116-118: for a worker whose calls were serialized, every
\* voice is loaded at most once and every use is counted.
SerialContract ==
  \A w \in Workers \ overlapped, v \in VoiceNames :
    /\ loads[w][v] <= 1
    /\ hits[w][v] = fetches[w][v]

\* All models of a pool run on the same device, and on the one asked for: CPU if
\* that was asked for or no GPU is usable, even when probing the GPU again would
\* give another answer (_apply_device, cuda_is_usable).
SameDevice ==
  \A w, x \in Workers :
    /\ model[w] # "none" /\ model[x] # "none" => model[w] = model[x]
    /\ model[w] = "cuda" => WantsGpu /\ usable = "yes"

\* On a machine with all wheels in one directory the GPU is found, in whatever
\* order that directory and an incomplete one are visited, and every model that
\* may use it does (preload_cuda_libraries, cuda_is_usable, _apply_device).
GpuIfComplete ==
  /\ machine.onnxruntime /\ machine.cudaBuild
  /\ \E root \in DOMAIN machine.wheels : machine.wheels[root] = Components
  /\ WantsGpu
  => \A w \in Workers : model[w] \in {"none", "cuda"}
=============================================================================
