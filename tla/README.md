# Supertonic streaming TTS server: a TLA+ development

This directory specifies and verifies `src/supertonic_server`: a WebSocket server
that takes text as an LLM streams it, cuts it into chunks, synthesizes the chunks
on a pool of worker threads and streams the audio back, with cancellation at any
moment. TLC checks the modules on small instances; TLAPS proves theorems about
them for every value of their constants.

Run `tlc -config <run>.cfg <module>` for the runs listed below and `tlapm <module>`
for Recursion and the modules whose names end in `Proofs`.

## The system

| Component | Code | State | Operations |
|---|---|---|---|
| WebSocket handler | `server.py:101-120` | where its coroutine is suspended, the connection | accept, receive loop, `close()` on every exit |
| Session | `session.py` | `_contexts` (one `_Context` per `context_id`: coalescer, queue, emit task, `finished`), `_closed` | `handle`, `_on_text`, `_cancel`, `close`, `_emit_loop`, `_ship` |
| Worker pool | `pool.py` | `_ready`, `_executor`, `_workers`, `_next_worker_idx`, the set of cancelled ids | `start`, `stop`, `cancel`, `forget`, `is_cancelled`, `synthesize` |
| Coalescer | `coalescer.py` | `_buf` | `push`, `flush` |
| Worker | `worker.py` | style cache, hit counts, warm flag, the ONNX provider list of the whole process | `__init__`, `warmup`, `synthesize` |
| Audio framing | `audio.py` | none | resample, quantise, slice into 20 ms frames |
| Wire codec | `wire.py` | none | `decode`, `encode_*` |
| Voices, CUDA probing | `voices.py`, `cuda.py` | caches of files and libraries | list, probe |
| Lifespan, HTTP endpoints | `server.py:53-99` | `app.state.pool` | start and stop the pool; `/health`, `/ready`, `/voices` |

How they interact. The handler decodes each frame and awaits `Session.handle`. The
first text frame of a `context_id` creates a context and its *emit task*, a
coroutine of its own. Handler and emit task share the context's queue: the handler
puts the chunks the coalescer pops, and `None` (EOF) when the stream ends; the emit
task takes them one at a time, awaits `pool.synthesize` for each, and awaits one
`send_text` per 20 ms frame of its audio. The pool's cancel flags, keyed by
`context_id`, are the only other thing shared: the session sets a flag, the emit
task reads it between awaits and forgets it when it ends. Synthesis runs on the
threads of one executor that all workers share.

What is hard in it:

- every `await` of the emit task is a point where a cancel, a flush, the loss of
  the connection or `close()` can come in between, and the flag read before it is
  stale after it;
- `_cancel` empties a queue that may hold the only wake-up of the emit task;
- `close()` visits the contexts one by one with a timeout of two seconds for each,
  while the other tasks go on, and a task it cancels leaves a thread behind that
  still synthesizes for it;
- a client may stop reading, so that a send stays suspended until the connection is
  lost;
- the flags outlive contexts and are shared by connections;
- `stop()` blocks the event loop on the executor's threads, and contexts that are
  still open find a pool that refuses their next chunk;
- all contexts of all connections share one work queue;
- whether the GPU is found depends on the order in which libraries are loaded, and
  the voices on what is in a directory when it is read;
- the coalescer decides on text of which the next character may not have come yet.

What makes each component correct: for the session, audio in order, a `done` frame
only after all audio, a last frame for every context that was not cancelled,
silence after a cancel, and no task left after `close()`; for the pool, that no job
is lost or run twice, that every call is answered and that `stop()` returns; for the
coalescer, that text is conserved, the buffer bounded, every call finite, and
numbers are not torn apart; for the worker, that it runs on the device its peers run
on and with the voice that was asked for; for the whole server, that the sessions
over the real pool behave as over the pool's promise, and that nothing waits for
ever.

## The modules

- **SynthService**: what the pool promises a session, as operators on two variables:
  the set of flagged ids and the state of each task's `synthesize()` call.
- **Session**: the handlers, sessions and emit tasks, built on SynthService.
- **WorkerPool**: the pool over a FIFO work queue and threads. It implements
  `SynthService!ServiceSpec` under the refinement mapping `callView`.
- **Coalescer**: `push` and `flush` over classes of characters.
- **ContextStream**: what the client of one context is promised: its audio in order,
  then one last frame. **SessionStream** is the refinement mapping from Session.
- **Server**: Session over WorkerPool inside the lifespan. It implements
  `Session!Spec`, with the pool's futures (`callView`) for the calls, so that what is
  checked and proved of Session holds of the composition. Liveness, which needs all
  three parts, is checked here.
- **Voices, Cuda**: the pure functions of `voices.py` and `cuda.py`, as operators.
- **Worker**: the workers of a pool, from their construction to calls of several
  threads, with the style cache, the device they run on (Cuda) and the voices they
  find (Voices).
- **Wire, Framing**: the pure functions of `wire.py` and `audio.py`, as operators.
- **DataPath**: one context's data on its way through both: client frames in, audio
  frames out.
- **MCSession, MCServer, MCWorkerPool, MCCoalescer, MCWorker, MCDataPath**: values for
  the constants.
- **SessionProofs, StreamProofs, PoolProofs, ServerProofs, CoalescerProofs,
  WorkerProofs, DataPathProofs**: theorems (StreamProofs: about Session and
  ContextStream).
- **Recursion**: what the proofs need of recursive functions and flattened sequences.

### Session and the code

asyncio switches coroutines only where an `await` really suspends. Putting into the
unbounded queue never does, and `get` does only on an empty queue, so a text or
cancel frame is one action: `PushText`, `FinalText` (`continue=false` with text),
`FlushText` (`continue=false` without), `CancelFrame`; a frame that does not decode
is `BadFrame` and `ReplyDone`, because its answer is awaited. `Crash` stands for an
exception out of `receive_text`, `decode` or `handle`, `HangUp` for
`WebSocketDisconnect`; both run `close()`.

The emit task suspends in three places, and an action runs from one to the next.
`pc` says where it is:

| `pc` | suspended in | resumed by |
|---|---|---|
| `get` | `ctx.queue.get()` | `EmitGet` |
| `synth` | `run_in_executor` | `EmitResult`, `EmitRaises` |
| `ship` | `send_text` of an audio frame | `EmitShip`, `EmitSendRaises` |
| `done`, `error` | `send_text` of the last frame | `EmitLast`, `EmitSendRaises` |
| `finished` | nowhere: the finally clause has run | |

`Loop` is the `while` loop from its head to the next of these points. Over a pool
that runs it has four outcomes: the queue runs empty (`LoopParks`), EOF in a cancelled context
(`LoopQuits`), the next chunk is submitted (`LoopSynthesizes`), EOF otherwise
(`LoopEnds`, which sends `done`). A cancelled context skips chunks without
suspending, so `LoopParks` and `LoopQuits` consume all it skips. There is a fifth
outcome when the pool is not running: `synthesize` raises at once (`LoopRefused`).

`close()` runs without suspending over tasks that are finished and suspends at the
first that is not; `CloseRest` is that run, `CloseJoined` continues it when the task
has finished and `CloseTimeout` is `wait_for` cancelling it. While closing, `contexts`
holds those not yet joined, its head being the one `close()` waits for. A task that
is suspended in `get` with a non-empty queue cannot be timed out: it is scheduled
before the timer.

The client may stop reading (`Stall`): a send then does not return until the
connection is lost (`Disconnect`), and then raises. A send may also succeed on a
connection that is already lost, before the server has noticed; such a frame is not
recorded in `sent`.

Abstractions: a chunk is its number; a frame of audio is a pair (chunk, number);
what the coalescer does with a text is a choice of how many chunks it pops and
whether it keeps a rest; `rateOk` says whether the context's sample rate gives a
non-empty frame, for if not `slice_into_frames` raises. History variables (`sent`,
`dropped`, `promised`) record what the properties speak of.

### ContextStream and Session

A stream is four values: the frames sent (`heard`), the number of chunks in the
client's text (`texted`), that number when the client ended the text (`ended`), and
whether the context was cancelled (`stopped`). Session's history variables hold all
four. `Play` may send only the first frame that is still missing, `Complete` sends
`done` only when none is, `GiveUp` sends `error` at any time, and after either there
is nothing more. A step of Session may be a step of several contexts (`close()`
flags more than one), therefore `ImplementsStream` is one formula for all of them.
The run `session` has a sample rate that cannot be played, failing calls, refused
chunks and chunks without audio; a task that skipped a chunk and went on would
violate it.

### Server and the code

`Boot` is `_lifespan` up to its `yield`: the pool is started, and if that fails the
server never serves. `Shutdown` is what follows the `yield`. An action of the event
loop is one of Session's together with what it does to the pool: `EmitStep` submits
a chunk, reads a result, does both or is refused; `CloseStep` may cancel a task and
with it its future. Which of these it is follows from the two modules, which share
`cancelled` and must agree on every call. `ThreadStep` goes on while `stop()` blocks the
loop. The ASGI server decides when the lifespan ends; the model lets this happen
with connections open, which uvicorn does only when it gives up waiting for them.

Two things are narrower than in Session. The client of `FrameStep` sends no text
after the end of its context or its cancel: what happens then is the subject of
`stranded_text`. And the contexts in `Others`, those of other connections, appear
only by what they do to the pool: they submit, read and are abandoned in any order.

### WorkerPool and the code

One action for each operation, `Take` and `Finish` for the executor's threads. A
future is queued, running, or has an outcome until its task reads it; a task that
is cancelled leaves its future `dropped`, and the job is skipped when its turn comes
or its outcome is lost if it runs. `stop()` is two actions, between which no action
of the event loop is enabled. `next` is `_next_worker_idx` modulo the number of
workers, which is all the code uses of it.

### Coalescer and the code

`push` is `Receive`, one `Cut` for each turn of its loop that emits a chunk, and
`Return`. `FindBoundary` returns the set with the cut `_find_boundary` returns, or
the empty set for `None`. Characters are the classes the code tells apart: digits,
the three kinds of blanks (`isspace()` accepts more than the token search), the two
kinds of marks, and letters.

### Worker and the code

`Start`, `Pin` and `PinRaises` (`_apply_device`, which refuses an unknown device),
`LoadModel` and `WarmUp` are one worker's share of `start()`. A `synthesize()` call goes through `Begin` (the cache is read), on a miss
`Validate`, `LoadStyle` and `Store`, then `ReadHits`, `WriteHits` and `Synthesized`:
threads interleave between any two accesses to the shared dictionaries. A call may
raise in `Validate`, `LoadStyle` or the model; in the bootstrap thread that ends
`start()`, and the next one builds new workers. `overlapped` records the workers
whose callers did not keep the contract of `worker.py:9-10`.

A voice name is a gender, a number and a spelling of that number: the plain one, or
another that `\d+` and `int()` read as the same (with leading zeros, in the digits of
another script); the directory has files and other entries. `ListVoices` keeps the
files and gives each the plain spelling, as `str(int(...))` does; it is a set, of which
`FirstVoices` may be the head of the sorted list. `disk` is read again at every miss of
the style cache, and the first `TTS()` adds the files it ships with.

`Device` is what each machine's server is configured for, any string; it is compared
with the devices `_apply_device` knows. A machine, in `Cuda`, is what the probe
looks at: whether there is an `onnxruntime` with the CUDA provider, the components under each
`site-packages` directory, and those of a system-wide CUDA. `Preload` visits the
directories in some order, for the code goes through a set, and the components of
each in `ComponentOrder`; a component whose dependencies are missing is skipped and
not tried again. The provider library loads if all components it needs are there.
The result therefore is a set of possible answers, of which `Probe` keeps the first.
`IsMachine` says what a machine is; that the machines of an instance are ones is part
of `WorkerAssumption`. The two loops are recursive functions over the directories and
over the components.

### DataPath and the code

`Decode` is `decode`: `Tests` lists the tests of `_decode_text` in their order, each
with the kinds of values that pass; the first that fails is the reason of the
`ParseError`. Kinds are those the code tells apart: a Python `bool` is an `int`, and
`get(key)` returns `None` for a missing key and for `null` while `get(key, False)`
does not. `Receive` decodes a frame and lets the context have its effect; `Ship` is a
worker's answer going through `pipeline`, `ShipRaises` an exception of `pipeline`,
`SendFrame` one turn of the loop in `_ship`. An amplitude is an
integer, `Unit` of which are full scale. `resample_poly` is external: it returns as
many samples as the duration asks for, rounded up, of any values, also beyond full
scale. The queue, its end, the pool and exceptions of a send are Session's; here
waiting chunks are a counter.

Not everything `decode` accepts can be played, and the model says so. A sample rate
from 1 to 49 fails when the first chunk is ready, for `slice_into_frames` finds no
sample in a frame. A very large one may fail, with some chunks or with all: there is
no memory for the resampled audio (or none for the filter), or the multiplication of
the rate with a float overflows. `Heavy` are the rates for which this may happen; that
the process is killed, or computes for hours, is outside of the model. What is shown
of failures is that they take away nothing of the chunks before (`HeardIsMade`).
`voice.mode` and the encoding and container of the output
format may be any strings; the server does not look at them.

## The runs

| Run | Instance | Shows |
|---|---|---|
| `session` | 1 context, 3 chunks with 2, 0 and 1 frames, queue up to 3 | type; completeness; last frame; cancellation; Session implements ContextStream, which includes the order |
| `session_close` | 2 contexts of 1 connection, 1 chunk each | flags, calls and `close()` over several contexts |
| `server` | 1 context of 2 chunks (2 and 1 frames) and another's calls, 1 thread, queue up to 2 | Server implements Session; no text left behind; liveness of `close()`, of a lost connection and of the emit task |
| `pool` | 3 tasks, two of which share an id, 2 threads | jobs and the workers they are given, refinement of SynthService, answers, stop |
| `coalescer` | all texts of up to 6 characters in frames of up to 2 | conservation, bound, termination, numbers |
| `datapath` | rates 49, 50, 100 and 150 Hz, native 100, 150 possibly too large; 2 chunks of up to 3 samples; 3 client frames | decoding, one rate, completeness and length of the audio, clipping |
| `worker` | 2 workers, 2 threads, 5 calls; 4 voices, of which one is in a file with a leading zero and one is a directory; 5 machines | GPU and device, style cache, hit counters |
| `shared_id`, `flag_leak`, `stranded_text`, `worker_race`, `decimal_split` | the smallest instance that shows it | five disagreements between code and documentation, below |

The bounds are named constants. `MaxChunks` (chunks per context): three give a chunk
that is synthesized, one that waits and one that comes after a flush. `Frames`: two
frames make a cancel between two sends possible, none is the path on which `_ship`
sends nothing. `MaxQueue` stops the client from sending text while the queue is that
long; cancel and `close()` are not bounded by it. In the coalescer the limits are
scaled down so that six characters reach all of them (`SoftMin` 2, `HardMax` 4,
`Window` 3 for 40, 200 and 8), `MaxText` bounds the text. With three characters in the
window two digits and a mark are a digit run (it takes 60%), so its protection is
reached, up to the limit and beyond it. The characters used are digit, space, stop and
comma; a letter is a comma that comes too early to cut. The
pool needs no bound: a job is named by its task. `MaxCalls` counts the calls of the
workers: two are the warm-up, three more than suffice for a double load and a lost
count. The sample rates of `datapath` are so low that a frame has none, one, two or
three samples, and that the audio is resampled down, up or not at all; the largest
may, but need not, be too large for a chunk. Amplitudes are
one beyond full scale and one within. Its frames are the documented ones and each of
them with one wrong field; a wrong field is found by itself, since the tests of
`decode` are independent.

`session_close` is symmetric in the two contexts and `worker` in
the threads: none of their properties is temporal. The contexts of `session_close` have
distinct ids, as those of one connection always have; what a shared id does to a flag
is the subject of `shared_id` alone.

In `server` one thread and one foreign context are enough for a job to wait behind
another, to be abandoned in the queue and to be abandoned while it runs, and for
`stop()` to find any of these. The machines of `worker` have all wheels in one
directory and one of them in another as well, the wheels divided between the two (the
probe's answer then depends on the order), and a CPU-only build; there are two more on which the CPU, or an
unknown device, is asked for.

Deadlock is checked in every run; a finished system stutters (`Over`) or can always
do something.

Fairness. `FairSpec` of Server: the event loop runs every emit task and handler that
can run, and the timer of `close()` fires (weak fairness; asyncio's ready queue is
FIFO); the threads take jobs, and a synthesis ends or raises; `shutdown(wait=True)`
returns when they are done. Nothing is assumed of the client, which may stop reading
for ever, and the server may or may not be stopped. `EndedFinishes` excepts a context
whose client does not read, since nothing but `close()` limits a send. `FairSpec` of
WorkerPool: the operating system runs the threads, and a synthesis and the loading of
a model end.

### Disagreements between the code and its documentation

- `shared_id` (`TerminalFrame`): flags are keyed by the client's id over all
  connections, so one client's cancel silences the context of another.
- `flag_leak` (`NoFlagLeft`): `close()` flags contexts whose task has already
  forgotten its flag; the flag stays for ever.
- `stranded_text` (`NoStrandedText`): text after a flush of its context is queued for
  a task that has ended or will end at the EOF before it. (For a client that sends
  none, `NothingStranded` of the run `server` holds, and is proved.)
- `worker_race` (`OneCallPerWorker`): workers are chosen round robin but their calls
  go to one executor, so two calls of one worker overlap.
- `decimal_split` (`DecimalKept`): a decimal is cut when a frame ends at its mark.

One more needs no run, for it can be read off the operators of Voices: a file whose
number is spelt with a leading zero, or in digits of another script, is in the catalogue
(`ListVoices`) under a name of which supertonic has no file (`HasStyleFile`), so the
caller gets supertonic's error, while `worker.py:258-260` says that the catalogue's comes
first, and `voices.py:50` that only `[FM][0-9]+.json` is listed. In the run `worker`
such a voice can only go from `Validate` to `LoadStyleRaises`.

## What is proved

The theorems are about the specifications the runs check, for arbitrary sets of
connections, contexts, ids, threads, voices and frames, any number of workers, and
arbitrary limits and bounds. They assume what is declared with the constants
(`SessionAssumption`, `PoolAssumption` and so on), and those marked with a star that
no two contexts share an id (`DistinctIds`, in `ServerProofs` `AllIdsDistinct`); without
it they are false, which is what the run `shared_id` shows.

| Theorem | Property | Run that checks it |
|---|---|---|
| `SessionProofs!TypeCorrect` | `TypeOK` | `session` |
| `SessionProofs!CallsMatch` | `CallMatchesTask` | `session_close` |
| `SessionProofs!ClosedIsQuiet` | `CloseLeavesNothing` | `session_close` |
| `SessionProofs!NoneSkipped` | `CloseVisitsAll` | `session_close` |
| `SessionProofs!FlagsHeld` * | `FlagHeld` | `session_close` |
| `SessionProofs!FlagsOwned` * | `FlagOwned` | `session_close` |
| `SessionProofs!CancelledWakes` * | `CancelWakes` | `session` |
| `SessionProofs!CancelHolds` * | `CancelIsFinal` | `session` |
| `StreamProofs!DoneIsComplete` * | `DoneMeansComplete` | `session` |
| `StreamProofs!StreamsEnd` * | `TerminalFrame` | `session` |
| `StreamProofs!SessionImplementsStream` * | `ImplementsStream` | `session` |
| `StreamProofs!SoundStrandsNothing` * | `NoStrandedText`, for clients that send no text after the end | |
| `PoolProofs!PoolTyped` | `TypeOK` | `pool` |
| `PoolProofs!JobsPlaced` | `JobPlaced` | `pool` |
| `PoolProofs!PoolImplementsService` | `ImplementsService` | `pool` |
| `ServerProofs!ServerImplementsSession` | `ImplementsSession` | `server` |
| `ServerProofs!JobsSafe` | the invariant of `PoolProofs`, over the whole server | |
| `ServerProofs!ServerKeepsPromises` * | four of Session's invariants, over the whole server | |
| `ServerProofs!ServerCancelHolds` * | `CancelIsFinal`, over the whole server | |
| `ServerProofs!ServerStreams` * | `ImplementsStream`, over the whole server | |
| `ServerProofs!ServerStrandsNothing` * | `NothingStranded` | `server` |
| `CoalescerProofs!TextTyped` | `TypeOK` | `coalescer` |
| `CoalescerProofs!NothingLost` | `Conservation` | `coalescer` |
| `CoalescerProofs!BufferBounded` | `Bounded` | `coalescer` |
| `CoalescerProofs!NumbersKept` | `NumbersWhole` | `coalescer` |
| `CoalescerProofs!PushProgresses` | `TurnsShrink` | `coalescer` |
| `WorkerProofs!WorkerTyped` | `TypeOK` | `worker` |
| `WorkerProofs!StylesMatch` | `StyleMatches` | `worker` |
| `WorkerProofs!LoadsStayBounded` | `LoadsBounded` | `worker` |
| `WorkerProofs!SerialWorkerKeepsContract` | `SerialContract` | `worker` |
| `WorkerProofs!OneDevice` | `SameDevice` | `worker` |
| `WorkerProofs!GpuIsUsed` | `GpuIfComplete` | `worker` |
| `DataPathProofs!PathTyped` | `TypeOK` | `datapath` |
| `DataPathProofs!DocumentedUnderstood` | `DocumentedAccepted` | `datapath` |
| `DataPathProofs!RateIsKept` | `OneRate` | `datapath` |
| `DataPathProofs!AudioLasts` | `PlaysAsLong` | `datapath` |
| `DataPathProofs!NothingWraps` | `NoWrap` | `datapath` |
| `DataPathProofs!HeardAsMade` | `HeardIsMade` | `datapath` |

### Session

- `TypeOK` is not inductive: `CloseJoined` takes the tail of `contexts`, which is a
  sequence only if there is one. `Closing` says that there is a context while
  `close()` waits; `TypeOK /\ Closing` is inductive.
- `CallMatchesTask` is inductive relative to that: the step that submits a call is
  the one that enters `synth`, and every step that leaves `synth` collects the call
  or, at the timeout, drops it.
- `CloseLeavesNothing` and `CloseVisitsAll` are not inductive; both follow from
  `Registered`: a live emit task belongs to a session that is not closed, and is in
  its list. The hard case is a run of `close()` over several contexts at once: it
  drops from the list only what it found finished, so a live task is behind the
  part that was dropped (lemma `Suffix` on what is left of a sequence).
- The flags need two auxiliary facts, together `ContextsExist`: a context in the
  list of a session, and one that was cancelled, has been created. Then `FlagHeld`,
  `FlagOwned` and `CancelWakes` are inductive together: the loop of a cancelled task
  finds its flag (`FlagHeld`) and an EOF (`CancelWakes`), so it can neither park
  nor submit a chunk nor send `done`: it quits (`CancelledLoop`). Only then is the
  flag forgotten, and forgetting it touches no other context's flag because ids are
  distinct. All of this together is `SessionInv`.
- `CancelIsFinal` is a property of steps; it follows from the same invariant, since
  an emit task of a cancelled context takes only the steps `CancelledEmit` lists.

The proofs use lemmas on the shape of a step (`EmitShape`, `TextShape`,
`CloseShape`, `CloseMarks`), so that each invariant looks at who made the step and
not at every action again.

### What a client hears

`DoneMeansComplete` says something at the last frame only; its invariant, `StreamInv`,
has to say how far the stream is at every moment. `InOrder`: the queue of a context
that was not cancelled holds exactly the chunks after the current one, in order, up
to the end of the text, and then an EOF. `InStep`: what the client has heard is the
chunks before the current one and the first `pos` frames of that (on a connection
that was lost: no more than these). When the loop meets the EOF, `InOrder` says that
the current chunk was the last of the text, and `InStep` that it was heard: this is
the `done` frame's promise (`Kept`). `Ended` gives `TerminalFrame`; that a task which
`close()` times out was cancelled is the first part of `Closed`, and the second, that
a connection with contexts is not made anew, keeps "the client is still there" from
becoming true again. From `StreamInv` each frame sent is the first that is still
missing, and the refinement of ContextStream follows step by step.

`StreamInv` says nothing of what is behind the EOF, and for any client nothing can be
said: this is the run `stranded_text`. For a client that sends no text to a context
whose text it has ended (`SoundNext`) it can. `Tidy`: in the queue of a context that
was not cancelled an EOF is the last element, and stands for an ended text; a context
that reported `done` has an empty queue, and so has one that finished with its client
there and without an error. Since the text has ended by then, nothing is added.

### The pool and the server

`PoolInv` is `TypeOK /\ OnePlace /\ RestIsEmpty /\ ReadyIsWhole`; a step moves a job from
one place to the next, and the lemmas `SubmitPlaces`, `TakePlaces` and `FinishPlaces`
say where it is afterwards. `JobPlaced` has `WorkersBuilt` in the place of `ReadyIsWhole`:
the worker of a job exists because jobs are only submitted to a pool that has built all
its workers. The refinement of SynthService needs it once: a thread resolves a
call that is waiting because the job it runs is that of a running or dropped future.

For the server the question is whether the pool's invariant still holds when tasks
submit, read and abandon jobs in the same steps in which flags are set and forgotten.
Where jobs are does not depend on flags, so every step of the server is a step of a
pool without flags (`Jobs`, an instance of PoolProofs), whose invariant then holds.
With it `ThreadStep` is Session's `PoolAnswers`, or it changes nothing a session sees;
the steps of the event loop are Session's by their definition, and the lifespan and
other connections change no future of the sessions' tasks. So the server implements
Session, and Session's theorems (as the instance `Told`) hold of it: among them the
refinement of ContextStream (`ServerStreams`), so that the three levels of the
development, from the pool's threads to what a client hears, are joined by proof.
`AllIdsDistinct` includes the contexts of `Others`, whose flags are not modelled. For
`NothingStranded` the steps of the server are shown to be steps with a sound client
(`SoundStep`), which `FrameStep` is by its guard.

### Induction

The library's induction theorems take an operator as a parameter, which the installed
provers cannot instantiate. Module Recursion states what the proofs about sequences
need with sets and functions in the place of operators: a set that has 0, and with
each number its successor, has every number (`Induction`, from the library's
well-foundedness of `<` on `Nat`). From it follow that a recursion over `0..n` has the
values it defines (`Iterated`), that it agrees with a shorter one as far as that
goes (`Prefix`), and what `FlattenSeq` is: a concatenation step by step (`FlattenIs`,
`Flattened`, `FlattenAppend`), and `FlattenSeq(s \o t) = FlattenSeq(s) \o
FlattenSeq(t)` (`FlattenConcat`).

### Coalescer

`Conservation` is inductive with `TypeOK`. For the numbers there are `Ends` and
`MarksWhole`. `Ends` says that the last chunk ends where `out` does, that the text
received ends at a seam, and that a chunk ends with a mark or a blank unless its end was
unavoidable (a seam, or the limit without a space); between two digits and before a
number's mark there is neither. `MarksWhole` is what `NumbersWhole` says of chunks that
end with the mark: the mark had a digit before and one behind it, so the buffer began
right at the mark, the digit having been cut off, or ended there (lemma `MarkCutEnds`).
What excuses a chunk never goes away again (`StaysUnavoidable`, `OldEnds`), for
chunks are only added at the end. That
the cut is at most at `hard_max_chars` and at least at 1, whatever the window search
finds, is a lemma on `FindBoundary`; `Bounded` and `TurnsShrink` rest on it.

### Worker

Threads interleave in `_get_style`, so `StyleMatches` needs that the style a thread
holds, and every one in a cache, is of the right voice (`StylesKept`). `LoadsBounded`
is a counting argument: styles loaded of a voice plus threads about to load one are
at most the number of threads, because who finds the cache filled loads none, and the
cache is empty only as long as every style loaded is still in the hands of the
thread that loaded it (`LoadsPending`). `SerialContract` follows from `Serialized`:
on a worker that never had two calls at once the only thread inside it has loaded
nothing yet when it misses, and the counter it has read is the counter. `SameDevice`
follows from `OnTarget`: no model is loaded before the answer of the probe is kept,
and the answer is not asked for again. The bootstrap thread and the executor's are
told apart by `Phases`. The catalogue is a set with an order (`FirstVoices` are what
the warm-up may take), the files of the directory and the devices asked for arbitrary.

`GpuIfComplete` needs that the probe's answer, once kept, is not "no" on a complete
machine (`NeverNo`), and this is about the recursions of `Cuda`. Loading only ever adds
libraries, so one pass over a directory keeps what was loaded before, and a pass over
one that has everything loads everything (`AllLoaded`): `ComponentOrder` puts no
component before one it needs. The order of the directories is any, but it is one of
all of them, so the complete one comes at some place, and what follows takes nothing
away (`AllPreloaded`, by induction along the directories).

### Data path

`PathInv` joins the type of the frames (`Typed`), that the rate is the first one
(`FirstRate`), that each frame has a frame's samples (`Framed`) and that a task
fails only between two chunks (`FailsBetween`). The rest is arithmetic, in lemmas on quotients: rounding up
to whole samples and then to whole frames gives less than one frame too much
(`ChunkLasts`); clipping and rounding towards zero are monotone (`SamplesKeepOrder`).
`DocumentedUnderstood` assumes of the documented frames only what the docstring says
(`IsText`, `IsCancel`, part of `DataPathAssumption`), and goes through the tests of
`decode` in their order.

`HeardIsMade` speaks of all samples at once, by way of two flattened sequences. Its
invariant `HeardInv` says that some rest makes up the difference: what the padded chunks
hold is what the frames hold, followed by the rest, and the rest is empty unless the
emit task was cancelled. A chunk that is shipped adds the same samples to both: the frames
`SliceIntoFrames` cuts it into, flattened, are the chunk and less than a frame of
silence (`SlicesFlatten`, from the lemmas on quotients), and flattening distributes
over concatenation. A cancel drops frames that are not sent, which only moves them to
the rest; a failure finds no frame that is not sent. A low rate makes no frames at all:
the property does not speak of it.

### What stays with TLC

- Of what holds, only liveness: `CloseTerminates`, `LossCloses`, `EndedFinishes`,
  `Answered`, `StopEnds`. Fairness and `ENABLED` are out of this prover's reach.
- The five disagreements, which are false. (`NoStrandedText` holds for sound clients, and
  those of `shared_id` and `decimal_split` hold with the hypothesis that is missing:
  `StreamsEnd` for distinct ids, `NumbersKept` away
  from the seams and the limit.)

## Not modelled

- `wire.py`: the JSON and base64 of the encoders, whose frames are `AudioFrame`,
  `DoneFrame` and `ErrorFrame` of Session; `encode_timestamps` and the decoder of
  audio data, which the server does not call.
- `audio.py`: the values the resampling filter computes and the rounding of float32;
  the type and shape checks at the head of each function, which what a worker
  returns cannot fail; the branch of `resample` for int16, which only tests use.
- `voices.py`: two files that are listed under one name, and an override of the
  cache directory (the server sets none); the empty catalogue, in which `warmup` and
  with it `start` raise (TTS() has always downloaded some by then).
- `cuda.py`: the several files of a component, and dependencies the source does not
  name.
- `/health`, `/ready` (503 only after `stop()`, for there is no pool in `app.state`
  before it has started), `/voices` and `context_stats()` read state and change none.
  Times, log messages and metrics are left out; so is the summary at the end of a
  context, which always reports `cancelled=False` because it comes after `forget`.
- Cancellation of the handler's coroutine itself (a server that is shut down with
  clients connected and a limit on its patience).
- The scripts, clients that measure times: each opens one context, ends it, reads
  until `done` or `error` and gives up after 30 s, frames and order that Server's
  client covers. `smoke_ttfb_streaming.py` notes the arrival of the first audio only
  once it has sent all tokens.

## Plan

Done: the core (Session over SynthService), the pool and its refinement, what a client
sees of a context and Session's refinement of it, the whole server with its lifespan
and liveness, the coalescer, the worker with voices and GPU probing, the data path; and
theorems for every safety property the passing runs check, among them all three
refinements (of SynthService, ContextStream and, by the server, Session). The liveness
properties stay with TLC.

A change of the code that repairs one of the disagreements should turn its run into a
passing one: distinct ids could then be a property of the flags' keys instead of a
hypothesis of the theorems with a star, and `SoundNext` all of `Next`.
