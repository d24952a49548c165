------------------------------ MODULE DataPath ------------------------------
(***************************************************************************)
(* What happens to the data of one context on its way through the server:  *)
(* from the client's frames through wire.py to the voice and rate of the   *)
(* context, and from a worker's samples through audio.py to the frames     *)
(* sent.  The receive loop and the emit task interleave wherever the emit  *)
(* task awaits: in synthesize() and between two frames.                    *)
(*                                                                         *)
(* The queue, its end and the pool are left to Session; here texts wait    *)
(* for the emit task in a counter.                                         *)
(***************************************************************************)
EXTENDS Wire, Framing, SequencesExt

CONSTANTS
  Inputs,      \* the frames clients send
  Documented,  \* those that the docstring of wire.py lists
  Rates,       \* the positive sample rates they ask for
  Heavy,       \* those of them that may be too large for pipeline()
  NativeRate,  \* _NATIVE_SR
  Amplitudes,  \* of the samples the model and the resampler return
  MaxSamples,  \* bound: samples per chunk
  MaxChunks,   \* bound: chunks
  MaxInputs    \* bound: frames received

\* The frames that the docstring of wire.py lists (lines 15-38), with the fields it
\* calls optional there or left out.
IsText(f) ==
  /\ f.kind["cancel"] = "missing"
  /\ \A field \in {"context_id", "voice.mode", "voice.id", "container", "encoding", "model_id"} :
       f.kind[field] = "string"
  /\ f.kind["transcript"] \in Strings
  /\ \A field \in {"continue", "add_timestamps", "use_original_timestamps"} :
       f.kind[field] \in Booleans
  /\ f.kind["voice"] = "object" /\ f.kind["output_format"] = "object"
  /\ f.kind["sample_rate"] = "positive"
  /\ f.kind["language"] \in {"string", "missing"}
  /\ f.kind["generation_config"] \in {"object", "missing"}
  /\ f.kind["pronunciation_dict_id"] \in {"string", "missing"}

IsCancel(f) == f.kind["cancel"] = "true" /\ f.kind["context_id"] = "string"

ASSUME DataPathAssumption ==
  /\ Inputs \subseteq WireFrame(Rates)
  /\ Documented \subseteq Inputs
  /\ \A f \in Documented : f.json = "object" /\ (IsText(f) \/ IsCancel(f))
  /\ Rates \subseteq Nat \ {0}
  /\ NativeRate \in Nat \ {0}
  /\ Heavy \subseteq Rates \ {NativeRate}
  /\ Amplitudes \subseteq Int
  /\ MaxSamples \in Nat \ {0} /\ MaxChunks \in Nat /\ MaxInputs \in Nat

VARIABLES
  outputSr,  \* ctx.output_sr, or NoContext
  emit,      \* the emit task: "none", "runs", "cancelled" or "failed"
  waiting,   \* chunks that are not synthesized yet
  frames,    \* what _ship() still has to send
  sent,      \* history: the frames sent
  asked,     \* history: the rate of the first text frame, or NoContext
  made,      \* history: of each chunk, its length, its resampled signal, its frames
  received,  \* history: how many frames came
  refused    \* history: a documented frame was answered by an error

vars == <<outputSr, emit, waiting, frames, sent, asked, made, received, refused>>

NoContext == -2

Init ==
  /\ outputSr = NoContext
  /\ emit = "none"
  /\ waiting = 0
  /\ frames = <<>>
  /\ sent = <<>>
  /\ asked = NoContext
  /\ made = <<>>
  /\ received = 0
  /\ refused = FALSE
-----------------------------------------------------------------------------
\* Of a context that exists the rate does not change; the mutant takes the new one.
NewRate(rate) == outputSr' = rate

ContextRate(rate) == outputSr' = IF outputSr = NoContext THEN rate ELSE outputSr

\* _on_text(): a text, or the rest of one that is flushed, may make a chunk.
Text(msg) ==
  /\ ContextRate(msg.rate)
  /\ asked' = IF asked = NoContext THEN msg.rate ELSE asked
  /\ emit' = IF emit = "none" THEN "runs" ELSE emit
  /\ \E n \in {0, 1} :
       /\ Len(made) + waiting + n <= MaxChunks
       /\ waiting' = waiting + n
  /\ UNCHANGED frames

\* _cancel(): nothing that waits is sent any more.
Cancel ==
  /\ emit' = IF emit = "runs" THEN "cancelled" ELSE emit
  /\ waiting' = 0
  /\ frames' = <<>>
  /\ UNCHANGED <<outputSr, asked>>

\* The receive loop; a frame that does not parse changes nothing.
Receive(f) ==
  LET msg == Decode(f)
  IN  /\ received < MaxInputs
      /\ received' = received + 1
      /\ refused' = (refused \/ (f \in Documented /\ msg.type = "error"))
      /\ \/ msg.type = "text" /\ Text(msg)
         \/ msg.type = "cancel" /\ Cancel
         \/ msg.type = "error" /\ UNCHANGED <<outputSr, emit, waiting, frames, asked>>
      /\ UNCHANGED <<sent, made>>

\* What resample() may return.
Signals(wav) ==
  IF outputSr = NativeRate THEN {wav}
  ELSE [1..Resampled(Len(wav), NativeRate, outputSr) -> Amplitudes]

Starts == emit = "runs" /\ waiting > 0 /\ frames = <<>>

\* A worker's answer goes through pipeline().
Ship(wav, signal) ==
  LET pcm == [i \in 1..Len(signal) |-> F32ToInt16(signal[i])]
      new == SliceIntoFrames(pcm, SamplesPerFrame(outputSr))
  IN  /\ Starts
      /\ SamplesPerFrame(outputSr) > 0
      /\ waiting' = waiting - 1
      /\ frames' = new
      /\ made' = Append(made, [length |-> Len(wav), signal |-> signal, frames |-> Len(new)])
      /\ UNCHANGED <<outputSr, emit, sent, asked, received, refused>>

\* pipeline() raises: not even one sample fits in a frame, or the rate is so large
\* that resample_poly() finds no memory for this chunk, or int * float no range.
ShipRaises ==
  /\ Starts
  /\ SamplesPerFrame(outputSr) <= 0 \/ outputSr \in Heavy
  /\ emit' = "failed"
  /\ UNCHANGED <<outputSr, waiting, frames, sent, asked, made, received, refused>>

\* One turn of the loop in _ship().
SendFrame ==
  /\ frames # <<>>
  /\ sent' = Append(sent, Head(frames))
  /\ frames' = Tail(frames)
  /\ UNCHANGED <<outputSr, emit, waiting, asked, made, received, refused>>

\* Bound: everything is received and sent.
Spent ==
  /\ received = MaxInputs
  /\ frames = <<>>
  /\ ~Starts
  /\ UNCHANGED vars
-----------------------------------------------------------------------------
Next ==
  \/ \E f \in Inputs : Receive(f)
  \/ \E n \in 1..MaxSamples : \E wav \in [1..n -> Amplitudes] :
       \E signal \in Signals(wav) : Ship(wav, signal)
  \/ ShipRaises
  \/ SendFrame
  \/ Spent

Spec == Init /\ [][Next]_vars
-----------------------------------------------------------------------------
Samples == Int16Min..Int16Max

\* Type invariant: the context's attributes and the frames (session.py, audio.py);
\* every sample is an int16.
TypeOK ==
  /\ outputSr \in Rates \cup {NoContext}
  /\ emit \in {"none", "runs", "cancelled", "failed"}
  /\ waiting \in 0..MaxChunks
  /\ \A f \in ToSet(frames) \cup ToSet(sent) : f \in Seq(Samples)
  /\ asked \in Rates \cup {NoContext}
  /\ Len(made) <= MaxChunks
  /\ \A c \in ToSet(made) : c.signal \in Seq(Amplitudes)
  /\ received \in 0..MaxInputs
  /\ refused \in BOOLEAN

\* Every frame that the docstring of wire.py lists is understood: fields that it
\* calls optional may be left out (decode, _decode_text).
DocumentedAccepted == ~refused

\* Whatever rates later frames of a context ask for, all its audio is framed for
\* the rate of the first one (_on_text, _make_context, _ship).
OneRate ==
  \A f \in ToSet(frames) \cup ToSet(sent) : Len(f) = (asked * FrameMs) \div 1000

\* pcm with silence up to the next multiple of s.
Padded(pcm, s) ==
  LET m == CHOOSE m \in 0..(s - 1) : (Len(pcm) + m) % s = 0
  IN  pcm \o [i \in 1..m |-> 0]

\* What is sent and what still has to be is the samples of the chunks, one after
\* the other, each with less than one frame of silence behind it; a cancel cuts
\* this off after some frame, a chunk that pipeline() fails for takes nothing away
\* from those before it (slice_into_frames, _ship).
HeardIsMade ==
  asked * FrameMs >= 1000 =>
    LET pcm(c) == [i \in 1..Len(c.signal) |-> F32ToInt16(c.signal[i])]
        all == FlattenSeq([k \in DOMAIN made |->
                 Padded(pcm(made[k]), (asked * FrameMs) \div 1000)])
        heard == FlattenSeq(sent \o frames)
    IN  IsPrefix(heard, all) /\ (emit \in {"runs", "failed"} => heard = all)

\* The frames of a chunk last at least as long as the audio the model made, and
\* less than one frame longer (resample, slice_into_frames).
PlaysAsLong ==
  \A c \in ToSet(made) :
    LET s == (asked * FrameMs) \div 1000
    IN  /\ c.frames * s * NativeRate >= c.length * asked
        /\ c.frames * s * NativeRate < c.length * asked + s * NativeRate

\* Louder never becomes quieter and no sample changes its sign, not even beyond
\* full scale, where the filter's ringing can take it (f32_to_int16).
NoWrap ==
  \A c \in ToSet(made) : \A a, b \in ToSet(c.signal) \cup {0} :
    a <= b => F32ToInt16(a) <= F32ToInt16(b)
=============================================================================
