------------------------------ MODULE Framing -------------------------------
(***************************************************************************)
(* audio.py: from the samples a worker returns to the frames a client      *)
(* plays.  An amplitude is an integer, Unit of them being full scale: the  *)
(* rounding of float32 is left out.                                        *)
(***************************************************************************)
EXTENDS Integers, Sequences

CONSTANTS
  FrameMs,   \* DEFAULT_FRAME_MS
  Unit       \* amplitudes per full scale

ASSUME FramingAssumption == FrameMs \in Nat \ {0} /\ Unit \in Nat \ {0}

Int16Max == 32767
Int16Min == -32768

CeilDiv(a, b) == (a + b - 1) \div b
-----------------------------------------------------------------------------
\* resample() returns as many samples as scipy's resample_poly: the duration,
\* rounded up; the mutant rounds down.  The values are any the filter may give.
ResampledDown(n, src, dst) == (n * dst) \div src

Resampled(n, src, dst) == IF src = dst THEN n ELSE CeilDiv(n * dst, src)

\* np.clip() of the scaled amplitude; the mutant lets values that do not fit wrap
\* around.
Wrapped(x) ==
  Int16Min * Unit + ((x - Int16Min * Unit) % ((Int16Max - Int16Min + 1) * Unit))

Clipped(x) ==
  CASE x < Int16Min * Unit -> Int16Min * Unit
    [] x > Int16Max * Unit -> Int16Max * Unit
    [] OTHER -> x

\* f32_to_int16() of one sample; astype() rounds towards zero.
F32ToInt16(a) ==
  LET scaled == Clipped(a * Int16Max)
  IN  IF scaled >= 0 THEN scaled \div Unit ELSE -((-scaled) \div Unit)
-----------------------------------------------------------------------------
SamplesPerFrame(rate) == (rate * FrameMs) \div 1000

\* The frames of n samples, s in each; the mutant has no place for the last ones.
WholeFrames(n, s) == n \div s

NFrames(n, s) == CeilDiv(n, s)

\* slice_into_frames()
SliceIntoFrames(pcm, s) ==
  [i \in 1..NFrames(Len(pcm), s) |->
    [j \in 1..s |->
      LET k == (i - 1) * s + j IN IF k <= Len(pcm) THEN pcm[k] ELSE 0]]
=============================================================================
