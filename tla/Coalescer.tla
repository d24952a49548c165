------------------------------ MODULE Coalescer ------------------------------
(***************************************************************************)
(* coalescer.py: TextCoalescer, which buffers streamed text and emits it   *)
(* in chunks.  Its methods run without interruption; a push() is the steps *)
(* from Receive over one Cut per chunk to Return.  Python's indices count  *)
(* from 0, those here from 1: a cut n emits the first n characters.        *)
(***************************************************************************)
EXTENDS Integers, Sequences, FiniteSets

CONSTANTS
  SoftMin,   \* soft_min_chars
  HardMax,   \* hard_max_chars
  Window,    \* how much of a token _ends_in_digit_run looks at: 8
  Texts,     \* the texts push() may be called with
  MaxText    \* bound: characters pushed in all

(***************************************************************************)
(* What the code tells apart of a character.  "tab" is a tab or newline,   *)
(* "nbsp" any other character that isspace() accepts, "letter" the rest.   *)
(***************************************************************************)
Char == {"digit", "letter", "space", "tab", "nbsp", "stop", "comma"}
Mark == {"stop", "comma"}             \* _SENTENCE_FINAL, _CLAUSE_FINAL
Blank == {"space", "tab", "nbsp"}     \* str.isspace
TokenBreak == {"space", "tab"}

ASSUME CoalescerAssumption ==
  /\ SoftMin \in Nat
  /\ HardMax \in Nat \ {0}
  /\ HardMax >= SoftMin
  /\ Window \in Nat \ {0}
  /\ Texts \subseteq Seq(Char)
  /\ MaxText \in Nat

VARIABLES
  buf,        \* _buf
  scanning,   \* inside push()'s loop
  received,   \* history: all text pushed
  out,        \* history: the text of all chunks emitted
  seams,      \* history: where in received the texts pushed end
  markEnds,   \* history: where a chunk cut after a mark ends
  otherEnds   \* history: where a chunk cut at the limit or flushed ends

vars == <<buf, scanning, received, out, seams, markEnds, otherEnds>>

Init ==
  /\ buf = <<>>
  /\ scanning = FALSE
  /\ received = <<>>
  /\ out = <<>>
  /\ seams = {}
  /\ markEnds = {}
  /\ otherEnds = {}
-----------------------------------------------------------------------------
\* The mark at i has a digit on both sides; the mutant does not care.
NeverInside(b, i) == FALSE

InsideNumber(b, i) ==
  /\ 1 < i
  /\ i < Len(b)
  /\ b[i - 1] = "digit"
  /\ b[i + 1] = "digit"

\* At least 60% of the last characters of the token that ends at i are digits.
DigitRun(b, i) ==
  LET tail == {j \in 1..i : /\ j > i - Window
                            /\ \A k \in j..i : b[k] \notin TokenBreak}
  IN  /\ tail # {}
      /\ 10 * Cardinality({j \in tail : b[j] = "digit"}) >= 6 * Cardinality(tail)

\* The marks _find_boundary may cut after.
MarkCuts(b) ==
  {i \in DOMAIN b : /\ b[i] \in Mark
                    /\ ~InsideNumber(b, i)
                    /\ b[i] = "comma" => i > SoftMin
                    /\ ~DigitRun(b, i)}

\* The spaces rfind() may find; index 0, position 1 here, does not count.
Spaces(b) == {i \in 2..HardMax : b[i] = "space"}

\* Mutant: a cut at the limit only at a space.
ForcedCutsAtSpace(b) ==
  IF Len(b) <= HardMax THEN {} ELSE {n \in Spaces(b) : \A i \in Spaces(b) : i <= n}

\* Where to cut a buffer that exceeds the limit: after the last space within
\* it, or at it.
ForcedCuts(b) ==
  IF Len(b) <= HardMax THEN {}
  ELSE IF Spaces(b) = {} THEN {HardMax}
  ELSE {n \in Spaces(b) : \A i \in Spaces(b) : i <= n}

\* Mutant: 0 stands for "no boundary".
BoundaryOrZero(b) ==
  LET marks == MarkCuts(b)
  IN  IF marks # {} THEN {n \in marks : \A i \in marks : n <= i}
      ELSE IF ForcedCuts(b) # {} THEN ForcedCuts(b) ELSE {0}

\* What _find_boundary(b) returns, {} for None: the first mark has precedence.
FindBoundary(b) ==
  LET marks == MarkCuts(b)
  IN  IF marks # {} THEN {n \in marks : \A i \in marks : n <= i} ELSE ForcedCuts(b)

\* The whitespace after a cut goes with the chunk, which then ends at e.
CarryOver(b, n, e) ==
  /\ \A i \in (n + 1)..e : b[i] \in Blank
  /\ e < Len(b) => b[e + 1] \notin Blank
-----------------------------------------------------------------------------
Receive(text) ==
  /\ ~scanning
  /\ Len(received) + Len(text) <= MaxText
  /\ scanning' = TRUE
  /\ buf' = buf \o text
  /\ received' = received \o text
  /\ seams' = seams \cup {Len(received) + Len(text)}
  /\ UNCHANGED <<out, markEnds, otherEnds>>

\* What stays buffered when a chunk ends at e; mutants lose a character, and
\* keep the chunk.
RestShort(e) == SubSeq(buf, e + 2, Len(buf))

RestWhole(e) == buf

Rest(e) == SubSeq(buf, e + 1, Len(buf))

\* One turn of push()'s loop.
Cut ==
  /\ scanning
  /\ \E n \in FindBoundary(buf) : \E e \in n..Len(buf) :
       /\ CarryOver(buf, n, e)
       /\ out' = out \o SubSeq(buf, 1, e)
       /\ buf' = Rest(e)
       /\ IF n \in MarkCuts(buf)
            THEN markEnds' = markEnds \cup {Len(out) + e} /\ UNCHANGED otherEnds
            ELSE otherEnds' = otherEnds \cup {Len(out) + e} /\ UNCHANGED markEnds
  /\ UNCHANGED <<scanning, received, seams>>

Return ==
  /\ scanning
  /\ FindBoundary(buf) = {}
  /\ scanning' = FALSE
  /\ UNCHANGED <<buf, received, out, seams, markEnds, otherEnds>>

\* An empty buffer makes no chunk.
Flush ==
  /\ ~scanning
  /\ buf # <<>>
  /\ out' = out \o buf
  /\ buf' = <<>>
  /\ otherEnds' = otherEnds \cup {Len(received)}
  /\ UNCHANGED <<scanning, received, seams, markEnds>>

Next == (\E text \in Texts : Receive(text)) \/ Cut \/ Return \/ Flush

Spec == Init /\ [][Next]_vars

-----------------------------------------------------------------------------
\* Type invariant: the buffer and the histories are texts, and every chunk ends
\* within the text received (TextCoalescer).
TypeOK ==
  /\ buf \in Seq(Char)
  /\ scanning \in BOOLEAN
  /\ received \in Seq(Char)
  /\ out \in Seq(Char)
  /\ seams \cup markEnds \cup otherEnds \subseteq 0..Len(received)

\* No character is lost, duplicated or moved, wherever push() cuts: the chunks
\* and the buffer always make up the text received.
Conservation == received = out \o buf

\* Between calls the buffer never exceeds the hard limit: the first audio of a
\* long text without punctuation does not wait for the end of the stream.
Bounded == ~scanning => Len(buf) <= HardMax

Digit(i) == i \in DOMAIN received /\ received[i] = "digit"

\* The mark at i belongs to a number, such as 9.24 or 10,000.
NumberMark(i) ==
  i \in DOMAIN received /\ received[i] \in Mark /\ Digit(i - 1) /\ Digit(i + 1)

\* What ends at e ends inside a number.
DividesNumber(e) == (Digit(e) /\ Digit(e + 1)) \/ NumberMark(e) \/ NumberMark(e + 1)

chunkEnds == markEnds \cup otherEnds

\* The chunk that ends at e is as long as the limit, without a space to cut at.
EndsAtLimit(e) ==
  /\ e - HardMax \in chunkEnds \cup {0}
  /\ \A i \in (e - HardMax + 1)..(e - 1) : i \notin chunkEnds
  /\ \A i \in (e - HardMax + 2)..e : received[i] # "space"

\* Nothing can be done about a chunk that ends there: more was not to be seen
\* then, or the limit is reached.
Unavoidable(e) == e \in seams \/ EndsAtLimit(e)

\* No chunk, whatever made it end, divides a number that arrived in one piece,
\* unless the limit was reached within text without spaces.  Where this, or a
\* flush, cuts right before the mark of a number, the mark may become a chunk.
NumbersWhole ==
  \A e \in chunkEnds : DividesNumber(e) =>
    \/ Unavoidable(e)
    \/ NumberMark(e) /\ e - 1 \in chunkEnds /\ Unavoidable(e - 1)

\* Every turn of push()'s loop takes at least one character off the buffer, so
\* that push(), which blocks the event loop, returns and emits no empty chunk.
TurnsShrink == [][scanning /\ scanning' => Len(buf') < Len(buf)]_vars
-----------------------------------------------------------------------------
\* coalescer.py:42-43: "a punctuation mark with a digit on *both* sides (e.g.
\* the dot in 9.24) is not treated as a boundary."
DecimalKept == \A e \in markEnds : ~NumberMark(e)
=============================================================================
