---------------------------- MODULE ContextStream ----------------------------
(***************************************************************************)
(* What the server promises the client of one context, without queues,     *)
(* tasks, flags or connections: the audio of the text it sent, frame by    *)
(* frame and in order, and then one last frame.  "done" means that nothing *)
(* is missing up to where the client ended its text.  Any trouble is told  *)
(* by "error".  Once the context is cancelled there is no more audio and   *)
(* no "done".  SessionStream checks that Session implements it.            *)
(***************************************************************************)
EXTENDS Integers, Sequences

CONSTANTS MaxChunks, Frames   \* as in Session

VARIABLES
  heard,    \* the frames sent so far
  texted,   \* the number of chunks in the client's text
  ended,    \* that number when the client ended its text, or -1
  stopped   \* the context was cancelled, by the client or by the end of its session

vars == <<heard, texted, ended, stopped>>

Unended == -1

AudioFrame(k, i) == [type |-> "chunk", chunk |-> k, frame |-> i]
LastFrame(how) == [type |-> how, chunk |-> 0, frame |-> 0]

Earlier(f, g) ==
  f.chunk < g.chunk \/ (f.chunk = g.chunk /\ f.frame < g.frame)

Heard == {heard[i] : i \in DOMAIN heard}

\* The audio of the text up to its end that has not been sent.
Unheard ==
  LET chunks == 1..(IF ended = Unended THEN texted ELSE ended)
  IN  (UNION {{AudioFrame(k, i) : i \in 1..Frames[k]} : k \in chunks}) \ Heard

Over == \E how \in {"done", "error"} : LastFrame(how) \in Heard

Init ==
  /\ heard = <<>>
  /\ texted = 0
  /\ ended = Unended
  /\ stopped = FALSE
-----------------------------------------------------------------------------
\* The client sends text, and may end it; what comes after the end is ignored.
Text ==
  /\ texted' \in texted..MaxChunks
  /\ ended' \in IF ended = Unended THEN {Unended, texted'} ELSE {ended}
  /\ UNCHANGED <<heard, stopped>>

Stop ==
  /\ stopped' = TRUE
  /\ UNCHANGED <<heard, texted, ended>>

Play ==
  /\ ~Over /\ ~stopped
  /\ \E f \in Unheard :
       /\ \A g \in Unheard \ {f} : Earlier(f, g)
       /\ heard' = Append(heard, f)
  /\ UNCHANGED <<texted, ended, stopped>>

Complete ==
  /\ ~Over /\ ~stopped
  /\ ended # Unended
  /\ Unheard = {}
  /\ heard' = Append(heard, LastFrame("done"))
  /\ UNCHANGED <<texted, ended, stopped>>

GiveUp ==
  /\ ~Over
  /\ heard' = Append(heard, LastFrame("error"))
  /\ UNCHANGED <<texted, ended, stopped>>

Next == Text \/ Stop \/ Play \/ Complete \/ GiveUp

Spec == Init /\ [][Next]_vars
=============================================================================
