----------------------------- MODULE MCSession -----------------------------
(***************************************************************************)
(* Session on small instances: the values the .cfg files give to the       *)
(* constants.                                                              *)
(***************************************************************************)
EXTENDS SessionStream, TLC

CONSTANTS a, b, s1, s2, x

\* One connection; every context has an id of its own.
OneSession == [t \in Tasks |-> s1]
OwnId == [t \in Tasks |-> t]

\* Two connections with one context each, under the same context_id.
TwoSessions == (a :> s1) @@ (b :> s2)
SharedId == [t \in Tasks |-> x]

OneFrame == <<1>>
TwoFrames == <<2, 1>>
ThreeChunks == <<2, 0, 1>>   \* the second chunk has no audio

Symmetry == Permutations({a, b})
=============================================================================
