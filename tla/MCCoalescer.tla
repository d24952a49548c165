---------------------------- MODULE MCCoalescer ----------------------------
(* Coalescer on all texts over a small alphabet. *)
EXTENDS Coalescer

CONSTANTS Alphabet, MaxPush   \* the characters used, and how many at a time

ShortTexts == UNION {[1..n -> Alphabet] : n \in 0..MaxPush}
=============================================================================
