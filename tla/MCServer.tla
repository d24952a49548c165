------------------------------ MODULE MCServer ------------------------------
(* Server on small instances: the values server.cfg gives to the constants. *)
EXTENDS Server, TLC

CONSTANTS a, b, s1

OneSession == [t \in Tasks |-> s1]
OwnId == [t \in Tasks \cup Others |-> t]
TwoFrames == <<2, 1>>
=============================================================================
