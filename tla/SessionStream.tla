---------------------------- MODULE SessionStream ----------------------------
(***************************************************************************)
(* Session implements ContextStream, once for each context: the refinement *)
(* mapping reads the stream of a context off the history of its task.      *)
(***************************************************************************)
EXTENDS Session

Stream(t) == INSTANCE ContextStream
  WITH heard <- sent[t], texted <- made[t],
       ended <- promised[t], stopped <- dropped[t]

\* Each client hears of a context exactly a ContextStream: no frame is skipped,
\* repeated or out of place, nothing follows the last frame, a done frame is
\* never early, and a failure of any chunk ends the stream (_emit_loop, _ship).
ImplementsStream ==
  /\ \A t \in Tasks : Stream(t)!Init
  /\ [][\A t \in Tasks : Stream(t)!Next \/ UNCHANGED Stream(t)!vars]_vars
=============================================================================
