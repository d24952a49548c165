---------------------------- MODULE MCWorkerPool ----------------------------
(* WorkerPool on a small instance: two of the three tasks share a context_id. *)
EXTENDS WorkerPool, TLC

CONSTANTS a, b, c, x, y

Ids == (a :> x) @@ (b :> x) @@ (c :> y)
TwoIds == (a :> x) @@ (b :> y)
=============================================================================
