---------------------------- MODULE SynthService ----------------------------
(***************************************************************************)
(* What the worker pool promises to a session: the part of pool.py that a  *)
(* caller of WorkerPool.cancel, forget, is_cancelled and synthesize sees.  *)
(*                                                                         *)
(* A task is one emit task of one session.  It has at most one             *)
(* synthesize() call outstanding, and it makes every call under the        *)
(* context_id of its context, CtxId[t].  The cancel flags are kept by      *)
(* context_id alone: two tasks with the same id share a flag.              *)
(*                                                                         *)
(* Session.tla is built on these operators; WorkerPool.tla implements them *)
(* with a work queue, threads and workers.                                 *)
(***************************************************************************)

CONSTANTS
  Tasks,       \* the emit tasks that may call synthesize()
  ContextIds,  \* the context_id strings clients use
  CtxId        \* the context_id each task works for

ASSUME CtxIdAssumption == CtxId \in [Tasks -> ContextIds]

VARIABLES
  cancelled,   \* _PoolState.cancelled: the flagged context_ids
  call         \* the state of each task's synthesize() call

serviceVars == <<cancelled, call>>

(***************************************************************************)
(* "idle": no call.  "waiting": awaiting run_in_executor.  "ok", "error":  *)
(* the executor's future has its result or exception, not yet read.        *)
(* "dropped": the awaiting task was cancelled and will never read it.      *)
(***************************************************************************)
CallStates == {"idle", "waiting", "ok", "error", "dropped"}

ServiceTypeOK ==
  /\ cancelled \subseteq ContextIds
  /\ call \in [Tasks -> CallStates]

IsCancelled(t) == CtxId[t] \in cancelled

ServiceInit ==
  /\ cancelled = {}
  /\ call = [t \in Tasks |-> "idle"]
-----------------------------------------------------------------------------
(***************************************************************************)
(* cancel() and forget() are synchronous and touch only the flags.  C is a *)
(* set because close() may call cancel() several times without an await.   *)
(***************************************************************************)
Cancel(C) == cancelled' = cancelled \cup C

Forget(c) == cancelled' = cancelled \ {c}

(***************************************************************************)
(* synthesize() up to its await.  A caller may come straight from reading  *)
(* the previous result.  For a flagged context it returns None instead and *)
(* nothing is submitted.                                                   *)
(***************************************************************************)
Submit(t) ==
  /\ call[t] \in {"idle", "ok"}
  /\ ~IsCancelled(t)
  /\ call' = [call EXCEPT ![t] = "waiting"]

\* On a pool that is not running synthesize() raises at once: no call is left
\* outstanding, and a result that was there has been read.
Refuse(t) ==
  /\ call[t] \in {"idle", "ok"}
  /\ call' = [call EXCEPT ![t] = "idle"]

\* A worker thread returns a SynthResult or raises.
Resolve(t) ==
  /\ call[t] = "waiting"
  /\ \E outcome \in {"ok", "error"} : call' = [call EXCEPT ![t] = outcome]

\* The caller reads the result (None if the context is flagged by then).
Collect(t) ==
  /\ call[t] \in {"ok", "error"}
  /\ call' = [call EXCEPT ![t] = "idle"]

\* Task.cancel() reaches a caller suspended in synthesize().
Drop(t) ==
  /\ call[t] \in {"waiting", "ok", "error"}
  /\ call' = [call EXCEPT ![t] = "dropped"]

(***************************************************************************)
(* One step of a task may both set or clear a flag and move its call on.   *)
(***************************************************************************)
FlagStep ==
  \/ \E C \in SUBSET ContextIds : Cancel(C)
  \/ \E c \in ContextIds : Forget(c)

CallStep ==
  \E t \in Tasks : Submit(t) \/ Refuse(t) \/ Resolve(t) \/ Collect(t) \/ Drop(t)

ServiceNext ==
  /\ FlagStep \/ UNCHANGED cancelled
  /\ CallStep \/ UNCHANGED call

ServiceSpec == ServiceInit /\ [][ServiceNext]_serviceVars
=============================================================================
