------------------------- MODULE WorkflowLifecycle --------------------------
(*****************************************************************************)
(* What the execution of an approved plan promises its clients, without the  *)
(* pipeline, the gates or the loop: a workflow is active or held until it    *)
(* ends once; it passes its tasks one at a time and in dependency order; it  *)
(* is completed only when all of them have passed; and only the retry of a   *)
(* failed workflow makes it active again, keeping what had passed.           *)
(*****************************************************************************)
EXTENDS TaskGraph

VARIABLES phase, passed

lifecycle == <<phase, passed>>

Phases == {"approved", "active", "held", "completed", "failed", "aborted"}

LifecycleInit == phase = "approved" /\ passed = {}

\* At most one task passes, after all it depends on.
Pass == \E t \in Tasks : IsReady(t, passed) /\ passed' = passed \union {t}

\* The run goes on, is held or continues; a task may pass in an active run.
Proceed ==
  /\ phase \in {"approved", "active", "held"} /\ phase' \in {"active", "held"}
  /\ UNCHANGED passed \/ (phase = "active" /\ Pass)

Complete ==
  /\ phase \in {"active", "held"} /\ phase' = "completed"
  /\ passed' = Tasks
  /\ UNCHANGED passed \/ (phase = "active" /\ Pass)

Fail ==
  /\ phase \in {"approved", "active", "held"} /\ phase' = "failed"
  /\ UNCHANGED passed \/ (phase = "active" /\ Pass)

Abort ==
  /\ phase \in {"approved", "active", "held"} /\ phase' = "aborted"
  /\ UNCHANGED passed \/ (phase = "active" /\ Pass)

\* The task in flight when the abort came may still pass.
LatePass == phase = "aborted" /\ UNCHANGED phase /\ Pass

Retry ==
  /\ phase = "failed" /\ phase' = "active"
  /\ passed # Tasks /\ UNCHANGED passed

LifecycleNext == Proceed \/ Complete \/ Fail \/ Abort \/ LatePass \/ Retry

LifecycleSpec == LifecycleInit /\ [][LifecycleNext]_lifecycle
=============================================================================
