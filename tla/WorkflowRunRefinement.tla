----------------------- MODULE WorkflowRunRefinement ------------------------
(*****************************************************************************)
(* The run of an approved plan implements the lifecycle its clients see: the *)
(* statuses of the engine are mapped to phases, and the tasks in             *)
(* runtime.completed are the ones that passed.                               *)
(*****************************************************************************)
EXTENDS WorkflowRun

PhaseOf ==
  CASE status \in {"paused", "waiting_for_permission"} -> "held"
    [] status \in {"approved"} \union Terminal         -> status
    [] OTHER                                           -> "active"

Lifecycle == INSTANCE WorkflowLifecycle WITH phase <- PhaseOf, passed <- completed

\* Every step of the scheduler, its pipeline and its clients is a step of the
\* lifecycle or changes nothing of it.
ImplementsLifecycle == Lifecycle!LifecycleSpec
=============================================================================
