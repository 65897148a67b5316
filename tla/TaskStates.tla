----------------------------- MODULE TaskStates -----------------------------
(*****************************************************************************)
(* The states of one plan's tasks, as TaskExecutionStore keeps them          *)
(* (executor/task-execution-store.ts): the transition table and what         *)
(* begin, finish and fail do to the record of a plan.  A record is a         *)
(* function from tasks to their status; timestamps and evidence are left     *)
(* out.                                                                      *)
(*****************************************************************************)
EXTENDS TaskGraph

TaskStatuses == {"pending", "ready", "running", "completed", "failed", "blocked"}

TaskTransitions ==
  [s \in TaskStatuses |->
     CASE s = "pending"   -> {"ready", "blocked"}
       [] s = "ready"     -> {"running", "pending", "blocked"}
       [] s = "running"   -> {"completed", "failed"}
       [] s = "completed" -> {}
       [] s = "failed"    -> {"running"}
       [] s = "blocked"   -> {"pending", "ready"}]

CanTransition(from, to) == from = to \/ to \in TaskTransitions[from]

CompletedIn(record) == {t \in Tasks : record[t] = "completed"}

\* A record created for a plan the store does not hold.
FreshRecord == [t \in Tasks |-> IF Deps[t] = {} THEN "ready" ELSE "pending"]

\* begin throws task_blocked unless this holds.
CanBegin(record, t) ==
  CanTransition(record[t], "running") /\ IsReady(t, CompletedIn(record))

Begun(record, t) == [record EXCEPT ![t] = "running"]

\* What refresh makes of a task that has not been started.
Recomputed(record, t) ==
  IF \E d \in Deps[t] : record[d] = "failed" THEN "blocked"
  ELSE IF IsReady(t, CompletedIn(record)) THEN "ready" ELSE "pending"

Refreshed(record) ==
  [t \in Tasks |->
     IF /\ record[t] \notin {"running", "completed", "failed"}
        /\ CanTransition(record[t], Recomputed(record, t))
     THEN Recomputed(record, t) ELSE record[t]]

\* Mutant: the trailing refresh is missing.
EndedOnly(record, t, outcome) == [record EXCEPT ![t] = outcome]

\* finish and fail store the outcome, then refresh the whole plan.
Ended(record, t, outcome) == Refreshed([record EXCEPT ![t] = outcome])
=============================================================================
