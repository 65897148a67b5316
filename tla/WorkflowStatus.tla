--------------------------- MODULE WorkflowStatus ---------------------------
(*****************************************************************************)
(* The states of one workflow and the table every status change is checked   *)
(* against (WORKFLOW_TRANSITIONS).  WorkflowEngine.transition throws on a    *)
(* pair outside the table, so an operation whose transition is not Legal     *)
(* has no effect on the status and takes its error path.                     *)
(*****************************************************************************)

Statuses ==
  {"created", "planning", "awaiting_plan_approval", "approved", "running",
   "planned", "executing", "validating", "reviewing", "repairing", "paused",
   "waiting_for_permission", "completed", "failed", "aborted"}

Terminal == {"completed", "failed", "aborted"}

Stopped == {"failed", "aborted"}

\* Where a stage that does work may go; a paused or waiting workflow re-enters
\* "running" and from there any stage.
Interruptible == {"running", "paused", "waiting_for_permission"} \union Stopped

Transitions ==
  [s \in Statuses |->
     CASE s = "created"    -> {"planning"} \union Stopped
       [] s = "planning"   -> {"awaiting_plan_approval", "planned"} \union Stopped
       [] s = "awaiting_plan_approval" -> {"approved"} \union Stopped
       [] s = "approved"   -> {"running", "executing"} \union Terminal
       [] s = "planned"    -> {"executing"} \union Terminal
       [] s = "running"    -> {"executing", "validating", "reviewing", "repairing",
                               "completed"} \union Interruptible
       [] s = "executing"  -> {"validating"} \union Interruptible
       [] s = "validating" -> {"reviewing", "repairing", "executing", "completed"}
                                \union Interruptible
       [] s = "reviewing"  -> {"repairing", "executing", "completed"}
                                \union Interruptible
       [] s = "repairing"  -> {"validating", "executing", "completed"}
                                \union Interruptible
       [] s = "paused"     -> {"running", "aborted"}
       [] s = "waiting_for_permission" -> {"running"} \union Stopped
       [] s \in Terminal   -> {}]

Legal(from, to) == to \in Transitions[from]

\* The statuses in which WorkflowEngine.requestPause accepts a request.
Pausable == {"running", "executing", "validating", "reviewing", "repairing"}
=============================================================================
