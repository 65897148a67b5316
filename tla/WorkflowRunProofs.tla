------------------------- MODULE WorkflowRunProofs --------------------------
(*****************************************************************************)
(* Proofs about WorkflowRun for every plan, every number of callers and      *)
(* every bound.                                                              *)
(*****************************************************************************)
EXTENDS WorkflowRunRefinement, TLAPS

----------------------------------------------------------------------------
\* The inductive invariant of WorkflowRun: what its safety invariants need to be
\* preserved by every step, named part by part.

\* Where the coroutine can wait, and what the store says of its task there.
Stage ==
  /\ wait \in {"fingerprint", "gate"} =>
       pc \in {"top", "executing", "executed", "validated", "reviewed", "repairing"}
  /\ wait = "permission" => pc \in {"executing", "repairing"}
  /\ pc \notin {"idle", "top"} => task \in Tasks \ completed
  /\ pc = "executing" => exec[task] = "running"
  /\ pc \in {"executed", "validating", "validated", "reviewing", "reviewed",
             "repairing"} => exec[task] = "completed"
  /\ pc = "returned" /\ result = "passed" => exec[task] = "completed"

\* The loop is between tasks: nothing is started that has not passed.
BetweenTasks == pc = "top" => Started \subseteq completed /\ completed # Tasks

\* The coroutine's task was selected first and nothing has passed since.
Selection ==
  task \in Tasks \ completed => IsFirst(task, ReadyTasks(completed))

\* Where the loop is gone the run has ended, or has not begun, or was paused
\* when its last task passed.
LoopGone ==
  /\ status = "approved" => pc = "idle" /\ Started = {}
  /\ pc = "idle" => \/ status \in Terminal \union {"approved"}
                    \/ status = "paused" /\ completed = Tasks

\* A paused coroutine waits at a gate that only a resume or an abort opens.
PausedAtGate ==
  status = "paused" => \/ wait \in {"fingerprint", "gate"} /\ gate = "shut"
                       \/ pc = "idle" /\ completed = Tasks

PassedAreExecuted == \A t \in completed : exec[t] = "completed"

\* Of the tasks, and of the control of the run.
TaskPart ==
  /\ BetweenTasks /\ Selection /\ PassedAreExecuted
  /\ OneTaskAtATime /\ StartedTasksHaveDependencies

ControlPart == LoopGone /\ PausedAtGate

IInv == TypeOK /\ Stage /\ TaskPart /\ ControlPart

----------------------------------------------------------------------------
\* How a run ends, given the above.

\* Where the coroutine can be while the workflow has completed or failed, or
\* waits for a permission: a workflow that failed under the coroutine was
\* denied, or its pipeline has returned without passing its task.
StatusIsEarned ==
  /\ status = "completed" => pc = "idle" /\ completed = Tasks
  /\ status = "failed" => \/ pc = "idle"
                          \/ pc = "returned" /\ result # "passed"
                          \/ wait = "permission" /\ answer = "deny"
  /\ status = "waiting_for_permission" => wait = "permission" /\ answer = "waiting"
  /\ answer # "none" => wait = "permission"
  /\ status = "failed" /\ pc = "returned" /\ result = "aborted" => signal

\* A pause request does not outlive a run that completed or was aborted.
RequestsAreLive == pauseRequested => status \notin {"approved", "completed", "aborted"}

\* There is no verdict on an execution that is under way or has failed.
VerdictsFollowExecution ==
  task \in Tasks /\ exec[task] \in {"running", "failed"} => verdict = "none"

\* Only the loop's last task is recorded as failed, and it is unless the run
\* was aborted.
FailureIsRecorded ==
  /\ failed # {} => pc = "idle" /\ status \in Terminal /\ failed = {task}
  /\ status = "failed" /\ pc = "idle" /\ ~signal => failed = {task}

OutcomePart ==
  /\ StatusIsEarned /\ RequestsAreLive /\ VerdictsFollowExecution
  /\ FailureIsRecorded /\ OutcomeIsDelivered

FullInv == IInv /\ OutcomePart

----------------------------------------------------------------------------

InProgress == {"running", "completed", "failed"}

----------------------------------------------------------------------------
\* Lemmas about the store and the transition table.

\* finish and fail decide the task's own state; refresh only moves the tasks
\* that were never started, and never starts one.
LEMMA EndedEffect ==
  ASSUME NEW r \in [Tasks -> TaskStatuses], NEW t \in Tasks,
         NEW o \in {"completed", "failed"}
  PROVE  /\ Ended(r, t, o) \in [Tasks -> TaskStatuses]
         /\ Ended(r, t, o)[t] = o
         /\ \A u \in Tasks \ {t} :
              /\ r[u] \in InProgress => Ended(r, t, o)[u] = r[u]
              /\ r[u] \notin InProgress => Ended(r, t, o)[u] \notin InProgress
<1> DEFINE e == [r EXCEPT ![t] = o]
<1>1. e \in [Tasks -> TaskStatuses] /\ e[t] = o
  BY DEF TaskStatuses
<1>2. \A u \in Tasks \ {t} : e[u] = r[u]
  OBVIOUS
<1>3. \A u \in Tasks : Recomputed(e, u) \in {"blocked", "ready", "pending"}
  BY DEF Recomputed
<1> HIDE DEF e
<1>4. Refreshed(e) \in [Tasks -> TaskStatuses]
  BY <1>1, <1>3 DEF Refreshed, TaskStatuses
<1>5. \A u \in Tasks :
        /\ e[u] \in InProgress => Refreshed(e)[u] = e[u]
        /\ e[u] \notin InProgress => Refreshed(e)[u] \notin InProgress
  BY <1>1, <1>3 DEF Refreshed, InProgress
<1>6. Ended(r, t, o) = Refreshed(e)
  BY DEF Ended, e
<1> QED
  BY <1>1, <1>2, <1>4, <1>5, <1>6 DEF InProgress

\* The table, for the statuses a run can have.
LEMMA LegalFacts ==
  ASSUME NEW s \in RunStatuses
  PROVE  /\ ~Legal(s, "running") => s \in Terminal
         /\ ~Legal(s, "aborted") => s \in Terminal
         /\ ~Legal(s, "failed")  => s \in Terminal \union {"paused"}
         /\ Legal(s, "running")  => s \notin Terminal
         /\ s = "running" => Legal(s, "completed")
         /\ s = "paused" => ~Legal(s, "completed")
  BY DEF RunStatuses, Legal, Transitions, Statuses, Terminal, Stopped, Interruptible,
         Pausable

\* The first task of a set is unique, because ranks are.
LEMMA FirstIsUnique ==
  ASSUME NEW R \in SUBSET Tasks, NEW t, NEW u, IsFirst(t, R), IsFirst(u, R)
  PROVE  t = u
  BY GraphAssumption DEF IsFirst

----------------------------------------------------------------------------
\* Every step keeps the types.

\* What the coroutine's shared operators do to the variables they set.
LEMMA EnterTypes ==
  ASSUME TypeOK, task \in Tasks, NEW s \in {"validating", "reviewing", "repairing"},
         Enter(s) \/ Throw \/ Continue \/ \E r \in Results : Return(r)
  PROVE  /\ status' \in RunStatuses /\ retryable' \in Tasks \union {NoTask}
         /\ result' \in Results /\ pc' \in Points /\ wait' \in Waits
  BY DEF TypeOK, Enter, Throw, Continue, Return, At, RunStatuses, Results, Points,
         Waits, Pausable, Terminal

\* A boundary of the pipeline, whether it takes the pause or goes on.
LEMMA BoundaryTypes ==
  ASSUME TypeOK, task \in Tasks, NEW p \in {"executed", "validated", "reviewed"},
         NEW v, (After(p, v) /\ UNCHANGED <<pauseRequested, gate>>) \/ Boundary(p, v)
  PROVE  /\ status' \in RunStatuses /\ retryable' \in Tasks \union {NoTask}
         /\ result' \in Results /\ pc' \in Points /\ wait' \in Waits
         /\ pauseRequested' \in BOOLEAN /\ gate' \in {"open", "shut"}
<1>1. CASE Hold(p) /\ UNCHANGED <<retryable, result>>
  BY <1>1 DEF Hold, At, TypeOK, RunStatuses, Points, Waits
<1>2. CASE After(p, v) /\ UNCHANGED <<pauseRequested, gate>>
  BY <1>2, EnterTypes DEF After, NotPassed, TypeOK, Results
<1> QED
  BY <1>1, <1>2 DEF Boundary

\* Starting a task, or failing to, leaves the variables it sets well typed.
LEMMA StartTypes ==
  ASSUME TypeOK, NEW t \in Tasks, StartTask(t)
  PROVE  /\ exec' \in [Tasks -> TaskStatuses] /\ attempts' \in [Tasks -> Nat]
         /\ noResult' \subseteq Tasks /\ status' \in RunStatuses
         /\ pc' \in Points /\ wait' \in Waits /\ task' \in Tasks
         /\ result' \in Results /\ verdict' = "none"
  BY DEF StartTask, store, record, TypeOK, Begun, TaskStatuses, RunStatuses, Pausable, Terminal,
         Points, Waits, Results, At

\* Telling the subscribers an outcome keeps calls well typed.
LEMMA PublishedTypes ==
  ASSUME NEW cs \in [Callers -> CallStates], NEW o \in Outcomes
  PROVE  Published(cs, o) \in [Callers -> CallStates]
  BY DEF Published, CallStates

\* The loop from its top to its next await: whichever way it goes, what it sets
\* is well typed.
LEMMA AdvanceTypes ==
  ASSUME TypeOK, NEW s \in RunStatuses, NEW p \in BOOLEAN, NEW done,
         NEW cs \in [Callers -> CallStates], Advance(s, p, done, cs)
  PROVE  /\ status' \in RunStatuses /\ pauseRequested' \in BOOLEAN /\ pending' \in BOOLEAN
         /\ exec' \in [Tasks -> TaskStatuses] /\ attempts' \in [Tasks -> Nat]
         /\ noResult' \subseteq Tasks
         /\ terminalResult' \in {"none"} \union Terminal /\ gate' \in {"open", "shut"}
         /\ pc' \in Points /\ wait' \in Waits /\ task' \in Tasks \union {NoTask}
         /\ result' \in Results /\ verdict' \in {"none", "passed", "failed"}
         /\ calls' \in [Callers -> CallStates]
<1> USE DEF store, record
<1>1. CASE done = Tasks
  BY <1>1, PublishedTypes DEF Advance, Conclude, Crash, At, TypeOK, RunStatuses, Terminal,
     Outcomes, Points, Waits
<1>2. CASE done # Tasks /\ (signal' \/ s = "aborted")
  <2>1. AbortRun(s, p, cs) /\ UNCHANGED <<store, gate, task, result, verdict>>
    BY <1>2 DEF Advance
  <2>2. CASE Conclude("aborted", cs)
    BY <2>1, <2>2, PublishedTypes DEF AbortRun, Conclude, At, TypeOK, RunStatuses,
       Terminal, Outcomes, Points, Waits
  <2>3. CASE Crash(s, cs)
    BY <2>1, <2>3 DEF AbortRun, Crash, At, TypeOK, Points, Waits
  <2> QED
    BY <2>1, <2>2, <2>3 DEF AbortRun
<1>3. CASE done # Tasks /\ ~(signal' \/ s = "aborted") /\ (p \/ s = "paused")
  BY <1>3 DEF Advance, Hold, At, TypeOK, RunStatuses, Points, Waits
<1>4. CASE done # Tasks /\ ~(signal' \/ s = "aborted") /\ ~(p \/ s = "paused")
  BY <1>4, StartTypes DEF Advance, TypeOK
<1> QED
  BY <1>1, <1>2, <1>3, <1>4

\* Type correctness is kept by every step, given that the coroutine has a task
\* at every point of the pipeline (Stage).
LEMMA TypeStep == TypeOK /\ Stage /\ [Next]_vars => TypeOK'
<1> SUFFICES ASSUME TypeOK, Stage, [Next]_vars
             PROVE  TypeOK'
  OBVIOUS
<1> USE DEF engine, store, record, ledger, coroutine, clients, Outside
<1>task. ASSUME pc \notin {"idle", "top"} PROVE task \in Tasks
  BY <1>task DEF Stage
<1>1. CASE ExecutorCompletes
  <2>1. task \in Tasks /\ exec' \in [Tasks -> TaskStatuses]
    BY <1>1, <1>task, EndedEffect DEF ExecutorCompletes, Working, TypeOK
  <2> QED
    BY <1>1, <2>1, BoundaryTypes DEF ExecutorCompletes, TypeOK
<1>2. ASSUME NEW o \in {"completed", "failed"}, ExecutorEnds(o) PROVE TypeOK'
  <2>1. task \in Tasks /\ exec' \in [Tasks -> TaskStatuses]
    BY <1>2, <1>task, EndedEffect DEF ExecutorEnds, Working, TypeOK
  <2> QED
    BY <1>2, <2>1, EnterTypes DEF ExecutorEnds, TypeOK, Results
<1>fails. ASSUME task \in Tasks, AttemptFails
          PROVE  exec' \in [Tasks -> TaskStatuses] /\ noResult' \subseteq Tasks
  BY <1>fails, EndedEffect DEF AttemptFails, TypeOK
<1>3. CASE ExecutorThrows
  <2>1. task \in Tasks
    BY <1>3, <1>task DEF ExecutorThrows, Working
  <2> QED
    BY <1>3, <2>1, <1>fails, EnterTypes DEF ExecutorThrows, TypeOK
<1>4. CASE Checkpoint
  BY <1>4 DEF Checkpoint, Hold, At, Working, TypeOK, RunStatuses, Waits
<1>5. ASSUME NEW v \in {"passed", "failed"}, ValidationReturns(v) \/ ReviewReturns(v)
      PROVE  TypeOK'
  <2>1. task \in Tasks
    BY <1>5, <1>task DEF ValidationReturns, ReviewReturns, Working
  <2>2. Boundary("validated", v) \/ Boundary("reviewed", v)
    BY <1>5 DEF ValidationReturns, ReviewReturns
  <2>3. /\ status' \in RunStatuses /\ retryable' \in Tasks \union {NoTask}
        /\ result' \in Results /\ pc' \in Points /\ wait' \in Waits
        /\ pauseRequested' \in BOOLEAN /\ gate' \in {"open", "shut"}
    BY <2>1, <2>2, BoundaryTypes
  <2> QED
    BY <1>5, <2>3 DEF ValidationReturns, ReviewReturns, TypeOK
<1>6. CASE StageThrows
  <2>1. task \in Tasks
    BY <1>6, <1>task DEF StageThrows, Working
  <2> QED
    BY <1>6, <2>1, EnterTypes DEF StageThrows, TypeOK
<1>7. ASSUME NEW r \in {"passed", "failed", "rejected", "aborted"}, RepairReturns(r)
      PROVE  TypeOK'
  BY <1>7 DEF RepairReturns, Return, At, TypeOK, Results, Points, Waits
<1>8. CASE AskPermission
  <2>1. task \in Tasks
    BY <1>8, <1>task DEF AskPermission, Working
  <2>2. asks' \in 0 .. MaxAsks
    BY <1>8, RunAssumption DEF AskPermission, TypeOK
  <2>3. CASE Legal(status, "waiting_for_permission")
    BY <1>8, <2>2, <2>3, PublishedTypes
       DEF AskPermission, At, TypeOK, RunStatuses, Waits, Outcomes
  <2>4. CASE ~Legal(status, "waiting_for_permission") /\ pc = "executing"
    BY <1>8, <2>1, <2>2, <2>4, <1>fails, EnterTypes DEF AskPermission, TypeOK
  <2>5. CASE ~Legal(status, "waiting_for_permission") /\ pc # "executing"
    BY <1>8, <2>2, <2>5 DEF AskPermission, Return, At, TypeOK, Results, Points, Waits
  <2> QED
    BY <2>3, <2>4, <2>5
<1>9. CASE PermissionAnswered
  <2>1. task \in Tasks
    BY <1>9, <1>task DEF PermissionAnswered, Stage
  <2>2. CASE answer = "deny" /\ pc = "executing"
    BY <1>9, <2>1, <2>2, <1>fails, EnterTypes DEF PermissionAnswered, TypeOK
  <2>3. CASE ~(answer = "deny" /\ pc = "executing")
    BY <1>9, <2>3 DEF PermissionAnswered, Continue, Return, At, TypeOK, Results, Points,
       Waits
  <2> QED
    BY <2>2, <2>3
<1>10. CASE FingerprintTaken
  BY <1>10, PublishedTypes DEF FingerprintTaken, At, TypeOK, Waits, Outcomes
<1>11. CASE GatePassed
  <2>1. task \in Tasks
    BY <1>11, <1>task DEF GatePassed, Stage
  <2>2. CASE pc = "executing" /\ signal
    BY <1>11, <2>1, <2>2, <1>fails, EnterTypes DEF GatePassed, TypeOK
  <2>3. CASE ~(pc = "executing" /\ signal) /\ pc \in {"executing", "repairing"}
    BY <1>11, <2>3 DEF GatePassed, Continue, At, TypeOK, Waits
  <2>4. CASE pc \notin {"executing", "repairing"}
    <3>1. pc \in {"executed", "validated", "reviewed"}
      BY <1>11, <2>4 DEF GatePassed, Stage
    <3>2. After(pc, verdict) /\ UNCHANGED <<pauseRequested, gate>>
      BY <1>11, <2>4 DEF GatePassed
    <3>3. /\ status' \in RunStatuses /\ retryable' \in Tasks \union {NoTask}
          /\ result' \in Results /\ pc' \in Points /\ wait' \in Waits
      BY <2>1, <3>1, <3>2, BoundaryTypes
    <3> QED
      BY <1>11, <2>4, <3>3 DEF GatePassed, TypeOK
  <2> QED
    BY <2>2, <2>3, <2>4
<1>12. CASE LoopContinues
  BY <1>12, AdvanceTypes DEF LoopContinues, TypeOK
<1>13. CASE SettleThrown
  <2>1. task \in Tasks
    BY <1>13, <1>task DEF SettleThrown
  <2> QED
    BY <1>13, <2>1, PublishedTypes
       DEF SettleThrown, Conclude, At, TypeOK, RunStatuses, Terminal, Outcomes, Points, Waits
<1>14. CASE SettleAborted
  <2>1. CASE Conclude("aborted", calls)
    BY <1>14, <2>1, PublishedTypes
       DEF SettleAborted, AbortRun, Conclude, At, TypeOK, RunStatuses, Terminal, Outcomes,
           Points, Waits
  <2>2. CASE Crash(status, calls)
    BY <1>14, <2>2 DEF SettleAborted, AbortRun, Crash, At, TypeOK, Points, Waits
  <2> QED
    BY <1>14, <2>1, <2>2 DEF SettleAborted, AbortRun
<1>15. CASE SettleFailed
  <2>1. task \in Tasks
    BY <1>15, <1>task DEF SettleFailed
  <2>2. failed' \subseteq Tasks /\ blocked' \subseteq Tasks
        /\ retryable' \in Tasks \union {NoTask}
    BY <1>15, <2>1 DEF SettleFailed, Downstream, TypeOK
  <2>3. CASE Conclude("failed", calls)
    BY <1>15, <2>2, <2>3, PublishedTypes
       DEF SettleFailed, Conclude, At, TypeOK, RunStatuses, Terminal, Outcomes, Points, Waits
  <2>4. CASE Crash(status, calls)
    BY <1>15, <2>2, <2>4 DEF SettleFailed, Crash, At, TypeOK, Points, Waits
  <2> QED
    BY <1>15, <2>3, <2>4 DEF SettleFailed
<1>16. CASE SettlePassed
  <2>1. completed' \subseteq Tasks
    BY <1>16, <1>task DEF SettlePassed, TypeOK
  <2>2. CASE Legal(status, "running")
    <3> DEFINE s == IF pauseRequested THEN "paused" ELSE "running"
    <3>1. s \in RunStatuses /\ Advance(s, FALSE, completed', calls)
      BY <1>16, <2>2 DEF SettlePassed, RunStatuses, Pausable
    <3> QED
      BY <1>16, <2>1, <3>1, AdvanceTypes DEF SettlePassed, TypeOK
  <2>3. CASE ~Legal(status, "running")
    BY <1>16, <2>1, <2>3 DEF SettlePassed, Crash, At, TypeOK, Points, Waits
  <2> QED
    BY <2>2, <2>3
<1>17. ASSUME NEW c \in Callers, ResumeContinues(c) \/ RunApprovedPlan(c) PROVE TypeOK'
  <2>1. Subscribed(c) \in [Callers -> CallStates] /\ "running" \in RunStatuses
    BY DEF Subscribed, CallStates, TypeOK, RunStatuses, Pausable
  <2>2. CASE RunApprovedPlan(c)
    <3>1. signal' \in BOOLEAN /\ Advance("running", pauseRequested, completed, Subscribed(c))
      BY <2>2, RunAssumption DEF RunApprovedPlan
    <3>2. pauseRequested \in BOOLEAN
      BY DEF TypeOK
    <3> HIDE DEF TypeOK
    <3>3. TypeOK
      OBVIOUS
    <3> QED
      BY <2>1, <2>2, <3>1, <3>2, <3>3, AdvanceTypes DEF RunApprovedPlan, TypeOK
  <2>3. CASE ResumeContinues(c) /\ pc = "idle"
    BY <2>1, <2>3, AdvanceTypes DEF ResumeContinues, TypeOK
  <2>4. CASE ResumeContinues(c) /\ pc # "idle"
    BY <2>1, <2>4 DEF ResumeContinues, Opened, TypeOK
  <2> QED
    BY <1>17, <2>2, <2>3, <2>4
<1>18. ASSUME NEW c \in Callers, ResumeRefused(c) \/ RetryRefused(c)
                                 \/ ResumeWorkflow(c) \/ RetryExecution(c)
       PROVE  TypeOK'
  BY <1>18 DEF ResumeRefused, RetryRefused, ResumeWorkflow, RetryExecution, TypeOK,
     CallStates
<1>19. ASSUME NEW c \in Callers, RetryContinues(c) PROVE TypeOK'
  <2>1. calls' \in [Callers -> CallStates] /\ retryable' \in Tasks \union {NoTask}
    BY <1>19 DEF RetryContinues, Subscribed, CallStates, TypeOK
  <2> QED
    BY <1>19, <2>1, StartTypes DEF RetryContinues, TypeOK
<1>20. ASSUME NEW c \in Callers, NEW d \in {"allow", "deny"}, ResolvePermission(c, d)
       PROVE  TypeOK'
  BY <1>20 DEF ResolvePermission, Subscribed, CallStates, TypeOK, RunStatuses, Pausable,
     Terminal
<1>21. CASE PauseWorkflow
  BY <1>21, RunAssumption DEF PauseWorkflow, TypeOK
<1>22. CASE AbortWorkflow
  BY <1>22 DEF AbortWorkflow, Denied, Opened, TypeOK, RunStatuses, Terminal
<1>23. CASE CallerAborts
  BY <1>23 DEF CallerAborts, TypeOK
<1>24. CASE UNCHANGED vars
  BY <1>24 DEF vars, TypeOK
<1> QED
  BY <1>1, <1>2, <1>3, <1>4, <1>5, <1>6, <1>7, <1>8, <1>9, <1>10, <1>11, <1>12, <1>13,
     <1>14, <1>15, <1>16, <1>17, <1>18, <1>19, <1>20, <1>21, <1>22, <1>23, <1>24
     DEF Next, Scheduled, Pipeline, Loop, Client

----------------------------------------------------------------------------
\* Every step keeps the invariant.

\* Throw ends the pipeline and leaves the workflow failed or as it was.
LEMMA ThrowEffect ==
  ASSUME Throw
  PROVE  pc' = "returned" /\ wait' = "none" /\ result' = "thrown"
         /\ status' \in {status, "failed"}
  BY DEF Throw, At

\* After a boundary the pipeline is in its next stage, or has returned.
LEMMA AfterEffect ==
  ASSUME NEW p, NEW v, After(p, v)
  PROVE  /\ pc' \in {"validating", "reviewing", "repairing", "returned"}
         /\ wait' = "none"
         /\ status' \in {status, "failed", "validating", "reviewing", "repairing"}
  BY ThrowEffect DEF After, NotPassed, Enter, Return, At

\* A boundary takes a pause at its own point, or lets the pipeline go on.
LEMMA BoundaryEffect ==
  ASSUME NEW p \in {"executed", "validated", "reviewed"}, NEW v, Boundary(p, v)
  PROVE  \/ /\ pc' = p /\ wait' = "fingerprint" /\ status' = "paused" /\ gate' = "shut"
         \/ /\ pc' \in {"validating", "reviewing", "repairing", "returned"}
            /\ wait' = "none"
            /\ status' \in {status, "failed", "validating", "reviewing", "repairing"}
  BY AfterEffect DEF Boundary, Hold, At

\* A step that passes no task and selects none keeps what is said of the
\* tasks: it leaves the store alone, or ends the attempt of the current task.
LEMMA TaskStep ==
  ASSUME TypeOK, Stage, TaskPart, pc' # "top",
         UNCHANGED <<completed, task>>,
         \/ exec' = exec /\ (pc = "executing" => pc' = "executing")
         \/ pc = "executing" /\ \E o \in {"completed", "failed"} : exec' = Ended(exec, task, o)
  PROVE  TaskPart'
<1>1. BetweenTasks' /\ Selection'
  BY DEF BetweenTasks, TaskPart, Selection
<1>2. CASE exec' = exec /\ (pc = "executing" => pc' = "executing")
  BY <1>1, <1>2 DEF TaskPart, PassedAreExecuted, OneTaskAtATime,
     StartedTasksHaveDependencies, Started
<1>3. CASE pc = "executing" /\ \E o \in {"completed", "failed"} : exec' = Ended(exec, task, o)
  <2>1. task \in Tasks \ completed /\ exec[task] = "running"
    BY <1>3 DEF Stage
  <2>2. PICK o \in {"completed", "failed"} : exec' = Ended(exec, task, o)
    BY <1>3
  <2>3. /\ exec'[task] = o
        /\ \A u \in Tasks \ {task} :
             /\ exec[u] \in InProgress => exec'[u] = exec[u]
             /\ exec[u] \notin InProgress => exec'[u] \notin InProgress
    BY <2>1, <2>2, EndedEffect DEF TypeOK
  <2>4. Started' = Started
    BY <2>1, <2>3 DEF Started, InProgress
  <2>5. PassedAreExecuted'
    BY <2>1, <2>3 DEF PassedAreExecuted, TaskPart, TypeOK, InProgress
  <2>6. OneTaskAtATime'
    BY <2>1, <2>3, <2>4 DEF OneTaskAtATime, TaskPart, InProgress
  <2>7. StartedTasksHaveDependencies'
    BY <2>4 DEF StartedTasksHaveDependencies, TaskPart
  <2> QED
    BY <1>1, <2>5, <2>6, <2>7 DEF TaskPart
<1> QED
  BY <1>2, <1>3

\* Selecting the first ready task, when nothing else is in progress.
LEMMA StartStep ==
  ASSUME TypeOK, TypeOK', completed' \in SUBSET Tasks, NEW t \in Tasks,
         IsFirst(t, ReadyTasks(completed')), StartTask(t),
         Started \subseteq completed' \union {t}, exec[t] # "running",
         \A u \in completed' : exec[u] = "completed",
         \A u \in Started : Deps[u] \subseteq completed'
  PROVE  /\ Stage' /\ TaskPart'
         /\ pc' \in {"executing", "returned"} /\ wait' = "none"
         /\ status' \in {"executing", "running", "failed"}
<1>1. t \notin completed' /\ Deps[t] \subseteq completed' /\ task' = t
  BY DEF IsFirst, ReadyTasks, IsReady, StartTask
<1>2. Selection'
  BY <1>1 DEF Selection, IsFirst, ReadyTasks
<1>3. CASE CanBegin(exec, t) /\ exec' = Begun(exec, t) /\ status' = "executing"
           /\ result' = "none" /\ At("executing", "none")
  <2>1. exec'[t] = "running" /\ \A u \in Tasks \ {t} : exec'[u] = exec[u]
    BY <1>3 DEF Begun, TypeOK
  <2>2. Started' = Started \union {t}
    BY <2>1 DEF Started
  <2>3. Stage' /\ BetweenTasks'
    BY <1>1, <1>3, <2>1 DEF Stage, BetweenTasks, At
  <2>4. PassedAreExecuted' /\ StartedTasksHaveDependencies'
    BY <1>1, <2>1, <2>2 DEF PassedAreExecuted, StartedTasksHaveDependencies
  <2>5. \A u \in Tasks : exec'[u] = "running" => u = t
    BY <1>1, <2>1 DEF Started
  <2>6. OneTaskAtATime'
    BY <1>1, <1>3, <2>2, <2>5 DEF OneTaskAtATime, At
  <2> QED
    BY <1>2, <1>3, <2>3, <2>4, <2>6 DEF TaskPart, At
<1>4. CASE /\ status' \in {"running", "failed"} /\ result' = "thrown"
           /\ At("returned", "none") /\ UNCHANGED store
  <2>1. exec' = exec /\ Started' = Started
    BY <1>4 DEF store, record, Started
  <2>2. Stage' /\ BetweenTasks'
    BY <1>1, <1>4 DEF Stage, BetweenTasks, At
  <2>3. PassedAreExecuted' /\ StartedTasksHaveDependencies'
    BY <2>1 DEF PassedAreExecuted, StartedTasksHaveDependencies
  <2>4. \A u \in Tasks : exec'[u] # "running"
    BY <2>1 DEF Started
  <2>5. OneTaskAtATime'
    BY <1>1, <2>1, <2>4 DEF OneTaskAtATime
  <2> QED
    BY <1>2, <1>4, <2>2, <2>3, <2>5 DEF TaskPart, At
<1> QED
  BY <1>3, <1>4 DEF StartTask

\* The loop, from any state in which nothing is in progress.
LEMMA AdvanceStep ==
  ASSUME TypeOK, TypeOK', completed' \in SUBSET Tasks,
         Started \subseteq completed',
         \A u \in completed' : exec[u] = "completed",
         \A u \in Started : Deps[u] \subseteq completed',
         task \in Tasks \ completed' => IsFirst(task, ReadyTasks(completed')),
         NEW s \in RunStatuses \ {"approved"}, NEW p, NEW cs,
         completed' = Tasks => s \in {"running", "paused"},
         Advance(s, p, completed', cs)
  PROVE  Stage' /\ TaskPart' /\ ControlPart'
<1> DEFINE Idle(s1) == pc' = "idle" /\ wait' = "none" /\ status' = s1
                       /\ exec' = exec /\ task' = task
           Quiet == exec' = exec /\ task' = task /\ wait' # "permission"
                    /\ ((pc' = "idle" /\ wait' = "none") \/ (pc' = "top" /\ completed' # Tasks))
<1>1. ASSUME Quiet PROVE Stage' /\ TaskPart'
  <2>1. Started' = Started
    BY <1>1 DEF Started
  <2>2. \A u \in Tasks : exec'[u] # "running"
    BY <1>1 DEF Started
  <2>3. Stage' /\ BetweenTasks'
    BY <1>1, <2>1 DEF Stage, BetweenTasks
  <2>4. Selection'
    BY <1>1 DEF Selection, ReadyTasks, IsReady, IsFirst
  <2>5. PassedAreExecuted' /\ StartedTasksHaveDependencies' /\ OneTaskAtATime'
    BY <1>1, <2>1, <2>2
       DEF PassedAreExecuted, StartedTasksHaveDependencies, OneTaskAtATime
  <2> QED
    BY <2>3, <2>4, <2>5 DEF TaskPart
<1>2. CASE completed' = Tasks
  <2>1. \/ Idle("completed")
        \/ Idle(s) /\ ~Legal(s, "completed")
    BY <1>2 DEF Advance, Conclude, Crash, At, store, record
  <2>2. status' = "completed" \/ status' = "paused"
    BY <1>2, <2>1, LegalFacts
  <2>3. Quiet
    BY <2>1
  <2> QED
    BY <1>1, <1>2, <2>1, <2>2, <2>3 DEF ControlPart, LoopGone, PausedAtGate, Terminal
<1>3. CASE completed' # Tasks /\ (signal' \/ s = "aborted")
  <2>1. Idle("aborted") \/ (Idle(s) /\ s \in Terminal)
    BY <1>3, LegalFacts DEF Advance, AbortRun, Conclude, Crash, At, store, record
  <2>2. Quiet
    BY <2>1
  <2> QED
    BY <1>1, <2>1, <2>2 DEF ControlPart, LoopGone, PausedAtGate, Terminal
<1>4. CASE completed' # Tasks /\ ~(signal' \/ s = "aborted") /\ (p \/ s = "paused")
  <2>1. /\ pc' = "top" /\ wait' = "fingerprint" /\ status' = "paused" /\ gate' = "shut"
        /\ exec' = exec /\ task' = task
    BY <1>4 DEF Advance, Hold, At, store, record
  <2> QED
    BY <1>1, <1>4, <2>1 DEF ControlPart, LoopGone, PausedAtGate
<1>5. CASE completed' # Tasks /\ ~(signal' \/ s = "aborted") /\ ~(p \/ s = "paused")
  <2>1. PICK t \in Tasks : IsFirst(t, ReadyTasks(completed')) /\ StartTask(t)
    BY <1>5 DEF Advance
  <2>2. exec[t] # "running"
    BY DEF Started
  <2>3. /\ Stage' /\ TaskPart'
        /\ pc' \in {"executing", "returned"} /\ wait' = "none"
        /\ status' \in {"executing", "running", "failed"}
    BY <2>1, <2>2, StartStep
  <2> QED
    BY <2>3 DEF ControlPart, LoopGone, PausedAtGate
<1> QED
  BY <1>2, <1>3, <1>4, <1>5

\* A client call that leaves the coroutine, the store and what passed alone.
LEMMA ClientStep ==
  ASSUME Stage, TaskPart, UNCHANGED <<exec, completed, pc, wait, task, result>>
  PROVE  Stage' /\ TaskPart'
  BY DEF Stage, TaskPart, BetweenTasks, Selection, PassedAreExecuted, OneTaskAtATime,
     StartedTasksHaveDependencies, Started

\* A step of the coroutine within a task.
LEMMA PipelineStep == IInv /\ TypeOK' /\ Pipeline => Stage' /\ TaskPart' /\ ControlPart'
<1> SUFFICES ASSUME IInv, TypeOK', Pipeline PROVE Stage' /\ TaskPart' /\ ControlPart'
  OBVIOUS
<1> USE DEF Outside, record
<1>1. TypeOK /\ Stage /\ TaskPart /\ LoopGone /\ PausedAtGate
  BY DEF IInv, ControlPart
<1>control. ASSUME pc # "idle", pc' # "idle", status' = status \/ status' # "approved",
                   status' = "paused" => wait' \in {"fingerprint", "gate"} /\ gate' = "shut"
            PROVE  ControlPart'
  BY <1>1, <1>control DEF ControlPart, LoopGone, PausedAtGate
<1>awake. ASSUME pc # "idle", wait \notin {"fingerprint", "gate"} PROVE status # "paused"
  BY <1>1, <1>awake DEF PausedAtGate
<1>task. ASSUME pc \notin {"idle", "top"} PROVE task \in Tasks \ completed
  BY <1>1, <1>task DEF Stage
<1>ended. ASSUME pc \notin {"idle", "top"}, NEW o \in {"completed", "failed"},
                 exec' = Ended(exec, task, o)
          PROVE  exec'[task] = o
  BY <1>1, <1>task, <1>ended, EndedEffect DEF TypeOK
<1>2. CASE ExecutorCompletes
  <2>1. /\ pc = "executing" /\ wait = "none" /\ exec' = Ended(exec, task, "completed")
        /\ UNCHANGED <<completed, task>> /\ Boundary("executed", "none")
    BY <1>2 DEF ExecutorCompletes, Working
  <2>2. pc' \notin {"idle", "top", "executing"} /\ wait' \notin {"gate", "permission"}
        /\ (wait' = "fingerprint" => pc' = "executed")
    BY <2>1, BoundaryEffect
  <2>3. Stage'
    BY <2>1, <2>2, <1>task, <1>ended DEF Stage
  <2>4. TaskPart'
    BY <1>1, <2>1, <2>2, <2>3, TaskStep
  <2> QED
    BY <2>1, <2>3, <2>4, <1>control, <1>awake, BoundaryEffect
<1>3. ASSUME NEW o \in {"completed", "failed"}, ExecutorEnds(o)
      PROVE  Stage' /\ TaskPart' /\ ControlPart'
  <2>1. /\ pc = "executing" /\ wait = "none" /\ exec' = Ended(exec, task, o)
        /\ UNCHANGED <<completed, task>>
        /\ pc' = "returned" /\ wait' = "none" /\ status' = status
        /\ result' = "passed" => o = "completed"
    BY <1>3 DEF ExecutorEnds, Working, Return, At
  <2>2. Stage'
    BY <2>1, <1>task, <1>ended DEF Stage
  <2>3. TaskPart'
    BY <1>1, <2>1, <2>2, TaskStep
  <2> QED
    BY <2>1, <2>2, <2>3, <1>control, <1>awake
<1>fails. ASSUME pc = "executing", wait = "none" \/ status # "paused", AttemptFails, Throw,
                 UNCHANGED <<completed, task>>
          PROVE  Stage' /\ TaskPart' /\ ControlPart'
  <2>1. /\ pc' = "returned" /\ wait' = "none" /\ result' = "thrown"
        /\ status' \in {status, "failed"}
    BY <1>fails, ThrowEffect
  <2>2. Stage'
    BY <2>1, <1>fails, <1>task DEF Stage
  <2>3. TaskPart'
    BY <1>1, <1>fails, <2>1, <2>2, TaskStep DEF AttemptFails
  <2> QED
    BY <1>fails, <2>1, <2>2, <2>3, <1>control, <1>awake
<1>returns. ASSUME pc \notin {"idle", "top", "executing"},
                   wait = "none" \/ status # "paused",
                   pc' \in {"validating", "reviewing", "repairing", "returned"},
                   wait' = "none", exec[task] = "completed",
                   status' \in {status, "failed", "validating", "reviewing", "repairing"},
                   UNCHANGED <<exec, completed, task>>
            PROVE  Stage' /\ TaskPart' /\ ControlPart'
  <2>1. Stage'
    BY <1>returns, <1>task DEF Stage
  <2>2. TaskPart'
    BY <1>1, <1>returns, <2>1, TaskStep
  <2> QED
    BY <1>returns, <2>1, <2>2, <1>control, <1>awake
<1>same. ASSUME pc \in {"executing", "repairing"}, pc' = pc,
                UNCHANGED <<exec, completed, task>>, wait' # "gate",
                status' = status \/ status' # "approved",
                status' = "paused" => wait' = "fingerprint" /\ gate' = "shut"
         PROVE  Stage' /\ TaskPart' /\ ControlPart'
  <2>1. Stage'
    BY <1>1, <1>same, <1>task DEF Stage
  <2>2. TaskPart'
    BY <1>1, <1>same, <2>1, TaskStep
  <2> QED
    BY <1>same, <2>1, <2>2, <1>control
<1>4. CASE ExecutorThrows
  BY <1>4, <1>fails DEF ExecutorThrows, Working
<1>5. CASE Checkpoint
  BY <1>5, <1>same DEF Checkpoint, Working, Hold, At
<1>6. ASSUME NEW v \in {"passed", "failed"}, ValidationReturns(v) \/ ReviewReturns(v)
      PROVE  Stage' /\ TaskPart' /\ ControlPart'
  <2>1. PICK p \in {"validated", "reviewed"} : Boundary(p, v)
    BY <1>6 DEF ValidationReturns, ReviewReturns
  <2>2. /\ pc \in {"validating", "reviewing"} /\ wait = "none"
        /\ UNCHANGED <<exec, completed, task>>
    BY <1>6 DEF ValidationReturns, ReviewReturns, Working
  <2>3. exec[task] = "completed"
    BY <1>1, <2>2 DEF Stage
  <2>4. CASE /\ pc' = p /\ wait' = "fingerprint" /\ status' = "paused" /\ gate' = "shut"
    <3>1. Stage'
      BY <2>2, <2>3, <2>4, <1>task DEF Stage
    <3>2. TaskPart'
      BY <1>1, <2>2, <2>4, <3>1, TaskStep
    <3> QED
      BY <2>2, <2>4, <3>1, <3>2, <1>control
  <2>5. CASE /\ pc' \in {"validating", "reviewing", "repairing", "returned"}
             /\ wait' = "none"
             /\ status' \in {status, "failed", "validating", "reviewing", "repairing"}
    BY <2>2, <2>3, <2>5, <1>returns
  <2> QED
    BY <2>1, <2>4, <2>5, BoundaryEffect
<1>7. CASE StageThrows
  <2>1. exec[task] = "completed"
    BY <1>1, <1>7 DEF StageThrows, Working, Stage
  <2> QED
    BY <1>7, <2>1, <1>returns, ThrowEffect DEF StageThrows, Working
<1>8. ASSUME NEW r \in {"passed", "failed", "rejected", "aborted"}, RepairReturns(r)
      PROVE  Stage' /\ TaskPart' /\ ControlPart'
  <2>1. exec[task] = "completed"
    BY <1>1, <1>8 DEF RepairReturns, Working, Stage
  <2> QED
    BY <1>8, <2>1, <1>returns DEF RepairReturns, Working, Return, At
<1>9. CASE AskPermission
  <2>1. pc \in {"executing", "repairing"} /\ wait = "none" /\ UNCHANGED <<completed, task>>
    BY <1>9 DEF AskPermission, Working
  <2>2. CASE Legal(status, "waiting_for_permission")
    BY <1>9, <2>1, <2>2, <1>same DEF AskPermission, At
  <2>3. CASE ~Legal(status, "waiting_for_permission") /\ pc = "executing"
    BY <1>9, <2>1, <2>3, <1>fails DEF AskPermission
  <2>4. CASE ~Legal(status, "waiting_for_permission") /\ pc = "repairing"
    <3>1. exec[task] = "completed"
      BY <1>1, <2>4 DEF Stage
    <3> QED
      BY <1>9, <2>1, <2>4, <3>1, <1>returns DEF AskPermission, Return, At
  <2> QED
    BY <2>1, <2>2, <2>3, <2>4
<1>10. CASE PermissionAnswered
  <2>1. /\ pc \in {"executing", "repairing"} /\ status # "paused"
        /\ UNCHANGED <<completed, task>>
    BY <1>1, <1>10, <1>awake DEF PermissionAnswered, Stage
  <2>2. CASE answer = "deny" /\ pc = "executing"
    BY <1>10, <2>1, <2>2, <1>fails DEF PermissionAnswered
  <2>3. CASE answer = "allow"
    BY <1>10, <2>1, <2>3, <1>same DEF PermissionAnswered, Continue, At
  <2>4. CASE answer = "deny" /\ pc = "repairing"
    <3>1. exec[task] = "completed"
      BY <1>1, <2>4 DEF Stage
    <3> QED
      BY <1>10, <2>1, <2>4, <3>1, <1>returns DEF PermissionAnswered, Return, At
  <2> QED
    BY <1>10, <2>1, <2>2, <2>3, <2>4 DEF PermissionAnswered
<1>11. CASE FingerprintTaken
  <2>1. /\ wait = "fingerprint" /\ pc' = pc /\ wait' = "gate"
        /\ UNCHANGED <<status, gate, exec, completed, task, result>>
    BY <1>11 DEF FingerprintTaken, At, engine
  <2>2. pc # "idle" => ControlPart'
    BY <1>1, <2>1 DEF PausedAtGate, ControlPart, LoopGone
  <2> QED
    BY <1>1, <2>1, <2>2 DEF Stage, TaskPart, BetweenTasks, Selection, PassedAreExecuted,
       OneTaskAtATime, StartedTasksHaveDependencies, Started
<1>12. CASE GatePassed
  <2>1. /\ pc \in {"executing", "executed", "validated", "reviewed", "repairing"}
        /\ status # "paused" /\ UNCHANGED <<completed, task>>
    BY <1>1, <1>12 DEF GatePassed, Stage, PausedAtGate
  <2>2. CASE pc = "executing" /\ signal
    BY <1>12, <2>1, <2>2, <1>fails DEF GatePassed
  <2>3. CASE ~(pc = "executing" /\ signal) /\ pc \in {"executing", "repairing"}
    BY <1>12, <2>1, <2>3, <1>same DEF GatePassed, Continue, At
  <2>4. CASE pc \notin {"executing", "repairing"}
    <3>1. After(pc, verdict) /\ exec' = exec /\ exec[task] = "completed"
      BY <1>1, <1>12, <2>1, <2>4 DEF GatePassed, Stage
    <3> QED
      BY <2>1, <2>4, <3>1, <1>returns, AfterEffect
  <2> QED
    BY <2>2, <2>3, <2>4
<1> QED
  BY <1>2, <1>3, <1>4, <1>5, <1>6, <1>7, <1>8, <1>9, <1>10, <1>11, <1>12 DEF Pipeline

\* A step that settles a task without passing it: the loop ends.
LEMMA EndStep ==
  ASSUME IInv, pc \notin {"top", "executing"}, pc' = "idle", wait' = "none",
         status' \in Terminal, UNCHANGED <<exec, completed, task>>
  PROVE  Stage' /\ TaskPart' /\ ControlPart'
<1>1. Stage'
  BY DEF Stage
<1>2. TaskPart'
  BY <1>1, TaskStep DEF IInv
<1> QED
  BY <1>1, <1>2 DEF ControlPart, LoopGone, PausedAtGate, Terminal

\* A step of the loop, after the pipeline of a task or from the gate at its top.
LEMMA LoopStep == IInv /\ TypeOK' /\ Loop => Stage' /\ TaskPart' /\ ControlPart'
<1> SUFFICES ASSUME IInv, TypeOK', Loop PROVE Stage' /\ TaskPart' /\ ControlPart'
  OBVIOUS
<1> USE DEF store, record, ledger
<1>1. TypeOK /\ Stage /\ TaskPart /\ LoopGone /\ PausedAtGate
  BY DEF IInv, ControlPart
<1>2. CASE LoopContinues
  <2>1. /\ pc = "top" /\ completed' = completed
        /\ Advance(status, pauseRequested, completed', calls)
    BY <1>2 DEF LoopContinues
  <2>2. Started \subseteq completed' /\ completed' # Tasks /\ status \in RunStatuses \ {"approved"}
    BY <1>1, <2>1 DEF TaskPart, BetweenTasks, LoopGone, TypeOK
  <2>3. /\ \A u \in completed' : exec[u] = "completed"
        /\ \A u \in Started : Deps[u] \subseteq completed'
        /\ task \in Tasks \ completed' => IsFirst(task, ReadyTasks(completed'))
    BY <1>1, <2>1
       DEF TaskPart, PassedAreExecuted, StartedTasksHaveDependencies, Selection
  <2>4. TypeOK /\ completed' \in SUBSET Tasks
    BY <1>1, <2>1 DEF TypeOK
  <2> QED
    BY <2>1, <2>2, <2>3, <2>4, AdvanceStep
<1>3. CASE SettleThrown
  BY <1>3, EndStep DEF SettleThrown, Conclude, At, Terminal
<1>4. CASE SettleAborted
  <2>1. /\ pc = "returned" /\ UNCHANGED <<exec, completed, task>>
        /\ AbortRun(status, pauseRequested, calls)
    BY <1>4 DEF SettleAborted
  <2>2. pc' = "idle" /\ wait' = "none" /\ status' \in Terminal
    BY <1>1, <2>1, LegalFacts DEF AbortRun, Conclude, Crash, At, TypeOK, Terminal
  <2> QED
    BY <2>1, <2>2, EndStep
<1>5. CASE SettleFailed
  <2>1. /\ pc = "returned" /\ wait \notin {"fingerprint", "gate"}
        /\ UNCHANGED <<exec, completed, task>>
        /\ IF Legal(status, "failed") THEN Conclude("failed", calls)
                                      ELSE Crash(status, calls)
    BY <1>1, <1>5 DEF SettleFailed, Stage
  <2>2. pc' = "idle" /\ wait' = "none" /\ status' \in Terminal
    BY <1>1, <2>1, LegalFacts DEF PausedAtGate, Conclude, Crash, At, TypeOK, Terminal
  <2> QED
    BY <2>1, <2>2, EndStep
<1>6. CASE SettlePassed
  <2>1. /\ pc = "returned" /\ result = "passed" /\ task \in Tasks \ completed
        /\ completed' = completed \union {task} /\ completed' \in SUBSET Tasks
        /\ exec[task] = "completed"
    BY <1>1, <1>6 DEF SettlePassed, Stage, TypeOK
  <2>2. /\ Started \subseteq completed'
        /\ \A u \in completed' : exec[u] = "completed"
        /\ \A u \in Started : Deps[u] \subseteq completed'
    BY <1>1, <2>1
       DEF TaskPart, OneTaskAtATime, PassedAreExecuted, StartedTasksHaveDependencies
  <2>3. CASE Legal(status, "running")
    <3> DEFINE s == IF pauseRequested THEN "paused" ELSE "running"
    <3>1. s \in RunStatuses \ {"approved"} /\ s \in {"running", "paused"}
          /\ Advance(s, FALSE, completed', calls)
      BY <1>6, <2>3 DEF SettlePassed, RunStatuses, Pausable
    <3> QED
      BY <1>1, <2>1, <2>2, <3>1, AdvanceStep
  <2>4. CASE ~Legal(status, "running")
    <3>1. /\ pc' = "idle" /\ wait' = "none" /\ status' = status
          /\ exec' = exec /\ task' = task
      BY <1>6, <2>4 DEF SettlePassed, Crash, At
    <3>2. status' \in Terminal
      BY <1>1, <2>4, <3>1, LegalFacts DEF TypeOK
    <3>3. Stage' /\ ControlPart'
      BY <3>1, <3>2 DEF Stage, ControlPart, LoopGone, PausedAtGate, Terminal
    <3>4. \A u \in Tasks : exec[u] # "running"
      BY <1>1, <2>1 DEF TaskPart, OneTaskAtATime
    <3>5. TaskPart'
      BY <2>1, <2>2, <3>1, <3>4
         DEF TaskPart, BetweenTasks, Selection, PassedAreExecuted, OneTaskAtATime,
             StartedTasksHaveDependencies, Started
    <3> QED
      BY <3>3, <3>5
  <2> QED
    BY <2>3, <2>4
<1> QED
  BY <1>2, <1>3, <1>4, <1>5, <1>6 DEF Loop

\* The calls of a client c, and their rest after an await.
Call(c) ==
  \/ RunApprovedPlan(c) \/ ResumeWorkflow(c) \/ ResumeContinues(c) \/ ResumeRefused(c)
  \/ RetryExecution(c) \/ RetryContinues(c) \/ RetryRefused(c)
  \/ \E d \in {"allow", "deny"} : ResolvePermission(c, d)

\* A client's call, and the rest of it after its await, keeps the invariant.
LEMMA CallStep ==
  ASSUME IInv, TypeOK', NEW c \in Callers, Call(c)
  PROVE  Stage' /\ TaskPart' /\ ControlPart'
<1> USE DEF engine, store, record, ledger, coroutine
<1>1. TypeOK /\ Stage /\ TaskPart /\ LoopGone /\ PausedAtGate
  BY DEF IInv, ControlPart
<1>tasks. ASSUME completed' = completed
          PROVE  /\ \A u \in completed' : exec[u] = "completed"
                 /\ \A u \in Started : Deps[u] \subseteq completed'
                 /\ task \in Tasks \ completed' => IsFirst(task, ReadyTasks(completed'))
                 /\ completed' \in SUBSET Tasks
  BY <1>1, <1>tasks
     DEF TaskPart, PassedAreExecuted, StartedTasksHaveDependencies, Selection, TypeOK
<1>2. CASE RunApprovedPlan(c) \/ (ResumeContinues(c) /\ pc = "idle")
  <2>1. PICK p \in BOOLEAN : /\ completed' = completed
                            /\ Advance("running", p, completed', Subscribed(c))
    BY <1>1, <1>2 DEF RunApprovedPlan, ResumeContinues, TypeOK
  <2>2. status = "approved" \/ (pc = "idle" /\ status \notin Terminal)
    BY <1>1, <1>2, LegalFacts DEF RunApprovedPlan, ResumeContinues, TypeOK
  <2>3. Started \subseteq completed'
    BY <1>1, <2>1, <2>2 DEF LoopGone, Started
  <2>4. "running" \in RunStatuses \ {"approved"}
    BY DEF RunStatuses, Pausable
  <2> QED
    BY <1>1, <1>tasks, <2>1, <2>3, <2>4, AdvanceStep
<1>3. CASE ResumeContinues(c) /\ pc # "idle"
  <2>1. UNCHANGED <<exec, completed, pc, wait, task, result>> /\ status' = "running"
    BY <1>3 DEF ResumeContinues
  <2> QED
    BY <1>1, <1>3, <2>1, ClientStep DEF ControlPart, LoopGone, PausedAtGate
<1>4. CASE ResumeWorkflow(c) \/ ResumeRefused(c) \/ RetryExecution(c) \/ RetryRefused(c)
  <2>1. UNCHANGED <<exec, completed, pc, wait, task, result, status, gate>>
    BY <1>4 DEF ResumeWorkflow, ResumeRefused, RetryExecution, RetryRefused
  <2> QED
    BY <1>1, <2>1, ClientStep DEF ControlPart, LoopGone, PausedAtGate, Started
<1>5. CASE RetryContinues(c)
  <2>1. PICK t \in Tasks : IsFirst(t, ReadyTasks(completed)) /\ StartTask(t)
    BY <1>5 DEF RetryContinues
  <2>2. /\ retryable \in Tasks \ completed /\ exec[retryable] = "failed"
        /\ completed' = completed
    BY <1>1, <1>5 DEF RetryContinues, CanRetry, TypeOK
  <2>3. retryable = task /\ Started \subseteq completed \union {task}
    BY <1>1, <2>2 DEF TaskPart, OneTaskAtATime, Started
  <2>4. t = task
    BY <1>1, <2>1, <2>2, <2>3, FirstIsUnique DEF TaskPart, Selection, ReadyTasks
  <2>5. /\ Stage' /\ TaskPart'
        /\ pc' \in {"executing", "returned"} /\ status' \in {"executing", "running", "failed"}
    BY <1>1, <1>tasks, <2>1, <2>2, <2>3, <2>4, StartStep
  <2> QED
    BY <2>5 DEF ControlPart, LoopGone, PausedAtGate
<1>6. ASSUME NEW d \in {"allow", "deny"}, ResolvePermission(c, d)
      PROVE  Stage' /\ TaskPart' /\ ControlPart'
  <2>1. /\ UNCHANGED <<exec, completed, pc, wait, task, result>>
        /\ status = "waiting_for_permission" /\ status' \in {"running", "failed"}
    BY <1>6 DEF ResolvePermission
  <2>2. pc # "idle"
    BY <1>1, <2>1 DEF LoopGone, Terminal
  <2> QED
    BY <1>1, <2>1, <2>2, ClientStep DEF ControlPart, LoopGone, PausedAtGate
<1> QED
  BY <1>2, <1>3, <1>4, <1>5, <1>6 DEF Call

\* Every step keeps the invariant: one case for the pipeline, the loop, the
\* calls, and the three requests that carry no call.
LEMMA Inductive == IInv /\ [Next]_vars => IInv'
<1> SUFFICES ASSUME IInv, [Next]_vars PROVE IInv'
  OBVIOUS
<1> USE DEF engine, store, record, ledger, coroutine, clients
<1>1. TypeOK'
  BY TypeStep DEF IInv
<1>2. TypeOK /\ Stage /\ TaskPart /\ LoopGone /\ PausedAtGate
  BY DEF IInv, ControlPart
<1>3. CASE Pipeline
  BY <1>1, <1>3, PipelineStep DEF IInv
<1>4. CASE Loop
  BY <1>1, <1>4, LoopStep DEF IInv
<1>5. ASSUME NEW c \in Callers, Call(c) PROVE IInv'
  BY <1>1, <1>5, CallStep DEF IInv
<1>6. CASE PauseWorkflow \/ CallerAborts \/ UNCHANGED vars
  <2>1. UNCHANGED <<exec, completed, pc, wait, task, result, status, gate>>
    BY <1>6 DEF PauseWorkflow, CallerAborts, vars
  <2> QED
    BY <1>1, <1>2, <2>1, ClientStep
       DEF IInv, ControlPart, LoopGone, PausedAtGate, Started
<1>7. CASE AbortWorkflow
  <2>1. UNCHANGED <<exec, completed, pc, wait, task, result>>
    BY <1>7 DEF AbortWorkflow
  <2>2. status' \in Terminal
    BY <1>2, <1>7, LegalFacts DEF AbortWorkflow, Terminal, TypeOK
  <2> QED
    BY <1>1, <1>2, <2>1, <2>2, ClientStep
       DEF IInv, ControlPart, LoopGone, PausedAtGate, Terminal
<1> QED
  BY <1>3, <1>4, <1>5, <1>6, <1>7 DEF Next, Scheduled, Client, Call

\* A freshly approved plan satisfies the invariant.
LEMMA Initial == Init => IInv
<1> SUFFICES ASSUME Init PROVE IInv
  OBVIOUS
<1>1. Started = {}
  BY DEF Init, Started, FreshRecord
<1>2. TypeOK
  <2>1. exec \in [Tasks -> TaskStatuses] /\ attempts \in [Tasks -> Nat]
    BY DEF Init, FreshRecord, TaskStatuses
  <2>2. calls \in [Callers -> CallStates]
    BY DEF Init, CallStates
  <2>3. pauses \in 0 .. MaxPauses /\ asks \in 0 .. MaxAsks
    BY RunAssumption DEF Init
  <2> QED
    BY <2>1, <2>2, <2>3 DEF Init, TypeOK, RunStatuses, Points, Waits, Results
<1>3. \A t \in Tasks : exec[t] # "running"
  BY DEF Init, FreshRecord
<1>4. Stage /\ TaskPart /\ ControlPart
  BY <1>1, <1>3, RunAssumption
     DEF Init, Stage, TaskPart, BetweenTasks, Selection, PassedAreExecuted, OneTaskAtATime,
         StartedTasksHaveDependencies, ControlPart, LoopGone, PausedAtGate
<1> QED
  BY <1>2, <1>4 DEF IInv

\* The strengthened invariant holds throughout every run of the scheduler
\* (runApprovedPlan, advanceApprovedWorkflow, runTaskPipeline), whatever the
\* plan, the number of callers and the bounds.
THEOREM Invariance == Spec => []IInv
  BY Initial, Inductive, PTL DEF Spec

\* The workflow, the store, the runtime and the coroutine stay well typed; in
\* particular only statuses a run can have are ever stored by the engine.
THEOREM TypeCorrect == Spec => []TypeOK
<1>1. IInv => TypeOK
  BY DEF IInv
<1> QED
  BY <1>1, Invariance, PTL

\* advanceApprovedWorkflow and the store's begin never start a task before every
\* task it depends on has passed, on every acyclic plan.
THEOREM DependenciesFirst == Spec => []StartedTasksHaveDependencies
<1>1. IInv => StartedTasksHaveDependencies
  BY DEF IInv, TaskPart
<1> QED
  BY <1>1, Invariance, PTL

\* The scheduler works on one task at a time: what was started and has not
\* passed is the task of the coroutine, through pauses, aborts and retries.
THEOREM OneAtATime == Spec => []OneTaskAtATime
<1>1. IInv => OneTaskAtATime
  BY DEF IInv, TaskPart
<1> QED
  BY <1>1, Invariance, PTL

\* While the engine stores "paused", no stage of the pipeline is at work:
\* pause is only stored by pauseAtBoundary and at the top of the loop, and
\* nothing leaves the gate without resumeWorkflow.
THEOREM QuietWhilePaused == Spec => []PausedIsQuiet
<1>1. IInv => PausedIsQuiet
  BY DEF IInv, ControlPart, PausedAtGate, PausedIsQuiet
<1> QED
  BY <1>1, Invariance, PTL

----------------------------------------------------------------------------
\* How a run ends.

\* A boundary that is passed fails the workflow only by throwing, and returns
\* a task as passed only after a review that passed it.
LEMMA AfterOutcome ==
  ASSUME NEW p, NEW v, After(p, v)
  PROVE  /\ status' = "failed" /\ status # "failed" =>
              pc' = "returned" /\ result' = "thrown"
         /\ status' = status \/ status' \in {"failed", "validating", "reviewing", "repairing"}
         /\ pc' = "returned" => result' \in {"passed", "rejected", "thrown"}
         /\ result' = "passed" /\ result # "passed" => v = "passed"
  BY DEF After, NotPassed, Enter, Throw, Return, At

\* While the coroutine is at work nothing has ended.
LEMMA NothingEnded ==
  ASSUME IInv, OutcomePart, pc # "idle"
  PROVE  terminalResult = "none" /\ failed = {} /\ status # "completed"
  BY DEF OutcomePart, OutcomeIsDelivered, FailureIsRecorded, StatusIsEarned

\* Where it works and does not wait, no permission is outstanding and the
\* workflow has not failed.
LEMMA WorkingFacts ==
  ASSUME IInv, OutcomePart, pc \notin {"idle", "returned"}, wait # "permission"
  PROVE  /\ answer = "none"
         /\ status \notin {"failed", "completed", "waiting_for_permission"}
  BY DEF OutcomePart, StatusIsEarned

\* A step of the coroutine within a task, from what it does to the status, the
\* pause request and the verdict.
LEMMA PipelineKeeps ==
  ASSUME IInv, OutcomePart, pc # "idle", pc' # "idle",
         UNCHANGED <<terminalResult, failed, completed, task, signal>>,
         StatusIsEarned', RequestsAreLive', VerdictsFollowExecution'
  PROVE  OutcomePart'
<1>1. terminalResult' = "none" /\ failed' = {}
  BY NothingEnded
<1> QED
  BY <1>1 DEF OutcomePart, OutcomeIsDelivered, FailureIsRecorded

\* A step of the coroutine within a task keeps what is said of the end of a run.
LEMMA PipelineOutcome == IInv /\ OutcomePart /\ Pipeline => OutcomePart'
<1> SUFFICES ASSUME IInv, OutcomePart, Pipeline PROVE OutcomePart'
  OBVIOUS
<1> USE DEF Outside, record, engine
<1>1. TypeOK /\ Stage /\ PausedAtGate /\ LoopGone
  BY DEF IInv, ControlPart
<1>2. /\ StatusIsEarned /\ RequestsAreLive /\ VerdictsFollowExecution
  BY DEF OutcomePart
<1>3. UNCHANGED <<terminalResult, failed, completed, task, signal>>
  BY DEF Pipeline, ExecutorCompletes, ExecutorEnds, ExecutorThrows, Checkpoint,
     ValidationReturns, ReviewReturns, StageThrows, RepairReturns, AskPermission,
     PermissionAnswered, FingerprintTaken, GatePassed
\* Throw.
<1>thrown. ASSUME Throw, answer' = "none", pc # "idle",
                  status \notin {"completed", "waiting_for_permission"},
                  UNCHANGED pauseRequested, VerdictsFollowExecution'
           PROVE  OutcomePart'
  <2>1. /\ pc' = "returned" /\ wait' = "none" /\ result' = "thrown"
        /\ status' \in {status, "failed"}
    BY <1>thrown, ThrowEffect
  <2>2. StatusIsEarned' /\ RequestsAreLive'
    BY <1>2, <1>thrown, <2>1 DEF StatusIsEarned, RequestsAreLive
  <2> QED
    BY <1>3, <1>thrown, <2>1, <2>2, PipelineKeeps
\* A pause is taken.
<1>held. ASSUME pc # "idle", pc' # "idle", status' = "paused", pauseRequested' = FALSE,
                answer' = "none", VerdictsFollowExecution'
         PROVE  OutcomePart'
  <2>1. StatusIsEarned' /\ RequestsAreLive'
    BY <1>held DEF StatusIsEarned, RequestsAreLive
  <2> QED
    BY <1>3, <1>held, <2>1, PipelineKeeps
\* A boundary is passed, taking the pause or not.
<1>after. ASSUME NEW p, NEW v, After(p, v), UNCHANGED pauseRequested,
                 pc # "idle", answer' = "none",
                 status \notin {"failed", "completed", "waiting_for_permission"},
                 VerdictsFollowExecution'
          PROVE  OutcomePart'
  <2>1. /\ pc' \in {"validating", "reviewing", "repairing", "returned"}
        /\ wait' = "none"
    BY <1>after, AfterEffect
  <2>2. StatusIsEarned' /\ RequestsAreLive'
    BY <1>2, <1>after, <2>1, AfterOutcome DEF StatusIsEarned, RequestsAreLive
  <2> QED
    BY <1>3, <1>after, <2>1, <2>2, PipelineKeeps
<1>boundary. ASSUME NEW p \in {"executed", "validated", "reviewed"}, NEW v, Boundary(p, v),
                    pc \notin {"idle", "returned"}, wait = "none", UNCHANGED answer,
                    VerdictsFollowExecution'
             PROVE  OutcomePart'
  <2>1. /\ answer' = "none"
        /\ status \notin {"failed", "completed", "waiting_for_permission"}
    BY <1>boundary, WorkingFacts
  <2>2. CASE Hold(p)
    BY <1>boundary, <1>held, <2>1, <2>2 DEF Hold, At
  <2>3. CASE After(p, v) /\ UNCHANGED pauseRequested
    BY <1>boundary, <1>after, <2>1, <2>3
  <2> QED
    BY <1>boundary, <2>2, <2>3 DEF Boundary
\* The pipeline returns a result.
<1>return. ASSUME NEW r, Return(r), answer' = "none", pc # "idle",
                  status \notin {"completed", "waiting_for_permission"},
                  status = "failed" => r # "passed" /\ (r = "aborted" => signal),
                  UNCHANGED pauseRequested, VerdictsFollowExecution'
           PROVE  OutcomePart'
  <2>1. pc' = "returned" /\ wait' = "none" /\ result' = r /\ status' = status
    BY <1>return DEF Return, At
  <2>2. StatusIsEarned' /\ RequestsAreLive'
    BY <1>2, <1>3, <1>return, <2>1 DEF StatusIsEarned, RequestsAreLive
  <2> QED
    BY <1>3, <1>return, <2>1, <2>2, PipelineKeeps
\* Verdicts: the store is left alone, or the attempt ends and none was given.
<1>verdicts. ASSUME UNCHANGED <<exec, verdict>> \/ (pc = "executing" /\ UNCHANGED verdict)
                      \/ (UNCHANGED exec /\ pc \in {"validating", "reviewing"})
             PROVE  VerdictsFollowExecution'
  BY <1>1, <1>2, <1>3, <1>verdicts DEF VerdictsFollowExecution, Stage
<1>4. CASE ExecutorCompletes
  BY <1>4, <1>boundary, <1>verdicts DEF ExecutorCompletes, Working
<1>5. ASSUME NEW o \in {"completed", "failed"}, ExecutorEnds(o) PROVE OutcomePart'
  <2>1. /\ answer' = "none" /\ pc = "executing"
        /\ status \notin {"failed", "completed", "waiting_for_permission"}
    BY <1>5, WorkingFacts DEF ExecutorEnds, Working
  <2> QED
    BY <1>5, <1>return, <1>verdicts, <2>1 DEF ExecutorEnds
<1>6. CASE ExecutorThrows
  <2>1. /\ answer' = "none" /\ pc = "executing"
        /\ status \notin {"failed", "completed", "waiting_for_permission"}
    BY <1>6, WorkingFacts DEF ExecutorThrows, Working
  <2> QED
    BY <1>6, <1>thrown, <1>verdicts, <2>1 DEF ExecutorThrows
<1>7. CASE Checkpoint
  <2>1. answer' = "none" /\ pc \in {"executing", "repairing"}
    BY <1>7, WorkingFacts DEF Checkpoint, Working
  <2> QED
    BY <1>7, <1>held, <1>verdicts, <2>1 DEF Checkpoint, Hold, At
<1>8. ASSUME NEW v \in {"passed", "failed"}, ValidationReturns(v) \/ ReviewReturns(v)
      PROVE  OutcomePart'
  <2>1. /\ pc \in {"validating", "reviewing"} /\ wait = "none" /\ UNCHANGED <<answer, exec>>
        /\ Boundary("validated", v) \/ Boundary("reviewed", v)
    BY <1>8 DEF ValidationReturns, ReviewReturns, Working
  <2> QED
    BY <1>boundary, <1>verdicts, <2>1
<1>9. CASE StageThrows
  <2>1. /\ answer' = "none" /\ pc \in {"validating", "reviewing", "repairing"}
        /\ status \notin {"failed", "completed", "waiting_for_permission"}
    BY <1>9, WorkingFacts DEF StageThrows, Working
  <2> QED
    BY <1>9, <1>thrown, <1>verdicts, <2>1 DEF StageThrows
<1>10. ASSUME NEW r \in {"passed", "failed", "rejected", "aborted"}, RepairReturns(r)
       PROVE  OutcomePart'
  <2>1. /\ answer' = "none" /\ pc = "repairing"
        /\ status \notin {"failed", "completed", "waiting_for_permission"}
    BY <1>10, WorkingFacts DEF RepairReturns, Working
  <2> QED
    BY <1>10, <1>return, <1>verdicts, <2>1 DEF RepairReturns
<1>11. CASE AskPermission
  <2>1. /\ answer = "none" /\ pc \in {"executing", "repairing"} /\ UNCHANGED pauseRequested
        /\ status \notin {"failed", "completed", "waiting_for_permission"}
        /\ UNCHANGED verdict
    BY <1>11, WorkingFacts DEF AskPermission, Working
  <2>2. CASE Legal(status, "waiting_for_permission")
    <3>1. /\ status' = "waiting_for_permission" /\ answer' = "waiting" /\ pc' = pc
          /\ wait' = "permission" /\ UNCHANGED exec
      BY <1>11, <2>2 DEF AskPermission, At
    <3>2. StatusIsEarned' /\ RequestsAreLive' /\ VerdictsFollowExecution'
      BY <1>verdicts, <2>1, <3>1 DEF StatusIsEarned, RequestsAreLive
    <3> QED
      BY <1>3, <2>1, <3>1, <3>2, PipelineKeeps
  <2>3. CASE ~Legal(status, "waiting_for_permission") /\ pc = "executing"
    BY <1>11, <1>thrown, <1>verdicts, <2>1, <2>3 DEF AskPermission
  <2>4. CASE ~Legal(status, "waiting_for_permission") /\ pc # "executing"
    BY <1>11, <1>return, <1>verdicts, <2>1, <2>4 DEF AskPermission
  <2> QED
    BY <2>2, <2>3, <2>4
<1>12. CASE PermissionAnswered
  <2>1. /\ pc \in {"executing", "repairing"} /\ answer' = "none" /\ UNCHANGED pauseRequested
        /\ status \notin {"completed", "waiting_for_permission"}
        /\ UNCHANGED verdict
    BY <1>1, <1>2, <1>12 DEF PermissionAnswered, Stage, StatusIsEarned
  <2>2. CASE answer = "deny" /\ pc = "executing"
    BY <1>12, <1>thrown, <1>verdicts, <2>1, <2>2 DEF PermissionAnswered
  <2>3. CASE answer = "allow"
    <3>1. status # "failed" /\ UNCHANGED <<status, exec>> /\ pc' = pc
      BY <1>2, <1>12, <2>1, <2>3 DEF PermissionAnswered, Continue, At, StatusIsEarned
    <3>2. StatusIsEarned' /\ RequestsAreLive' /\ VerdictsFollowExecution'
      BY <1>2, <1>verdicts, <2>1, <3>1 DEF StatusIsEarned, RequestsAreLive
    <3> QED
      BY <1>3, <2>1, <3>1, <3>2, PipelineKeeps
  <2>4. CASE answer = "deny" /\ pc = "repairing"
    BY <1>12, <1>return, <1>verdicts, <2>1, <2>4 DEF PermissionAnswered
  <2> QED
    BY <1>12, <2>1, <2>2, <2>3, <2>4 DEF PermissionAnswered
<1>13. CASE FingerprintTaken
  <2>1. /\ wait = "fingerprint" /\ pc \notin {"idle", "returned"} /\ pc' = pc
        /\ wait' = "gate" /\ UNCHANGED <<status, pauseRequested, answer, exec, verdict, result>>
    BY <1>1, <1>13 DEF FingerprintTaken, Stage, At
  <2>2. StatusIsEarned' /\ RequestsAreLive' /\ VerdictsFollowExecution'
    BY <1>2, <1>3, <1>verdicts, <2>1 DEF StatusIsEarned, RequestsAreLive
  <2> QED
    BY <1>3, <2>1, <2>2, PipelineKeeps
<1>14. CASE GatePassed
  <2>1. /\ pc \in {"executing", "executed", "validated", "reviewed", "repairing"}
        /\ UNCHANGED <<pauseRequested, verdict>> /\ answer' = "none"
        /\ status \notin {"failed", "completed", "waiting_for_permission"}
    BY <1>1, <1>14, WorkingFacts DEF GatePassed, Stage
  <2>2. CASE pc = "executing" /\ signal
    BY <1>14, <1>thrown, <1>verdicts, <2>1, <2>2 DEF GatePassed
  <2>3. CASE ~(pc = "executing" /\ signal) /\ pc \in {"executing", "repairing"}
    <3>1. UNCHANGED <<status, exec>> /\ pc' = pc
      BY <1>14, <2>3 DEF GatePassed, Continue, At
    <3>2. StatusIsEarned' /\ RequestsAreLive' /\ VerdictsFollowExecution'
      BY <1>2, <1>verdicts, <2>1, <3>1 DEF StatusIsEarned, RequestsAreLive
    <3> QED
      BY <1>3, <2>1, <3>1, <3>2, PipelineKeeps
  <2>4. CASE pc \notin {"executing", "repairing"}
    <3>1. After(pc, verdict) /\ UNCHANGED exec
      BY <1>14, <2>4 DEF GatePassed
    <3> QED
      BY <1>after, <1>verdicts, <2>1, <3>1
  <2> QED
    BY <2>2, <2>3, <2>4
<1> QED
  BY <1>4, <1>5, <1>6, <1>7, <1>8, <1>9, <1>10, <1>11, <1>12, <1>13, <1>14 DEF Pipeline

\* The loop from its top, from a state in which nothing has ended.
LEMMA AdvanceOutcome ==
  ASSUME IInv, IInv', VerdictsFollowExecution, answer' = "none",
         terminalResult = "none", failed' = {},
         NEW s \in RunStatuses \ {"approved", "failed", "completed", "waiting_for_permission"},
         NEW p \in BOOLEAN, p => s # "aborted", completed' = Tasks => ~p,
         NEW cs, Advance(s, p, completed', cs)
  PROVE  OutcomePart'
<1> USE DEF store, record
<1> DEFINE Told(o) == /\ pc' = "idle" /\ status' = o /\ terminalResult' = o
                       /\ calls' = Published(cs, o)
<1>published. ASSUME NEW o \in Terminal, Told(o) PROVE OutcomeIsDelivered'
  <2>1. \A c \in Callers : calls'[c] # "waiting"
    BY <1>published DEF Published, Terminal
  <2> QED
    BY <1>published, <2>1 DEF OutcomeIsDelivered
<1>verdict. ASSUME UNCHANGED <<exec, task, verdict>> PROVE VerdictsFollowExecution'
  BY <1>verdict DEF VerdictsFollowExecution
<1>1. CASE completed' = Tasks
  <2>1. /\ UNCHANGED <<exec, task, verdict>> /\ pauseRequested' = FALSE
        /\ pc' = "idle"
        /\ \/ Told("completed")
           \/ status' = s /\ ~Legal(s, "completed") /\ terminalResult' = "none"
    BY <1>1 DEF Advance, Conclude, Crash, At
  <2>2. OutcomeIsDelivered'
    BY <1>published, <2>1 DEF OutcomeIsDelivered, Terminal
  <2>3. StatusIsEarned' /\ RequestsAreLive' /\ FailureIsRecorded'
    BY <1>1, <2>1 DEF StatusIsEarned, RequestsAreLive, FailureIsRecorded
  <2> QED
    BY <1>verdict, <2>1, <2>2, <2>3 DEF OutcomePart
<1>2. CASE completed' # Tasks /\ (signal' \/ s = "aborted")
  <2>1. s = "aborted" \/ Legal(s, "aborted")
    BY LegalFacts DEF Terminal
  <2>2. /\ UNCHANGED <<exec, task, verdict>> /\ Told("aborted")
        /\ pauseRequested' = FALSE
    BY <1>2, <2>1 DEF Advance, AbortRun, Conclude, At
  <2>3. OutcomeIsDelivered'
    BY <1>published, <2>2 DEF Terminal
  <2>4. StatusIsEarned' /\ RequestsAreLive' /\ FailureIsRecorded'
    BY <2>2 DEF StatusIsEarned, RequestsAreLive, FailureIsRecorded
  <2> QED
    BY <1>verdict, <2>2, <2>3, <2>4 DEF OutcomePart
<1>3. CASE completed' # Tasks /\ ~(signal' \/ s = "aborted") /\ (p \/ s = "paused")
  <2>1. /\ UNCHANGED <<exec, task, verdict, terminalResult>> /\ pc' = "top"
        /\ status' = "paused" /\ pauseRequested' = FALSE
    BY <1>3 DEF Advance, Hold, At
  <2>2. StatusIsEarned' /\ RequestsAreLive' /\ FailureIsRecorded' /\ OutcomeIsDelivered'
    BY <2>1 DEF StatusIsEarned, RequestsAreLive, FailureIsRecorded, OutcomeIsDelivered
  <2> QED
    BY <1>verdict, <2>1, <2>2 DEF OutcomePart
<1>4. CASE completed' # Tasks /\ ~(signal' \/ s = "aborted") /\ ~(p \/ s = "paused")
  <2>1. /\ verdict' = "none" /\ pauseRequested' = FALSE /\ UNCHANGED terminalResult
        /\ \/ status' = "executing" /\ pc' = "executing"
           \/ status' \in {"running", "failed"} /\ pc' = "returned" /\ result' = "thrown"
    BY <1>4 DEF Advance, StartTask, At
  <2>2. StatusIsEarned' /\ RequestsAreLive' /\ FailureIsRecorded' /\ OutcomeIsDelivered'
    BY <2>1 DEF StatusIsEarned, RequestsAreLive, FailureIsRecorded, OutcomeIsDelivered
  <2> QED
    BY <2>1, <2>2 DEF OutcomePart, VerdictsFollowExecution
<1> QED
  BY <1>1, <1>2, <1>3, <1>4

\* A task is settled, or the loop continues from the gate at its top.
LEMMA LoopOutcome == IInv /\ IInv' /\ OutcomePart /\ Loop => OutcomePart'
<1> SUFFICES ASSUME IInv, IInv', OutcomePart, Loop PROVE OutcomePart'
  OBVIOUS
<1> USE DEF store, record, ledger
<1>1. TypeOK /\ Stage /\ PausedAtGate /\ LoopGone
  BY DEF IInv, ControlPart
<1>2. StatusIsEarned /\ RequestsAreLive /\ VerdictsFollowExecution
  BY DEF OutcomePart
<1>3. pc \in {"top", "returned"} /\ wait # "permission" /\ UNCHANGED <<answer, signal>>
  BY <1>1 DEF Loop, LoopContinues, SettleThrown, SettleAborted, SettleFailed,
     SettlePassed, Stage
<1>4. /\ terminalResult = "none" /\ failed = {} /\ answer' = "none"
      /\ status \in RunStatuses \ {"approved", "completed", "waiting_for_permission"}
  BY <1>1, <1>2, <1>3, NothingEnded DEF StatusIsEarned, LoopGone, TypeOK
\* The run is over, with or without telling.
<1>ends. ASSUME UNCHANGED <<exec, task, verdict>>, pc' = "idle", status' \in Terminal,
                status' # "completed",
                Conclude(status', calls) \/ UNCHANGED terminalResult,
                pauseRequested' => status' # "aborted",
                failed' = {task} \/ (failed' = {} /\ (status' = "failed" => signal))
         PROVE  OutcomePart'
  <2>1. StatusIsEarned' /\ RequestsAreLive' /\ FailureIsRecorded'
    BY <1>3, <1>4, <1>ends
       DEF StatusIsEarned, RequestsAreLive, FailureIsRecorded, Terminal
  <2>2. CASE Conclude(status', calls)
    <3>1. \A c \in Callers : calls'[c] # "waiting"
      BY <1>ends, <2>2 DEF Conclude, Published, Terminal
    <3>2. OutcomeIsDelivered'
      BY <1>ends, <2>2, <3>1 DEF OutcomeIsDelivered, Conclude
    <3> QED
      BY <1>2, <1>ends, <2>1, <3>2 DEF OutcomePart, VerdictsFollowExecution
  <2>3. CASE UNCHANGED terminalResult
    BY <1>2, <1>4, <1>ends, <2>1, <2>3
       DEF OutcomePart, VerdictsFollowExecution, OutcomeIsDelivered
  <2> QED
    BY <1>ends, <2>2, <2>3
<1>5. CASE LoopContinues
  <2>1. /\ Advance(status, pauseRequested, completed', calls) /\ completed' # Tasks
        /\ status # "failed" /\ failed' = {}
    BY <1>2, <1>4, <1>5
       DEF LoopContinues, StatusIsEarned, IInv, TaskPart, BetweenTasks
  <2>2. pauseRequested => status # "aborted"
    BY <1>2 DEF RequestsAreLive
  <2>3. pauseRequested \in BOOLEAN
    BY <1>1 DEF TypeOK
  <2>4. status \in RunStatuses \ {"approved", "failed", "completed", "waiting_for_permission"}
    BY <1>4, <2>1
  <2> QED
    BY <1>2, <1>4, <2>1, <2>2, <2>3, <2>4, AdvanceOutcome
<1>6. CASE SettleThrown
  <2>1. /\ UNCHANGED <<exec, task, verdict>> /\ Conclude("failed", calls)
        /\ failed' = {task}
    BY <1>4, <1>6 DEF SettleThrown
  <2> QED
    BY <1>ends, <2>1 DEF Conclude, At, Terminal
<1>7. CASE SettleAborted
  <2>1. /\ UNCHANGED <<exec, task, verdict>> /\ failed' = {}
        /\ AbortRun(status, pauseRequested, calls)
    BY <1>4, <1>7 DEF SettleAborted
  <2>2. CASE status = "aborted" \/ Legal(status, "aborted")
    <3>1. Conclude("aborted", calls) /\ pauseRequested' = FALSE
      BY <1>1, <1>2, <2>1, <2>2 DEF AbortRun, RequestsAreLive, TypeOK
    <3> QED
      BY <1>ends, <2>1, <3>1 DEF Conclude, At, Terminal
  <2>3. CASE ~(status = "aborted" \/ Legal(status, "aborted"))
    <3>1. status' = "failed" /\ pc' = "idle" /\ UNCHANGED terminalResult
      BY <1>4, <2>1, <2>3, LegalFacts DEF AbortRun, Crash, At, Terminal
    <3>2. signal
      BY <1>2, <1>4, <1>7, <2>1, <2>3, <3>1
         DEF SettleAborted, StatusIsEarned, AbortRun, Crash
    <3> QED
      BY <1>ends, <2>1, <3>1, <3>2 DEF Terminal
  <2> QED
    BY <2>2, <2>3
<1>8. CASE SettleFailed
  <2>1. /\ UNCHANGED <<exec, task, verdict, pauseRequested>> /\ failed' = {task}
        /\ IF Legal(status, "failed") THEN Conclude("failed", calls)
                                      ELSE Crash(status, calls)
    BY <1>4, <1>8 DEF SettleFailed
  <2>2. CASE Legal(status, "failed")
    BY <1>ends, <2>1, <2>2 DEF Conclude, At, Terminal
  <2>3. CASE ~Legal(status, "failed")
    <3>1. status # "paused"
      BY <1>1, <1>8 DEF PausedAtGate, SettleFailed, Stage
    <3>2. /\ status' \in Terminal /\ status' # "completed" /\ status' = status
          /\ pc' = "idle" /\ UNCHANGED terminalResult
      BY <1>4, <2>1, <2>3, <3>1, LegalFacts DEF Crash, At, Terminal
    <3> QED
      BY <1>2, <1>ends, <2>1, <3>2 DEF RequestsAreLive
  <2> QED
    BY <2>2, <2>3
<1>9. CASE SettlePassed
  <2>1. status # "failed" /\ failed' = {}
    BY <1>2, <1>4, <1>9, <1>3 DEF SettlePassed, StatusIsEarned
  <2>2. CASE Legal(status, "running")
    <3> DEFINE s == IF pauseRequested THEN "paused" ELSE "running"
    <3>1. Advance(s, FALSE, completed', calls)
      BY <1>9, <2>2 DEF SettlePassed
    <3>2. s \in RunStatuses \ {"approved", "failed", "completed", "waiting_for_permission"}
      BY DEF RunStatuses, Pausable
    <3> HIDE DEF s
    <3> QED
      BY <1>2, <1>4, <2>1, <3>1, <3>2, AdvanceOutcome
  <2>3. CASE ~Legal(status, "running")
    <3>1. /\ UNCHANGED <<exec, task, verdict, pauseRequested>> /\ status' = status
          /\ pc' = "idle" /\ UNCHANGED terminalResult
      BY <1>9, <2>3 DEF SettlePassed, Crash, At
    <3>2. status' = "aborted"
      BY <1>4, <2>1, <2>3, <3>1, LegalFacts DEF Terminal
    <3> QED
      BY <1>2, <1>ends, <2>1, <3>1, <3>2 DEF RequestsAreLive, Terminal
  <2> QED
    BY <2>2, <2>3
<1> QED
  BY <1>5, <1>6, <1>7, <1>8, <1>9 DEF Loop

\* A client's call, and the rest of it after its await.
LEMMA CallOutcome ==
  ASSUME IInv, IInv', OutcomePart, NEW c \in Callers, Call(c)
  PROVE  OutcomePart'
<1> USE DEF engine, store, record, ledger, coroutine
<1>1. TypeOK /\ Stage /\ TaskPart /\ LoopGone
  BY DEF IInv, ControlPart
<1>2. /\ StatusIsEarned /\ RequestsAreLive /\ VerdictsFollowExecution
      /\ FailureIsRecorded /\ OutcomeIsDelivered
  BY DEF OutcomePart
<1>idle. ASSUME pc = "idle" PROVE answer = "none"
  BY <1>1, <1>2, <1>idle DEF StatusIsEarned, Stage
<1>live. ASSUME status \notin Terminal PROVE terminalResult = "none" /\ failed = {}
  BY <1>1, <1>2, <1>live DEF OutcomeIsDelivered, FailureIsRecorded, TypeOK
<1>3. CASE RunApprovedPlan(c) \/ (ResumeContinues(c) /\ pc = "idle")
  <2>1. PICK p \in BOOLEAN : /\ Advance("running", p, completed', Subscribed(c))
                             /\ completed' = Tasks => ~p
    <3>1. CASE RunApprovedPlan(c)
      <4>1. completed' = {}
        BY <1>1, <3>1 DEF RunApprovedPlan, LoopGone, TaskPart, PassedAreExecuted, TypeOK,
           Started
      <4> QED
        BY <1>1, <3>1, <4>1, GraphAssumption DEF RunApprovedPlan, TypeOK
    <3>2. CASE ResumeContinues(c) /\ pc = "idle"
      BY <3>2 DEF ResumeContinues
    <3> QED
      BY <1>3, <3>1, <3>2
  <2>2. status \notin Terminal /\ pc = "idle" /\ UNCHANGED <<answer, failed>>
    BY <1>1, <1>3, LegalFacts DEF RunApprovedPlan, ResumeContinues, LoopGone, TypeOK,
       Terminal
  <2>3. answer' = "none" /\ terminalResult = "none" /\ failed' = {}
    BY <1>idle, <1>live, <2>2
  <2> DEFINE s == "running"
  <2>4. /\ s \in RunStatuses \ {"approved", "failed", "completed", "waiting_for_permission"}
        /\ s # "aborted" /\ Advance(s, p, completed', Subscribed(c))
    BY <2>1 DEF RunStatuses, Pausable
  <2> HIDE DEF s
  <2> QED
    BY <1>2, <2>1, <2>3, <2>4, AdvanceOutcome
<1>4. CASE ResumeContinues(c) /\ pc # "idle"
  <2>1. /\ UNCHANGED <<exec, task, verdict, terminalResult, failed, signal, answer, wait, pc>>
        /\ status' = "running" /\ pauseRequested' = FALSE
    BY <1>4 DEF ResumeContinues
  <2>2. terminalResult = "none" /\ failed = {}
    BY <1>4, NothingEnded
  <2> QED
    BY <1>2, <2>1, <2>2
       DEF OutcomePart, StatusIsEarned, RequestsAreLive, VerdictsFollowExecution,
           FailureIsRecorded, OutcomeIsDelivered
<1>5. CASE ResumeWorkflow(c) \/ ResumeRefused(c) \/ RetryExecution(c) \/ RetryRefused(c)
  <2>1. /\ UNCHANGED <<status, pauseRequested, exec, task, verdict, terminalResult, failed,
                       signal, answer, wait, pc, result, completed>>
        /\ \A d \in Callers : calls'[d] = "waiting" => calls[d] = "waiting"
    BY <1>1, <1>5 DEF ResumeWorkflow, ResumeRefused, RetryExecution, RetryRefused, TypeOK
  <2> QED
    BY <1>2, <2>1
       DEF OutcomePart, StatusIsEarned, RequestsAreLive, VerdictsFollowExecution,
           FailureIsRecorded, OutcomeIsDelivered
<1>6. CASE RetryContinues(c)
  <2>1. /\ verdict' = "none" /\ pauseRequested' = FALSE /\ terminalResult' = "none"
        /\ failed' = {} /\ answer' = "none"
        /\ \/ status' = "executing" /\ pc' = "executing"
           \/ status' \in {"running", "failed"} /\ pc' = "returned" /\ result' = "thrown"
    BY <1>6, <1>idle DEF RetryContinues, StartTask, At
  <2> QED
    BY <2>1
       DEF OutcomePart, StatusIsEarned, RequestsAreLive, VerdictsFollowExecution,
           FailureIsRecorded, OutcomeIsDelivered
<1>7. ASSUME NEW d \in {"allow", "deny"}, ResolvePermission(c, d) PROVE OutcomePart'
  <2>1. /\ UNCHANGED <<exec, task, verdict, terminalResult, failed, signal, wait, pc, result>>
        /\ status = "waiting_for_permission" /\ answer' = d
        /\ \/ status' = "running" /\ pauseRequested' = FALSE
           \/ status' = "failed" /\ d = "deny"
    BY <1>7 DEF ResolvePermission
  <2>2. wait = "permission" /\ pc \in {"executing", "repairing"}
    BY <1>1, <1>2, <2>1 DEF StatusIsEarned, Stage
  <2>3. terminalResult = "none" /\ failed = {}
    BY <2>2, NothingEnded
  <2> QED
    BY <1>2, <2>1, <2>2, <2>3
       DEF OutcomePart, StatusIsEarned, RequestsAreLive, VerdictsFollowExecution,
           FailureIsRecorded, OutcomeIsDelivered
<1> QED
  BY <1>3, <1>4, <1>5, <1>6, <1>7 DEF Call

\* An abort, by call or by the caller's signal, a pause request, or nothing.
LEMMA RequestOutcome ==
  ASSUME IInv, OutcomePart,
         AbortWorkflow \/ CallerAborts \/ PauseWorkflow \/ UNCHANGED vars
  PROVE  OutcomePart'
<1> USE DEF engine, store, record, ledger, coroutine, clients
<1>1. /\ StatusIsEarned /\ RequestsAreLive /\ VerdictsFollowExecution
      /\ FailureIsRecorded /\ OutcomeIsDelivered /\ TypeOK
  BY DEF OutcomePart, IInv
<1>2. CASE AbortWorkflow
  <2>1. /\ UNCHANGED <<exec, task, verdict, terminalResult, failed, wait, pc, result,
                       completed, calls>>
        /\ signal \/ status # "approved" => signal'
        /\ answer' = Denied
    BY <1>2 DEF AbortWorkflow
  <2>2. CASE Legal(status, "aborted")
    <3>1. status \notin Terminal
      BY <2>2 DEF Legal, Transitions, Statuses, Terminal
    <3>2. terminalResult = "none" /\ failed = {}
      BY <1>1, <3>1 DEF OutcomeIsDelivered, FailureIsRecorded, TypeOK
    <3>3. status' = "aborted" /\ pauseRequested' = FALSE
      BY <1>2, <2>2 DEF AbortWorkflow
    <3> QED
      BY <1>1, <2>1, <3>2, <3>3
         DEF OutcomePart, StatusIsEarned, RequestsAreLive, VerdictsFollowExecution,
             FailureIsRecorded, OutcomeIsDelivered, Denied
  <2>3. CASE ~Legal(status, "aborted")
    <3>1. UNCHANGED <<status, pauseRequested>> /\ status \in Terminal
      BY <1>1, <1>2, <2>3, LegalFacts DEF AbortWorkflow, TypeOK
    <3>2. Denied # "none" => answer # "none"
      BY DEF Denied
    <3>3. status = "failed" => signal'
      BY <2>1
    <3>4. answer = "deny" => Denied = "deny"
      BY DEF Denied
    <3>5. StatusIsEarned'
      BY <1>1, <2>1, <3>1, <3>2, <3>3, <3>4 DEF StatusIsEarned, Terminal
    <3>6. RequestsAreLive' /\ VerdictsFollowExecution' /\ OutcomeIsDelivered'
      BY <1>1, <2>1, <3>1 DEF RequestsAreLive, VerdictsFollowExecution, OutcomeIsDelivered
    <3>7. FailureIsRecorded'
      BY <1>1, <2>1, <3>1, <3>3 DEF FailureIsRecorded
    <3> QED
      BY <3>5, <3>6, <3>7 DEF OutcomePart
  <2> QED
    BY <2>2, <2>3
<1>3. CASE CallerAborts
  <2>1. /\ UNCHANGED <<status, pauseRequested, exec, task, verdict, terminalResult, failed,
                       answer, wait, pc, result, completed, calls>>
        /\ signal' = TRUE
    BY <1>3 DEF CallerAborts
  <2> QED
    BY <1>1, <2>1
       DEF OutcomePart, StatusIsEarned, RequestsAreLive, VerdictsFollowExecution,
           FailureIsRecorded, OutcomeIsDelivered
<1>4. CASE PauseWorkflow \/ UNCHANGED vars
  <2>1. /\ UNCHANGED <<status, exec, task, verdict, terminalResult, failed, signal,
                       answer, wait, pc, result, completed, calls>>
        /\ pauseRequested' = pauseRequested \/ status \in Pausable
    BY <1>4 DEF PauseWorkflow, vars
  <2> QED
    BY <1>1, <2>1
       DEF OutcomePart, StatusIsEarned, RequestsAreLive, VerdictsFollowExecution,
           FailureIsRecorded, OutcomeIsDelivered, Pausable
<1> QED
  BY <1>2, <1>3, <1>4

\* The whole invariant holds throughout every run.
THEOREM FullInvariance == Spec => []FullInv
<1>1. Init => FullInv
  <2> SUFFICES ASSUME Init PROVE OutcomePart
    BY Initial DEF FullInv
  <2> QED
    BY DEF Init, OutcomePart, StatusIsEarned, RequestsAreLive, VerdictsFollowExecution,
       FailureIsRecorded, OutcomeIsDelivered
<1>2. FullInv /\ [Next]_vars => FullInv'
  <2> SUFFICES ASSUME FullInv, [Next]_vars PROVE FullInv'
    OBVIOUS
  <2>1. IInv /\ IInv' /\ OutcomePart
    BY Inductive DEF FullInv
  <2>2. OutcomePart'
    <3>1. CASE Pipeline
      BY <2>1, <3>1, PipelineOutcome
    <3>2. CASE Loop
      BY <2>1, <3>2, LoopOutcome
    <3>3. CASE \E c \in Callers : Call(c)
      BY <2>1, <3>3, CallOutcome
    <3>4. CASE AbortWorkflow \/ CallerAborts \/ PauseWorkflow \/ UNCHANGED vars
      BY <2>1, <3>4, RequestOutcome
    <3> QED
      BY <3>1, <3>2, <3>3, <3>4 DEF Next, Scheduled, Client, Call
  <2> QED
    BY <2>1, <2>2 DEF FullInv
<1> QED
  BY <1>1, <1>2, PTL DEF Spec

\* Whoever subscribed to a run is told how it ended, and told what the engine
\* stores: no call waits once finishRuntime has recorded an outcome.
THEOREM EveryoneIsTold == Spec => []OutcomeIsDelivered
<1>1. FullInv => OutcomeIsDelivered
  BY DEF FullInv, OutcomePart
<1> QED
  BY <1>1, FullInvariance, PTL

\* What executionRetry offers is the attempt the run stopped at, which no
\* validation has seen, and the loop selects it again (retryWorkflowExecution).
THEOREM RetryIsNext == Spec => []RetryableIsNext
<1>1. FullInv => RetryableIsNext
  <2> SUFFICES ASSUME FullInv, CanRetry, pc = "idle"
               PROVE  /\ retryable = task /\ verdict = "none" /\ failed = {retryable}
                      /\ IsFirst(retryable, ReadyTasks(completed))
                      /\ CanBegin(exec, retryable)
    BY DEF RetryableIsNext
  <2>1. /\ TypeOK /\ TaskPart /\ FailureIsRecorded /\ VerdictsFollowExecution
    BY DEF FullInv, IInv, OutcomePart
  <2>2. retryable \in Tasks \ completed /\ exec[retryable] = "failed"
    BY <2>1 DEF CanRetry, TypeOK
  <2>3. retryable = task
    BY <2>1, <2>2 DEF TaskPart, OneTaskAtATime, Started
  <2>4. verdict = "none" /\ failed = {retryable}
    BY <2>1, <2>2, <2>3 DEF VerdictsFollowExecution, FailureIsRecorded, CanRetry
  <2>5. IsFirst(retryable, ReadyTasks(completed))
    BY <2>1, <2>2, <2>3 DEF TaskPart, Selection
  <2>6. Deps[retryable] \subseteq CompletedIn(exec)
    BY <2>1, <2>2 DEF TaskPart, StartedTasksHaveDependencies, PassedAreExecuted, Started,
       CompletedIn, TypeOK
  <2>7. CanBegin(exec, retryable)
    BY <2>2, <2>6 DEF CanBegin, CanTransition, TaskTransitions, TaskStatuses, IsReady,
       CompletedIn
  <2> QED
    BY <2>3, <2>4, <2>5, <2>7
<1> QED
  BY <1>1, FullInvariance, PTL

----------------------------------------------------------------------------
\* What a step does to the status and to what has passed.

\* The loop from its top: the status it leaves, and the result it has.
LEMMA AdvanceEffect ==
  ASSUME NEW s, NEW p, NEW done, NEW cs, Advance(s, p, done, cs)
  PROVE  /\ status' \in {s, "completed", "aborted", "paused", "executing", "running", "failed"}
         /\ s = "aborted" /\ done # Tasks => status' = "aborted"
         /\ result' = result \/ result' \in {"none", "thrown"}
<1>1. CASE done = Tasks
  BY <1>1 DEF Advance, Conclude, Crash
<1>2. CASE done # Tasks /\ (signal' \/ s = "aborted")
  BY <1>2 DEF Advance, AbortRun, Conclude, Crash
<1>3. CASE done # Tasks /\ ~(signal' \/ s = "aborted") /\ (p \/ s = "paused")
  BY <1>3 DEF Advance, Hold
<1>4. CASE done # Tasks /\ ~(signal' \/ s = "aborted") /\ ~(p \/ s = "paused")
  BY <1>4 DEF Advance, StartTask
<1> QED
  BY <1>1, <1>2, <1>3, <1>4

\* Nothing is legal from a status that is final.
LEMMA FinalFacts ==
  ASSUME NEW s \in Terminal
  PROVE  \A to : ~Legal(s, to)
  BY DEF Legal, Transitions, Statuses, Terminal

\* A boundary that is passed in a run that is over changes no status.
LEMMA AfterTheEnd ==
  ASSUME NEW p, NEW v, After(p, v) \/ Throw, status \in Terminal
  PROVE  status' = status
  BY FinalFacts DEF After, NotPassed, Enter, Throw, Return

\* No step of the coroutine changes the status of a run that is over.
LEMMA PipelineStatus ==
  ASSUME FullInv, Pipeline
  PROVE  /\ status' = status \/ status' # "approved"
         /\ status \in Terminal => status' = status
<1> USE DEF engine, record, Outside
<1>1. /\ Stage /\ StatusIsEarned /\ RequestsAreLive
  BY DEF FullInv, IInv, OutcomePart
\* The two ways to change the status without asking the table are not open.
<1>held. ASSUME pauseRequested, Working(Points \ {"idle", "returned"}) PROVE status \notin Terminal
  BY <1>1, <1>held DEF RequestsAreLive, StatusIsEarned, Working, Terminal
<1>boundary. ASSUME NEW p \in {"executed", "validated", "reviewed"}, NEW v, Boundary(p, v),
                    Working({"executing", "validating", "reviewing"})
             PROVE  /\ status' # "approved" \/ status' = status
                    /\ status \in Terminal => status' = status
  <2>1. CASE pauseRequested
    <3>1. status' = "paused" /\ status \notin Terminal
      BY <1>boundary, <1>held, <2>1 DEF Boundary, Hold, Working, Points
    <3> QED
      BY <3>1
  <2>2. CASE ~pauseRequested
    BY <1>boundary, <2>2, AfterEffect, AfterTheEnd DEF Boundary
  <2> QED
    BY <2>1, <2>2
<1>2. CASE ExecutorCompletes
  BY <1>2, <1>boundary DEF ExecutorCompletes, Working
<1>3. CASE \E o \in {"completed", "failed"} : ExecutorEnds(o)
  BY <1>3 DEF ExecutorEnds, Return
<1>4. CASE ExecutorThrows \/ StageThrows
  BY <1>4, ThrowEffect, AfterTheEnd DEF ExecutorThrows, StageThrows
<1>5. CASE Checkpoint
  <2>1. pauseRequested /\ Working(Points \ {"idle", "returned"}) /\ status' = "paused"
    BY <1>5 DEF Checkpoint, Working, Points, Hold
  <2> QED
    BY <1>held, <2>1
<1>6. ASSUME NEW v \in {"passed", "failed"}, ValidationReturns(v) \/ ReviewReturns(v)
      PROVE  /\ status' = status \/ status' # "approved"
             /\ status \in Terminal => status' = status
  BY <1>6, <1>boundary DEF ValidationReturns, ReviewReturns, Working
<1>7. CASE \E r \in {"passed", "failed", "rejected", "aborted"} : RepairReturns(r)
  BY <1>7 DEF RepairReturns, Return
<1>8. CASE AskPermission
  <2>1. CASE Legal(status, "waiting_for_permission")
    BY <1>8, <2>1, FinalFacts DEF AskPermission
  <2>2. CASE ~Legal(status, "waiting_for_permission")
    BY <1>8, <2>2, ThrowEffect, AfterTheEnd DEF AskPermission, Return
  <2> QED
    BY <2>1, <2>2
<1>9. CASE PermissionAnswered \/ FingerprintTaken
  BY <1>9, ThrowEffect, AfterTheEnd DEF PermissionAnswered, FingerprintTaken, Continue, Return
<1>10. CASE GatePassed
  BY <1>10, ThrowEffect, AfterEffect, AfterTheEnd DEF GatePassed, Continue
<1> QED
  BY <1>2, <1>3, <1>4, <1>5, <1>6, <1>7, <1>8, <1>9, <1>10 DEF Pipeline

\* Only a retry changes the status of a run that is over, and no step makes a
\* run approved again.
LEMMA StatusStep ==
  ASSUME FullInv, [Next]_vars
  PROVE  /\ status' = status \/ status' # "approved"
         /\ status \in Terminal =>
              status' = status \/ \E c \in Callers : RetryContinues(c)
<1> USE DEF engine, store, record, ledger, coroutine, clients
<1>1. /\ Stage /\ StatusIsEarned /\ RequestsAreLive /\ LoopGone /\ TypeOK /\ TaskPart
  BY DEF FullInv, IInv, OutcomePart, ControlPart
<1>2. CASE Pipeline
  BY <1>2, PipelineStatus
<1>3. CASE LoopContinues
  <2>1. /\ Advance(status, pauseRequested, completed, calls) /\ completed # Tasks
        /\ status \notin {"failed", "completed"}
    BY <1>1, <1>3 DEF LoopContinues, StatusIsEarned, Stage, TaskPart, BetweenTasks
  <2> QED
    BY <2>1, AdvanceEffect DEF Terminal
<1>4. CASE SettleThrown
  BY <1>4, FinalFacts DEF SettleThrown, Conclude
<1>5. CASE SettleAborted
  BY <1>5, FinalFacts DEF SettleAborted, AbortRun, Conclude, Crash
<1>6. CASE SettleFailed
  BY <1>6, FinalFacts DEF SettleFailed, Conclude, Crash
<1>7. CASE SettlePassed
  <2>1. CASE Legal(status, "running")
    <3>1. PICK s \in {"paused", "running"} : Advance(s, FALSE, completed', calls)
      BY <1>7, <2>1 DEF SettlePassed
    <3>2. status' # "approved" /\ status \notin Terminal
      BY <2>1, <3>1, AdvanceEffect, FinalFacts
    <3> QED
      BY <3>2
  <2>2. CASE ~Legal(status, "running")
    BY <1>7, <2>2 DEF SettlePassed, Crash
  <2> QED
    BY <2>1, <2>2
<1>8. ASSUME NEW c \in Callers, Call(c), ~RetryContinues(c)
      PROVE  /\ status' = status \/ status' # "approved"
             /\ status \in Terminal => status' = status
  <2>1. CASE RunApprovedPlan(c) \/ (ResumeContinues(c) /\ pc = "idle")
    <3>1. status \notin Terminal
      BY <2>1, FinalFacts DEF RunApprovedPlan, ResumeContinues, Terminal
    <3>2. PICK p \in BOOLEAN : Advance("running", p, completed', Subscribed(c))
      BY <1>1, <2>1 DEF RunApprovedPlan, ResumeContinues, TypeOK
    <3>3. status' # "approved"
      BY <3>2, AdvanceEffect
    <3> QED
      BY <3>1, <3>3
  <2>2. CASE ResumeContinues(c) /\ pc # "idle"
    BY <2>2, FinalFacts DEF ResumeContinues
  <2>3. CASE \E d \in {"allow", "deny"} : ResolvePermission(c, d)
    BY <2>3 DEF ResolvePermission, Terminal
  <2>4. CASE ResumeWorkflow(c) \/ ResumeRefused(c) \/ RetryExecution(c) \/ RetryRefused(c)
    BY <2>4 DEF ResumeWorkflow, ResumeRefused, RetryExecution, RetryRefused
  <2> QED
    BY <1>8, <2>1, <2>2, <2>3, <2>4 DEF Call
<1>9. ASSUME NEW c \in Callers, RetryContinues(c) PROVE status' # "approved"
  BY <1>9 DEF RetryContinues, StartTask
<1>10. CASE AbortWorkflow
  BY <1>10, FinalFacts DEF AbortWorkflow
<1>11. CASE CallerAborts \/ PauseWorkflow \/ UNCHANGED vars
  BY <1>11 DEF CallerAborts, PauseWorkflow, vars
<1> QED
  BY <1>2, <1>3, <1>4, <1>5, <1>6, <1>7, <1>8, <1>9, <1>10, <1>11
     DEF Next, Scheduled, Loop, Client, Call

\* Only SettlePassed adds to what has passed, and it adds the task at hand.
LEMMA PassStep ==
  ASSUME FullInv, [Next]_vars
  PROVE  \/ UNCHANGED completed
         \/ /\ SettlePassed
            /\ completed' = completed \union {task} /\ task \in Tasks
            /\ IsReady(task, completed) /\ exec[task] = "completed"
            /\ result = "passed"
            /\ status \in Pausable \union {"aborted"}
<1> USE DEF engine, store, record, ledger, coroutine, clients, Outside
<1>1. CASE SettlePassed
  <2>1. pc = "returned" /\ result = "passed" /\ completed' = completed \union {task}
    BY <1>1 DEF SettlePassed
  <2>2. task \in Tasks \ completed /\ exec[task] = "completed" /\ wait = "none"
    BY <2>1 DEF FullInv, IInv, Stage, TypeOK, Waits
  <2>3. IsReady(task, completed)
    BY <2>2 DEF FullInv, IInv, TaskPart, Selection, IsFirst, ReadyTasks
  <2>4. status \in RunStatuses \ {"approved", "paused", "waiting_for_permission",
                                  "failed", "completed"}
    BY <2>1, <2>2 DEF FullInv, IInv, ControlPart, LoopGone, PausedAtGate, OutcomePart,
       StatusIsEarned, TypeOK
  <2> QED
    BY <1>1, <2>1, <2>2, <2>3, <2>4 DEF RunStatuses, Terminal
<1>2. CASE Pipeline
  BY <1>2 DEF Pipeline, ExecutorCompletes, ExecutorEnds, ExecutorThrows, Checkpoint,
     ValidationReturns, ReviewReturns, StageThrows, RepairReturns, AskPermission,
     PermissionAnswered, FingerprintTaken, GatePassed
<1>3. CASE LoopContinues \/ SettleThrown \/ SettleAborted \/ SettleFailed
  BY <1>3 DEF LoopContinues, SettleThrown, SettleAborted, SettleFailed
<1>4. ASSUME NEW c \in Callers, Call(c) PROVE UNCHANGED completed
  BY <1>4 DEF Call, RunApprovedPlan, ResumeWorkflow, ResumeContinues, ResumeRefused,
     RetryExecution, RetryContinues, RetryRefused, ResolvePermission
<1>5. CASE AbortWorkflow \/ CallerAborts \/ PauseWorkflow \/ UNCHANGED vars
  BY <1>5 DEF AbortWorkflow, CallerAborts, PauseWorkflow, vars
<1> QED
  BY <1>1, <1>2, <1>3, <1>4, <1>5 DEF Next, Scheduled, Loop, Client, Call

\* The pipeline returns a task as passed only from the repair loop, or when
\* the last verdict was not against it.
LEMMA ResultStep ==
  ASSUME FullInv, [Next]_vars, result' = "passed", result # "passed"
  PROVE  pc = "repairing" \/ verdict' # "failed"
<1> USE DEF engine, store, record, ledger, coroutine, clients, Outside
<1>1. Stage /\ VerdictsFollowExecution /\ TypeOK
  BY DEF FullInv, IInv, OutcomePart
<1>boundary. ASSUME NEW p \in {"executed", "validated", "reviewed"}, NEW v, Boundary(p, v)
             PROVE  v = "passed"
  BY <1>boundary, AfterOutcome DEF Boundary
<1>2. CASE ExecutorCompletes
  BY <1>2, <1>boundary DEF ExecutorCompletes
<1>3. CASE \E o \in {"completed", "failed"} : ExecutorEnds(o)
  BY <1>1, <1>3 DEF ExecutorEnds, Working, Stage, VerdictsFollowExecution
<1>4. CASE ExecutorThrows \/ StageThrows \/ Checkpoint
  BY <1>4 DEF ExecutorThrows, StageThrows, Checkpoint, Throw
<1>5. ASSUME NEW v \in {"passed", "failed"}, ValidationReturns(v) \/ ReviewReturns(v)
      PROVE  verdict' # "failed"
  BY <1>5, <1>boundary DEF ValidationReturns, ReviewReturns
<1>6. CASE \E r \in {"passed", "failed", "rejected", "aborted"} : RepairReturns(r)
  BY <1>6 DEF RepairReturns, Working
<1>7. CASE AskPermission
  BY <1>7 DEF AskPermission, Throw, Return
<1>8. CASE PermissionAnswered
  BY <1>8 DEF PermissionAnswered, Throw, Continue, Return
<1>9. CASE FingerprintTaken
  BY <1>9 DEF FingerprintTaken
<1>10. CASE GatePassed
  <2>1. CASE After(pc, verdict) /\ UNCHANGED verdict
    BY <2>1, AfterOutcome
  <2>2. CASE Throw \/ Continue
    BY <2>2 DEF Throw, Continue
  <2> QED
    BY <1>10, <2>1, <2>2 DEF GatePassed
<1>11. CASE LoopContinues
  BY <1>11, AdvanceEffect DEF LoopContinues
<1>12. CASE SettleThrown \/ SettleAborted \/ SettleFailed
  BY <1>12 DEF SettleThrown, SettleAborted, SettleFailed
<1>13. CASE SettlePassed
  BY <1>13 DEF SettlePassed
<1>14. ASSUME NEW c \in Callers, Call(c) PROVE FALSE
  <2>1. CASE RunApprovedPlan(c) \/ (ResumeContinues(c) /\ pc = "idle")
    <3>1. PICK p \in BOOLEAN : Advance("running", p, completed', Subscribed(c))
      BY <1>1, <2>1 DEF RunApprovedPlan, ResumeContinues, TypeOK
    <3> QED
      BY <3>1, AdvanceEffect
  <2>2. CASE RetryContinues(c)
    BY <2>2 DEF RetryContinues, StartTask
  <2> QED
    BY <1>14, <2>1, <2>2 DEF Call, ResumeContinues, ResumeWorkflow, ResumeRefused,
       RetryExecution, RetryRefused, ResolvePermission
<1>15. CASE AbortWorkflow \/ CallerAborts \/ PauseWorkflow \/ UNCHANGED vars
  BY <1>15 DEF AbortWorkflow, CallerAborts, PauseWorkflow, vars
<1> QED
  BY <1>2, <1>3, <1>4, <1>5, <1>6, <1>7, <1>8, <1>9, <1>10, <1>11, <1>12, <1>13, <1>14, <1>15
     DEF Next, Scheduled, Pipeline, Loop, Client, Call

\* What the scheduler adds to completedTaskIds is the task whose execution the
\* store holds as completed, and runTaskPipeline calls it passed only when no
\* verdict is against it or the repair loop overruled that verdict.
THEOREM EarnedPasses == Spec => PassesAreEarned
<1>1. FullInv /\ [Next]_vars =>
        [/\ completed' # completed =>
              /\ completed' = completed \union {task}
              /\ exec[task] = "completed" /\ result = "passed"
         /\ result' = "passed" /\ result # "passed" =>
              pc = "repairing" \/ verdict' # "failed"]_vars
  BY PassStep, ResultStep
<1> QED
  BY <1>1, FullInvariance, PTL DEF Spec, PassesAreEarned

----------------------------------------------------------------------------
\* The run implements the lifecycle.

\* A step that ends nothing for good, or ends the run.
LEMMA LifecycleMove ==
  ASSUME status \in RunStatuses \ Terminal, status' \in RunStatuses,
         status' = status \/ status' # "approved",
         \/ UNCHANGED completed
         \/ /\ task \in Tasks /\ IsReady(task, completed) /\ status \in Pausable
            /\ completed' = completed \union {task},
         status' = "completed" => completed' = Tasks /\ status # "approved"
  PROVE  Lifecycle!LifecycleNext \/ UNCHANGED <<PhaseOf, completed>>
<1>1. /\ status = "approved" => PhaseOf = "approved"
      /\ status \in Pausable => PhaseOf = "active"
      /\ PhaseOf \in {"approved", "active", "held"}
  BY DEF PhaseOf, RunStatuses, Terminal, Pausable
<1>2. /\ status' \in Terminal => PhaseOf' = status'
      /\ status' \notin Terminal \union {"approved"} => PhaseOf' \in {"active", "held"}
  BY DEF PhaseOf, RunStatuses, Terminal, Pausable
<1>3. UNCHANGED completed \/ (PhaseOf = "active" /\ Lifecycle!Pass)
  BY <1>1 DEF Lifecycle!Pass, Lifecycle!IsReady, IsReady
<1>4. CASE status' = "approved"
  BY <1>3, <1>4, <1>1 DEF PhaseOf
<1>5. CASE status' \notin Terminal \union {"approved"}
  BY <1>1, <1>2, <1>3, <1>5 DEF Lifecycle!LifecycleNext, Lifecycle!Proceed
<1>6. CASE status' = "completed"
  <2>1. PhaseOf \in {"active", "held"}
    BY <1>6 DEF PhaseOf, RunStatuses, Terminal, Pausable
  <2> QED
    BY <1>2, <1>3, <1>6, <2>1 DEF Lifecycle!LifecycleNext, Lifecycle!Complete, Terminal
<1>7. CASE status' = "failed"
  BY <1>1, <1>2, <1>3, <1>7 DEF Lifecycle!LifecycleNext, Lifecycle!Fail, Terminal
<1>8. CASE status' = "aborted"
  BY <1>1, <1>2, <1>3, <1>8 DEF Lifecycle!LifecycleNext, Lifecycle!Abort, Terminal
<1> QED
  BY <1>4, <1>5, <1>6, <1>7, <1>8 DEF Terminal

\* Every step of the run is a step of the lifecycle, or changes nothing of it.
LEMMA LifecycleStep ==
  ASSUME FullInv, FullInv', [Next]_vars
  PROVE  [Lifecycle!LifecycleNext]_(Lifecycle!lifecycle)
<1> SUFFICES Lifecycle!LifecycleNext \/ UNCHANGED <<PhaseOf, completed>>
  BY DEF Lifecycle!lifecycle
<1>1. status \in RunStatuses /\ status' \in RunStatuses
  BY DEF FullInv, IInv, TypeOK
<1>2. CASE status \notin Terminal
  <2>1. status' = "completed" => completed' = Tasks
    BY DEF FullInv, OutcomePart, StatusIsEarned
  <2>2. status = "approved" => completed = {} /\ pc = "idle"
    BY DEF FullInv, IInv, ControlPart, LoopGone, TaskPart, PassedAreExecuted, Started, TypeOK
  <2>3. \/ UNCHANGED completed
        \/ /\ task \in Tasks /\ IsReady(task, completed) /\ status \in Pausable
           /\ completed' = completed \union {task}
    BY <1>2, PassStep DEF Terminal
  <2>4. status' = "completed" => status # "approved"
    BY <2>1, <2>2, <2>3, GraphAssumption DEF Pausable
  <2>5. status' = status \/ status' # "approved"
    BY StatusStep
  <2> QED
    BY <1>1, <1>2, <2>1, <2>3, <2>4, <2>5, LifecycleMove
<1>3. CASE status \in Terminal /\ status' = status
  <2>1. PhaseOf' = PhaseOf /\ (status = "aborted" => PhaseOf = "aborted")
    BY <1>3 DEF PhaseOf, Terminal
  <2>2. CASE UNCHANGED completed
    BY <2>1, <2>2
  <2>3. CASE ~UNCHANGED completed
    <3>1. /\ completed' = completed \union {task} /\ task \in Tasks
          /\ IsReady(task, completed) /\ status = "aborted"
      BY <1>3, <2>3, PassStep DEF Terminal, Pausable
    <3>2. Lifecycle!Pass
      BY <3>1 DEF Lifecycle!Pass, Lifecycle!IsReady, IsReady
    <3> QED
      BY <2>1, <3>1, <3>2 DEF Lifecycle!LifecycleNext, Lifecycle!LatePass
  <2> QED
    BY <2>2, <2>3
<1>4. CASE status \in Terminal /\ status' # status
  <2>1. PICK c \in Callers : RetryContinues(c)
    BY <1>4, StatusStep
  <2>2. /\ status = "failed" /\ completed # Tasks /\ completed' = completed
    BY <2>1 DEF RetryContinues, CanRetry, FullInv, IInv, TypeOK
  <2>3. status' \in {"executing", "running"}
    BY <1>4, <2>1, <2>2 DEF RetryContinues, StartTask
  <2>4. PhaseOf = "failed" /\ PhaseOf' = "active"
    BY <2>2, <2>3 DEF PhaseOf, Terminal
  <2> QED
    BY <2>2, <2>4 DEF Lifecycle!LifecycleNext, Lifecycle!Retry
<1> QED
  BY <1>2, <1>3, <1>4

\* The run of an approved plan implements the lifecycle its clients see: it
\* ends once, passes its tasks one at a time and in dependency order, completes
\* only when all have passed, and is made active again only by a retry.
THEOREM Refinement == Spec => ImplementsLifecycle
<1>1. Init => Lifecycle!LifecycleInit
  BY DEF Init, Lifecycle!LifecycleInit, PhaseOf
<1> QED
  BY <1>1, LifecycleStep, FullInvariance, PTL DEF Spec, ImplementsLifecycle,
     Lifecycle!LifecycleSpec
=============================================================================
