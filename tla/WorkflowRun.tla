----------------------------- MODULE WorkflowRun ----------------------------
(*****************************************************************************)
(* The execution of one approved plan by NyxaraOrchestrator: the scheduler   *)
(* loop (advanceApprovedWorkflow), the pipeline it runs for each task        *)
(* (runTaskPipeline), the gates both wait on, and the client calls that      *)
(* start, pause, resume, answer, abort and retry the run.                    *)
(*                                                                           *)
(* Everything runs on one thread; a step here is what the code does between  *)
(* two awaits.  The loop and the pipeline it awaits are one coroutine: pc    *)
(* and wait say which await it is suspended at.  A client call that awaits   *)
(* (resume, retry) is split at its await, so that other steps fall between.  *)
(*****************************************************************************)
EXTENDS TaskStates, WorkflowStatus

CONSTANTS
  AllowRepair,   \* allowRepair of runApprovedPlan
  CallerSignal,  \* the caller of runApprovedPlan passed an AbortSignal
  Callers,       \* client calls that can be outstanding together
  NoTask,        \* stands for an absent task
  MaxPauses,     \* bound on the pause requests of a behaviour
  MaxAsks,       \* bound on its permission requests
  MaxAttempts    \* bound on the attempts of one task

ASSUME RunAssumption ==
  /\ AllowRepair \in BOOLEAN /\ CallerSignal \in BOOLEAN
  /\ NoTask \notin Tasks
  /\ MaxPauses \in Nat /\ MaxAsks \in Nat /\ MaxAttempts \in Nat \ {0}

VARIABLES
  \* WorkflowState, as the engine stores it
  status, pauseRequested,
  pending,          \* pendingPermission is set
  \* the plan's record in TaskExecutionStore
  exec, attempts,
  noResult,         \* the tasks whose last attempt failed and left no result
  \* WorkflowRuntime
  completed, failed, blocked, retryable, terminalResult,
  signal,           \* abortController.signal.aborted
  gate,             \* the pause gate the coroutine awaits or will await
  answer,           \* the permission gate: waiting, or how it was resolved
  \* the coroutine
  pc, wait, task, result,
  verdict,          \* what the last validation or review of the task said
  \* the clients
  calls, pauses, asks

engine    == <<status, pauseRequested, pending>>
record    == <<exec, noResult>>
store     == <<record, attempts>>
ledger    == <<completed, failed, blocked, retryable>>
coroutine == <<pc, wait, task, result, verdict>>
clients   == <<calls, pauses, asks>>
vars == <<engine, store, ledger, terminalResult, signal, gate, answer,
          coroutine, clients>>

Points == {"idle", "top", "executing", "executed", "validating", "validated",
           "reviewing", "reviewed", "repairing", "returned"}
Waits == {"none", "fingerprint", "gate", "permission"}
Results == {"none", "passed", "failed", "rejected", "aborted", "thrown"}
RunStatuses == {"approved", "paused", "waiting_for_permission"} \union Pausable \union Terminal
Outcomes == {"paused", "waiting_for_permission"} \union Terminal
CallStates == {"idle", "resuming", "retrying", "waiting", "refused"} \union Outcomes

Init ==
  /\ status = "approved" /\ pauseRequested = FALSE /\ pending = FALSE
  /\ exec = FreshRecord /\ attempts = [t \in Tasks |-> 0] /\ noResult = {}
  /\ completed = {} /\ failed = {} /\ blocked = {} /\ retryable = NoTask
  /\ terminalResult = "none" /\ signal = FALSE
  /\ gate = "open" /\ answer = "none"
  /\ pc = "idle" /\ wait = "none" /\ task = NoTask
  /\ result = "none" /\ verdict = "none"
  /\ calls = [c \in Callers |-> "idle"] /\ pauses = 0 /\ asks = 0

----------------------------------------------------------------------------
\* What the coroutine and the calls are made of.

At(point, on) == pc' = point /\ wait' = on

\* waitForRuntimeOutcome, publishRuntimeOutcome
Subscribed(c) == [calls EXCEPT ![c] = "waiting"]
Published(cs, outcome) ==
  [c \in Callers |-> IF cs[c] = "waiting" THEN outcome ELSE cs[c]]

\* Mutant: the gate is created open.
HoldOpen(point) ==
  /\ status' = "paused" /\ pauseRequested' = FALSE
  /\ gate' = "open" /\ At(point, "fingerprint")

\* WorkflowEngine.pause, with the gate a resume will open; the coroutine first
\* awaits the fingerprint of the workspace.
Hold(point) ==
  /\ status' = "paused" /\ pauseRequested' = FALSE
  /\ gate' = "shut" /\ At(point, "fingerprint")

\* Mutant: the outcome is recorded and not published.
ConcludeSilently(outcome, cs) ==
  /\ status' = outcome /\ terminalResult' = outcome
  /\ calls' = cs
  /\ At("idle", "none")

\* finishRuntime: the outcome is recorded and told to every subscriber.
Conclude(outcome, cs) ==
  /\ status' = outcome /\ terminalResult' = outcome
  /\ calls' = Published(cs, outcome)
  /\ At("idle", "none")

\* An illegal transition in the loop, outside its try block, rejects
\* runtime.advancing: the loop is gone and no outcome is delivered.
Crash(s, cs) ==
  /\ status' = s /\ calls' = cs
  /\ At("idle", "none") /\ UNCHANGED terminalResult

\* Mutant: the engine's refusal is not considered.
AbortAnyRun(s, p, cs) ==
  Conclude("aborted", cs) /\ pauseRequested' = FALSE /\ pending' = FALSE

\* The loop has seen the abort: it aborts the workflow unless that was done.
AbortRun(s, p, cs) ==
  /\ IF s = "aborted" \/ Legal(s, "aborted") THEN Conclude("aborted", cs)
                                             ELSE Crash(s, cs)
  /\ IF s # "aborted" /\ Legal(s, "aborted")
     THEN pauseRequested' = FALSE /\ pending' = FALSE
     ELSE pauseRequested' = p /\ UNCHANGED pending

\* The pipeline up to the Executor's first await.  It may throw before it
\* enters "executing" (plan integrity), or in executeTask (no Executor model,
\* a task the store will not begin), where its catch fails the workflow.
StartTask(t) ==
  /\ task' = t /\ verdict' = "none"
  /\ \/ /\ CanBegin(exec, t)
        /\ exec' = Begun(exec, t) /\ noResult' = noResult \ {t}
        /\ attempts' = [attempts EXCEPT ![t] = @ + 1]
        /\ status' = "executing" /\ result' = "none"
        /\ At("executing", "none")
     \/ /\ status' \in {"running", "failed"} /\ result' = "thrown"
        /\ At("returned", "none")
        /\ UNCHANGED store

\* The loop from its top to its next await, or its end: entered in status s
\* with pause request p, the tasks done and the subscribers in cs.  signal' is
\* the signal it reads.  A task is only ever selected in "running".
Advance(s, p, done, cs) ==
  IF done = Tasks
  THEN /\ IF Legal(s, "completed") THEN Conclude("completed", cs) ELSE Crash(s, cs)
       /\ pauseRequested' = p
       /\ UNCHANGED <<pending, store, gate, task, result, verdict>>
  ELSE IF signal' \/ s = "aborted"
  THEN AbortRun(s, p, cs) /\ UNCHANGED <<store, gate, task, result, verdict>>
  ELSE IF p \/ s = "paused"
  THEN /\ Hold("top") /\ calls' = cs
       /\ UNCHANGED <<pending, store, terminalResult, task, result, verdict>>
  ELSE /\ \E t \in Tasks : IsFirst(t, ReadyTasks(done)) /\ StartTask(t)
       /\ pauseRequested' = p /\ calls' = cs
       /\ UNCHANGED <<pending, gate, terminalResult>>

----------------------------------------------------------------------------
\* The pipeline of a task.

\* The pipeline's catch: unless the run was aborted, the workflow fails if it
\* still may, and an Executor attempt that failed without a result can be
\* retried.
Throw ==
  /\ retryable' = IF /\ ~signal /\ status = "executing"
                     /\ exec'[task] = "failed" /\ task \in noResult'
                  THEN task ELSE retryable
  /\ status' = IF ~signal /\ Legal(status, "failed") THEN "failed" ELSE status
  /\ result' = "thrown" /\ At("returned", "none")

Return(r) ==
  result' = r /\ At("returned", "none") /\ UNCHANGED <<status, retryable>>

Continue == At(pc, "none") /\ UNCHANGED <<status, retryable, result>>

\* enterWorkflowStatus: throws when the workflow has left the run.
Enter(stage) ==
  IF Legal(status, stage)
  THEN status' = stage /\ At(stage, "none") /\ UNCHANGED <<retryable, result>>
  ELSE Throw

NotPassed == IF AllowRepair THEN Enter("repairing") ELSE Return("rejected")

\* Mutant: the review is made and its verdict not looked at.
AfterUnreviewed(point, v) ==
  IF point = "executed" THEN Enter("validating")
  ELSE IF point = "reviewed" THEN Return("passed")
  ELSE IF v # "passed" THEN NotPassed ELSE Enter("reviewing")

\* What follows each of the pipeline's own boundaries; v is what validation or
\* review said.
After(point, v) ==
  IF point = "executed" THEN Enter("validating")
  ELSE IF v # "passed"  THEN NotPassed
  ELSE IF point = "validated" THEN Enter("reviewing") ELSE Return("passed")

\* pauseAtBoundary: an outstanding pause request is honoured here.
Boundary(point, v) ==
  IF pauseRequested
  THEN Hold(point) /\ UNCHANGED <<retryable, result>>
  ELSE After(point, v) /\ UNCHANGED <<pauseRequested, gate>>

\* Mutant: the store is not told.
AttemptForgotten == UNCHANGED record

\* executeTask's catch: the attempt failed and the store has no result of it.
AttemptFails ==
  exec' = Ended(exec, task, "failed") /\ noResult' = noResult \union {task}

\* What no step of the pipeline touches.
Outside == <<attempts, completed, failed, blocked, terminalResult, signal, task,
             pauses>>

Working(points) == pc \in points /\ wait = "none"

\* The Executor's result says completed, and the task needs validation.
ExecutorCompletes ==
  /\ Working({"executing"})
  /\ exec' = Ended(exec, task, "completed")
  /\ Boundary("executed", "none")
  /\ UNCHANGED <<noResult, pending, answer, verdict, calls, asks, Outside>>

\* A read-only task without changes skips Validation and Review; a failed
\* result ends the pipeline at once.
ExecutorEnds(outcome) ==
  /\ Working({"executing"})
  /\ exec' = Ended(exec, task, outcome)
  /\ Return(IF outcome = "completed" THEN "passed" ELSE "failed")
  /\ UNCHANGED <<noResult, pauseRequested, pending, gate, answer, verdict,
                 calls, asks, Outside>>

\* A provider or tool error, a limit, an observed abort.
ExecutorThrows ==
  /\ Working({"executing"})
  /\ AttemptFails /\ Throw
  /\ UNCHANGED <<pauseRequested, pending, gate, answer, verdict, calls, asks,
                 Outside>>

\* The checkpoint before each model turn of the Executor, in Repair too, and
\* the repair loop's own ones.
Checkpoint ==
  /\ Working({"executing", "repairing"}) /\ pauseRequested
  /\ Hold(pc)
  /\ UNCHANGED <<record, pending, retryable, result, answer, verdict, calls,
                 asks, Outside>>

ValidationReturns(v) ==
  /\ Working({"validating"})
  /\ verdict' = v /\ Boundary("validated", v)
  /\ UNCHANGED <<record, pending, answer, calls, asks, Outside>>

ReviewReturns(v) ==
  /\ Working({"reviewing"})
  /\ verdict' = v /\ Boundary("reviewed", v)
  /\ UNCHANGED <<record, pending, answer, calls, asks, Outside>>

StageThrows ==
  /\ Working({"validating", "reviewing", "repairing"})
  /\ Throw
  /\ UNCHANGED <<record, pauseRequested, pending, gate, answer, verdict, calls,
                 asks, Outside>>

\* The repair loop ends: it repaired the task, its last execution failed, it
\* gave up with the execution intact, or it saw an abort.
RepairReturns(r) ==
  /\ Working({"repairing"})
  /\ Return(r)
  /\ UNCHANGED <<record, pauseRequested, pending, gate, answer, verdict, calls,
                 asks, Outside>>

\* awaitWorkflowPermission.  The request is stored before the transition that
\* may refuse it: an aborted workflow does, and the tool call then ends the
\* Executor, whose caller sees the abort.
AskPermission ==
  /\ Working({"executing", "repairing"})
  /\ asks < MaxAsks /\ asks' = asks + 1
  /\ pending' = TRUE
  /\ IF Legal(status, "waiting_for_permission")
     THEN /\ status' = "waiting_for_permission" /\ answer' = "waiting"
          /\ At(pc, "permission")
          /\ calls' = Published(calls, "waiting_for_permission")
          /\ UNCHANGED <<record, retryable, result>>
     ELSE /\ IF pc = "executing" THEN AttemptFails /\ Throw
                                 ELSE Return("aborted") /\ UNCHANGED record
          /\ UNCHANGED <<answer, calls>>
  /\ UNCHANGED <<pauseRequested, gate, verdict, Outside>>

\* A denied tool ends the Executor with an error: the task's own attempt, or
\* the repair attempt, whose error the repair loop catches.
PermissionAnswered ==
  /\ wait = "permission" /\ answer \in {"allow", "deny"}
  /\ answer' = "none"
  /\ IF answer = "deny" /\ pc = "executing" THEN AttemptFails /\ Throw
     ELSE /\ IF answer = "allow" THEN Continue
             ELSE Return(IF signal THEN "aborted" ELSE "rejected")
          /\ UNCHANGED record
  /\ UNCHANGED <<pauseRequested, pending, gate, verdict, calls, asks, Outside>>

\* The fingerprint is taken: whoever waits for the run is told it is paused.
FingerprintTaken ==
  /\ wait = "fingerprint" /\ At(pc, "gate")
  /\ calls' = Published(calls, "paused")
  /\ UNCHANGED <<engine, record, retryable, result, gate, answer, verdict, asks,
                 Outside>>

\* The gate was opened.  A boundary does not look at the pause request again;
\* the Executor looks at the signal.
GatePassed ==
  /\ wait = "gate" /\ gate = "open" /\ pc # "top"
  /\ IF pc = "executing" /\ signal THEN AttemptFails /\ Throw
     ELSE /\ IF pc \in {"executing", "repairing"} THEN Continue
                                                  ELSE After(pc, verdict)
          /\ UNCHANGED record
  /\ UNCHANGED <<pauseRequested, pending, gate, answer, verdict, calls, asks,
                 Outside>>

----------------------------------------------------------------------------
\* The loop after the pipeline, and from the gate at its top.

\* The top of the loop looks at everything again.
LoopContinues ==
  /\ wait = "gate" /\ gate = "open" /\ pc = "top"
  /\ UNCHANGED <<ledger, signal, answer, pauses, asks>>
  /\ Advance(status, pauseRequested, completed, calls)

\* The pipeline threw.
SettleThrown ==
  /\ pc = "returned" /\ result = "thrown" /\ ~signal
  /\ status = "failed" \/ Legal(status, "failed")
  /\ failed' = failed \union {task}
  /\ Conclude("failed", calls)
  /\ UNCHANGED <<pauseRequested, pending, store, completed, blocked, retryable,
                 signal, gate, answer, task, result, verdict, pauses, asks>>

\* The pipeline threw after an abort, or Repair reported one.
SettleAborted ==
  /\ pc = "returned"
  /\ result = "aborted" \/ (result = "thrown" /\ signal)
  /\ AbortRun(status, pauseRequested, calls)
  /\ UNCHANGED <<store, ledger, signal, gate, answer, task, result, verdict,
                 pauses, asks>>

\* The task did not pass: its dependents are blocked and the workflow fails,
\* unless it left the run in the meantime.
SettleFailed ==
  /\ pc = "returned" /\ result \in {"failed", "rejected"}
  /\ failed' = failed \union {task}
  /\ retryable' = IF result = "failed" THEN task ELSE retryable
  /\ blocked' = blocked \union (Downstream(task) \ (completed \union failed'))
  /\ IF Legal(status, "failed") THEN Conclude("failed", calls) ELSE Crash(status, calls)
  /\ UNCHANGED <<pauseRequested, pending, store, completed, signal, gate, answer,
                 task, result, verdict, pauses, asks>>

\* The task passed: the loop goes on, pausing first if that was requested.
SettlePassed ==
  /\ pc = "returned" /\ result = "passed"
  /\ completed' = completed \union {task}
  /\ UNCHANGED signal
  /\ IF Legal(status, "running")
     THEN Advance(IF pauseRequested THEN "paused" ELSE "running", FALSE,
                  completed', calls)
     ELSE /\ Crash(status, calls)
          /\ UNCHANGED <<pauseRequested, pending, store, gate, task, result, verdict>>
  /\ UNCHANGED <<failed, blocked, retryable, answer, pauses, asks>>

----------------------------------------------------------------------------
\* The client's calls.

Free(c) == calls[c] \notin {"resuming", "retrying", "waiting"}

RunApprovedPlan(c) ==
  /\ Free(c) /\ status = "approved"
  /\ signal' \in {FALSE, CallerSignal}
  /\ Advance("running", pauseRequested, completed, Subscribed(c))
  /\ UNCHANGED <<ledger, answer, pauses, asks>>

PauseWorkflow ==
  /\ status \in Pausable
  /\ pauses < MaxPauses /\ pauses' = pauses + 1
  /\ pauseRequested' = TRUE
  /\ UNCHANGED <<status, pending, store, ledger, terminalResult, signal, gate,
                 answer, coroutine, calls, asks>>

\* resumeWorkflow up to its await of the workspace fingerprint ...
ResumeWorkflow(c) ==
  /\ Free(c) /\ status = "paused"
  /\ calls' = [calls EXCEPT ![c] = "resuming"]
  /\ UNCHANGED <<engine, store, ledger, terminalResult, signal, gate, answer,
                 coroutine, pauses, asks>>

\* Mutants: the gate stays shut; the permission request is dropped unanswered.
StillShut == gate
Dropped == IF answer = "waiting" THEN "none" ELSE answer

Opened == IF gate = "shut" THEN "open" ELSE gate

Denied == IF answer = "waiting" THEN "deny" ELSE answer

\* ... and after it.  The status is not read again: any status from which
\* "running" is legal is resumed.
ResumeContinues(c) ==
  /\ calls[c] = "resuming" /\ Legal(status, "running")
  /\ UNCHANGED <<signal, ledger, answer, pauses, asks>>
  /\ IF pc = "idle"
     THEN Advance("running", FALSE, completed, Subscribed(c))
     ELSE /\ status' = "running" /\ pauseRequested' = FALSE
          /\ gate' = Opened /\ calls' = Subscribed(c)
          /\ UNCHANGED <<pending, store, terminalResult, coroutine>>

\* The workspace changed during the pause, or the workflow cannot run on.
ResumeRefused(c) ==
  /\ calls[c] = "resuming"
  /\ calls' = [calls EXCEPT ![c] = "refused"]
  /\ UNCHANGED <<engine, store, ledger, terminalResult, signal, gate, answer,
                 coroutine, pauses, asks>>

\* resolveWorkflowPermission.  advanceApprovedWorkflow finds the loop running.
ResolvePermission(c, decision) ==
  /\ Free(c)
  /\ status = "waiting_for_permission" /\ pending /\ answer = "waiting"
  /\ pending' = FALSE /\ answer' = decision
  /\ IF decision = "allow" THEN status' = "running" /\ pauseRequested' = FALSE
                           ELSE status' = "failed" /\ UNCHANGED pauseRequested
  /\ calls' = Subscribed(c)
  /\ UNCHANGED <<store, ledger, terminalResult, signal, gate, coroutine,
                 pauses, asks>>

\* abortWorkflow signals and opens the gates before the engine may refuse.
AbortWorkflow ==
  /\ signal' = (signal \/ status # "approved")
  /\ gate' = Opened
  /\ answer' = Denied
  /\ IF Legal(status, "aborted")
     THEN status' = "aborted" /\ pauseRequested' = FALSE /\ pending' = FALSE
     ELSE UNCHANGED engine
  /\ UNCHANGED <<store, ledger, terminalResult, coroutine, clients>>

\* The caller's own signal only reaches the runtime's AbortController.
CallerAborts ==
  /\ CallerSignal /\ status # "approved" /\ ~signal
  /\ signal' = TRUE
  /\ UNCHANGED <<engine, store, ledger, terminalResult, gate, answer, coroutine,
                 clients>>

\* Mutant: the state of the task in the store is not looked at.
CanRetryAny ==
  /\ retryable # NoTask /\ retryable \notin completed
  /\ terminalResult \in {"none", "failed"} /\ ~signal /\ status = "failed"
  /\ attempts[retryable] < MaxAttempts

\* executionRetry, up to the bound on attempts.
CanRetry ==
  /\ retryable # NoTask /\ retryable \notin completed
  /\ terminalResult \in {"none", "failed"} /\ ~signal /\ status = "failed"
  /\ exec[retryable] = "failed"
  /\ attempts[retryable] < MaxAttempts

\* retryWorkflowExecution up to its await of the loop that is ending ...
RetryExecution(c) ==
  /\ Free(c) /\ CanRetry
  /\ calls' = [calls EXCEPT ![c] = "retrying"]
  /\ UNCHANGED <<engine, store, ledger, terminalResult, signal, gate, answer,
                 coroutine, pauses, asks>>

\* ... and after it.  The loop finds neither an abort nor a pause request, and
\* the task may be refused again: executeTask's refusal leaves it retryable
\* only when its failed attempt had left no result.
RetryContinues(c) ==
  /\ calls[c] = "retrying" /\ pc = "idle" /\ CanRetry
  /\ \E t \in Tasks : IsFirst(t, ReadyTasks(completed)) /\ StartTask(t)
  /\ failed' = {} /\ blocked' = {} /\ terminalResult' = "none"
  /\ retryable' = IF status' = "failed" /\ retryable \in noResult
                  THEN retryable ELSE NoTask
  /\ pauseRequested' = FALSE /\ pending' = FALSE
  /\ calls' = Subscribed(c)
  /\ UNCHANGED <<completed, signal, gate, answer, pauses, asks>>

RetryRefused(c) ==
  /\ calls[c] = "retrying" /\ ~CanRetry
  /\ pc = "idle" \/ status # "failed"
  /\ calls' = [calls EXCEPT ![c] = "refused"]
  /\ UNCHANGED <<engine, store, ledger, terminalResult, signal, gate, answer,
                 coroutine, pauses, asks>>

----------------------------------------------------------------------------
Pipeline ==
  \/ ExecutorCompletes
  \/ \E o \in {"completed", "failed"} : ExecutorEnds(o)
  \/ ExecutorThrows
  \/ Checkpoint
  \/ \E v \in {"passed", "failed"} : ValidationReturns(v) \/ ReviewReturns(v)
  \/ StageThrows
  \/ \E r \in {"passed", "failed", "rejected", "aborted"} : RepairReturns(r)
  \/ AskPermission
  \/ PermissionAnswered
  \/ FingerprintTaken
  \/ GatePassed

Loop ==
  LoopContinues \/ SettleThrown \/ SettleAborted \/ SettleFailed \/ SettlePassed

\* What the runtime does without a client: the coroutine, and the rest of a
\* call after its await.
Scheduled ==
  \/ Pipeline \/ Loop
  \/ \E c \in Callers : \/ ResumeContinues(c) \/ ResumeRefused(c)
                        \/ RetryContinues(c) \/ RetryRefused(c)

Client ==
  \/ \E c \in Callers :
       \/ RunApprovedPlan(c) \/ ResumeWorkflow(c) \/ RetryExecution(c)
       \/ \E d \in {"allow", "deny"} : ResolvePermission(c, d)
  \/ PauseWorkflow \/ AbortWorkflow \/ CallerAborts

Next == Scheduled \/ Client

\* The event loop keeps running what is ready; the clients owe nothing.
Fairness == WF_vars(Pipeline \/ Loop)

Spec == Init /\ [][Next]_vars
FairSpec == Spec /\ Fairness

----------------------------------------------------------------------------
\* Properties.

TypeOK ==
  /\ status \in RunStatuses /\ pauseRequested \in BOOLEAN /\ pending \in BOOLEAN
  /\ exec \in [Tasks -> TaskStatuses] /\ attempts \in [Tasks -> Nat]
  /\ noResult \subseteq Tasks
  /\ completed \subseteq Tasks /\ failed \subseteq Tasks /\ blocked \subseteq Tasks
  /\ retryable \in Tasks \union {NoTask}
  /\ terminalResult \in {"none"} \union Terminal /\ signal \in BOOLEAN
  /\ gate \in {"open", "shut"} /\ answer \in {"none", "waiting", "allow", "deny"}
  /\ pc \in Points /\ wait \in Waits /\ task \in Tasks \union {NoTask}
  /\ result \in Results /\ verdict \in {"none", "passed", "failed"}
  /\ calls \in [Callers -> CallStates]
  /\ pauses \in 0 .. MaxPauses /\ asks \in 0 .. MaxAsks

Started == {t \in Tasks : exec[t] \in {"running", "completed", "failed"}}

\* A task is only ever started after everything it depends on has passed the
\* whole pipeline: executed is not enough (orchestrator.ts 1000, store begin).
StartedTasksHaveDependencies == \A t \in Started : Deps[t] \subseteq completed

\* The run works on one task at a time: whatever was started and has not
\* passed is the coroutine's task, and while it is being executed no other
\* stage of the pipeline is active.
OneTaskAtATime ==
  /\ Started \ completed \subseteq {task}
  /\ \A t \in Tasks : exec[t] = "running" => pc = "executing" /\ t = task

\* An outcome that was recorded is the workflow's status, and nobody is left
\* waiting for it, whenever they subscribed (waitForRuntimeOutcome).
OutcomeIsDelivered ==
  terminalResult # "none" =>
    /\ status = terminalResult /\ pc = "idle"
    /\ \A c \in Callers : calls[c] # "waiting"

\* While a workflow is paused no stage works: the coroutine is at a gate, or
\* the last task had passed and the loop is gone, as after a late pause.
PausedIsQuiet ==
  status = "paused" => \/ wait \in {"fingerprint", "gate"}
                       \/ pc = "idle" /\ completed = Tasks

\* executionRetry only offers the Executor attempt that was interrupted before
\* validation (docs/archive/audits/2026-09/EXECUTION_RETRY_AUDIT.md:27), and
\* that task is the one the loop selects when the retry restarts it.
RetryableIsNext ==
  CanRetry /\ pc = "idle" =>
    /\ retryable = task /\ verdict = "none" /\ failed = {retryable}
    /\ IsFirst(retryable, ReadyTasks(completed)) /\ CanBegin(exec, retryable)

\* A task passes only after its execution was completed, and a verdict against
\* it is only overruled by the repair loop.
PassesAreEarned ==
  [][/\ completed' # completed =>
          /\ completed' = completed \union {task}
          /\ exec[task] = "completed" /\ result = "passed"
     /\ result' = "passed" /\ result # "passed" =>
          pc = "repairing" \/ verdict' # "failed"]_vars

\* An abort stops the loop, whatever it was waiting for.
AbortStopsTheLoop == status = "aborted" ~> pc = "idle"

\* The loop never hangs: it ends, or it waits for a client at a closed gate.
LoopEndsOrAsks ==
  pc # "idle" ~> \/ pc = "idle"
                 \/ wait = "gate" /\ gate = "shut"
                 \/ wait = "permission" /\ answer = "waiting"

----------------------------------------------------------------------------
\* What the repository says and the code does not keep: refuted by a run of its
\* own (see the README).

\* The outcome of a run whose permission was denied is reported as failed
\* (core/test/runtime-control.test.ts:181-197).
DeniedRunIsReported ==
  status = "failed" /\ pc = "idle" /\ ~signal => terminalResult = "failed"

=============================================================================
