# Nyxara Orchestrator: specifications, model checking and proofs

Nyxara has a language model plan a change of a repository, lets the user approve
the plan, and then executes its tasks one after another: an Executor changes the
workspace, deterministic Validation runs the project's own commands, a Reviewer
judges the change, and a bounded Repair loop tries again when either says no.
The user can pause, answer permission requests, abort and retry at any time.
This directory holds TLA+ models of that orchestration, the TLC runs that check
them on small instances, and proofs checked by TLAPS. Source paths below are
relative to `packages/core/src/` unless they say otherwise.

## 1. Inventory

| Component | State it keeps | Operations | What makes it correct |
|---|---|---|---|
| Workflow state machine (`workflow/workflow-engine.ts`, `workflow.types.ts`) | status, pauseRequested, pendingPermission, planId per workflow | checked transitions, requestPause, pause, resume, abort, fail, retryExecution | a terminal status is final, but for the retry of a failed one |
| Scheduler and pipeline (`orchestrator/orchestrator.ts`, `workflow/workflow-runtime.ts`) | completed, failed, blocked, retryable task, outcome, subscribers, gates | run, pause, resume, answer, abort, retry; the loop and the stages of a task | dependency order, one task at a time, no work while paused or aborted, outcomes delivered, the loop ends or waits for a client |
| Plan approval (`orchestrator.ts`, `planner/plan-runtime-store.ts`, `plan-runtime.ts`) | status and approved fingerprint per plan, rules of 256 plans | createPlan, replaceDraftPlan, approvePlan, rejectPlan, integrity checks | only approved content is worked on; decisions are final; a draft is always there to decide on |
| Task execution store (`executor/task-execution-store.ts`) | the states and results of 10 plans | begin, finish, fail, get, list, restore, eviction | states agree with the graph, a plan in use is not evicted, memory is bounded |
| Task graph (`planner/task-graph.ts`) | none | ready tasks, dependents, cycles | |
| Workflow and runtime retention (`workflow/workflow-state-store.ts`, `orchestrator.ts`) | two maps in insertion order | create, restore, evict | nothing that is in use is forgotten |
| Repair loop (`repair/repair-orchestrator.ts`, `repair-task-builder.ts`) | version and verdicts at hand, five counters, counts of failures | one loop | accepts only what was validated and reviewed, ends, stays within its limits |
| Validation engine (`validation/`) | the results of a validation | steps with a snapshot of the workspace around each | a required step that fails, is missing or changes the workspace fails the validation |
| Planner (`planner/`) | none | one request, the reading, grouping and validation of its answer | a plan says what the model answered, and can be carried out |
| Context engine (`context/`) | none | ranked search, targeted expansion, a task's selection | what is asked for comes first, budgets are kept, omissions are said |
| Executor (`executor/executor.ts`, `executor-session.ts`) | conversation, evidence, counts of calls, failures not resolved | turns of model and tools | bounded, no call done twice, calls accounted for, completion is earned |
| Reviewer (`review/`) | evidence, turns and expansions of one review | attempts, context requests, checks of the answer | bounded, and a passing review covers every criterion and rule |
| Provider adapters (`packages/providers`) | one request, its signal and deadline, a child process | generate, whole or streamed | half an answer is none, a stop is reported as what it was, the call ends |
| Tools and permissions (`packages/tools`) | a call's requests and effects, a child process | read, write, patch, run a command | no effect without leave, a true report, the call ends |
| VS Code extension (`apps/vscode`) | session, current task, history in memory and on disk, recovery data | the sidebar's messages, projection of events, reload | one workflow at work, records agree with it, a reload offers the last failure |
| Event bus, registries, rules, CLI, usage tools | listeners, or maps that are set once | see `PROJECT.json` | |

**How they interact.** Clients call the orchestrator; it awaits the Planner, and
for each task the Executor, the validation engine, the Reviewer and the repair
loop, which calls the same three again; Planner, Executor and Reviewer call a
provider, the Executor and Validation the tools and commands. Shared state is the workflow's record in
the state machine, the plan's record in the task store, and the runtime of the
run; callers hear of outcomes through promises that the runtime's subscribers
resolve, clients of progress through the event bus.

**What is hard.** Everything runs on one thread, and the code relies on that
between awaits; but every await of a model, a command or a gate lets client calls
and other workflows in. Whatever was read before an await may be stale after it,
the status may have been changed by an abort, a denied permission or a second
resume, and a transition that is refused at a place where no `catch` follows ends
the run without an outcome. Outside of that thread are the user's edits of the
workspace, servers that break off, child processes that do not stop, and a window
that is reloaded. `PROJECT.json` lists these hazards at their lines.

## 2. Modules

| Module | Models | Composes |
|---|---|---|
| `WorkflowStatus` | the transition table | |
| `TaskGraph` | dependencies, plan order, readiness | |
| `TaskStates` | task statuses, what begin, finish, fail and refresh make of a plan's record | `TaskGraph` |
| `WorkflowRun` | the run of an approved plan | `TaskStates`, `WorkflowStatus` |
| `WorkflowLifecycle` | abstract: what a run promises its clients | `TaskGraph` |
| `WorkflowRunRefinement` | the refinement mapping between the two | `WorkflowRun`, `WorkflowLifecycle` |
| `WorkflowRunProofs` | the two inductive invariants, their proofs and that of the refinement | |
| `RepairLoop` | the repair of one task | |
| `RepairContract` | abstract: what a repair promises | |
| `RepairLoopRefinement`, `RepairLoopProofs` | the mapping, the invariant and the proofs of the refinement and of progress | |
| `TaskExecutionStore` | several plans in the bounded store | `TaskStates` |
| `PlanDraft` | what becomes of a model's answer to the Planner (pure) | |
| `PlanApproval`, `PlanApprovalProofs` | from the request of a plan to its execution, and proofs | `PlanDraft`, `WorkflowStatus` |
| `WorkflowRetention` | which workflows and runtimes a session still knows | |
| `ValidationRun` | one validation, from discovery to its verdict | |
| `ExecutorSession` | what an attempt remembers, and the methods on it (pure) | |
| `ExecutorLoop`, `ExecutorLoopProofs` | one attempt of the Executor, and proofs | `ExecutorSession` |
| `ContextSelection`, `ReviewDecision` | how files become context; what a review comes to (pure) | |
| `TaskEvidence` | a task from its context to its review | `ContextSelection`, `ReviewDecision` |
| `EvidenceProofs` | proofs about what a task is judged by | `ValidationRun`, `TaskEvidence` |
| `ModelProvider` | what the adapters have in common | |
| `HttpProvider`, `CliProvider` | the HTTP adapters; the subscription CLIs | `ModelProvider` |
| `ProviderCall`, `ProviderCallProofs` | one `generate()` through any adapter, and proofs | `HttpProvider`, `CliProvider` |
| `LocalCommand` | a child process of the tools | |
| `ToolCall`, `ToolCallProofs` | one call of a tool, from its permissions to its effects, and proofs | `LocalCommand` |
| `ClientSession` | the VS Code session, its history and a reload | `Subsequences` |
| `RetentionProofs` | proofs about what is kept, and for how long | `TaskExecutionStore`, `WorkflowRetention`, `ClientSession` |
| `Subsequences` | what `filter` makes of an array (pure) | |
| `MC...` | the instances TLC checks | |

A step of a model is what the code does between two awaits.

**WorkflowRun.** `advanceApprovedWorkflow` and the `runTaskPipeline` it awaits are
one coroutine. `pc` says at which point of it, `wait` whether it is held there by
a pause (first by the fingerprint of the workspace, then by the gate) or by a
permission. `engine` is the workflow's record in the state machine, `store` the
plan's record in the task store, `ledger` the lists of the runtime. `calls` are
the promises of the clients: a call waits for an outcome, is between its two
halves (`resuming` over the fingerprint, `retrying` over the loop that ends), or
has the outcome it was given. `Advance` is the loop from its top to the next
await; every action that lets the loop go on ends with it, so that the trailing
work of the code is in the same step. `Crash` is a transition that throws outside
the loop's `try`: the loop is gone, nothing is recorded or published.

What the stages find is a choice: a verdict of validation or review, an error, a
request for permission, a checkpoint. `StartTask` may also throw, for each of the
reasons in `executeTask`. Abstracted are what the tasks do, the error's code and
message, the per-task records, events and usage.

**RepairLoop.** `stage` is the await the loop is at. The workspace is abstracted
to its version, a verdict to the version it judged and the findings it leaves.
The counters are the code's own and so are their limits. Findings are kept by
their keys; the cap of twelve findings per repair task is left out, and two
findings stay below it. The context expansion is a choice wherever the code might
make one. The loop starts with what the pipeline, or a caller of `repairTask`,
gives it; the evidence is assumed to be of the execution it enters with. The
branch of `RepairCompletes` for the limit on validations cannot be reached, in
the model as in the code: the top of the loop looks at it first.

**TaskExecutionStore.** `order` is the map's key order, `kept` the records,
`calls` the `executeTask` calls between begin and outcome. Every method first
looks its plan up, which inserts, reorders and evicts (`Found`). All plans have
one graph. A record restored from disk is any sound one with a failed task and
none running, and has no results, because the recovery schema of the VS Code
client strips them.

**PlanDraft.** An answer is what can be told apart in its text: whether it was cut
off, whether a thinking block in front is closed, whether it is one JSON value,
code fences or prose, and the values in it. A plan keeps its tasks with their ids,
dependencies and criteria; a criterion is the lines it consists of and its length;
whether the remaining fields are there and within their bounds is one bit each.
`Pairs` is `groupCriteria`'s loop, `Visit` one round of it, `Cyclic` what `detectTaskCycle`
finds. What is to become a plan is typed (`IsDraft`), as the schema of the answer has it.
The properties compare them with definitions of their own: `CanBeCarriedOut` looks
for an order of the tasks, `CanBeGrouped` for any pairing, not the one from the left.

**PlanApproval.** A plan is an object with a content of `PlanDraft`, as far as
`planFingerprint` covers it, which clients can change (`Edit`), into a cycle too.
`calls` are the `createPlan` calls in flight, each with the decision it took before
its await; what the Planner returns is made from one of the `Given` answers. `Valid`
is asked where the code validates: when a plan is returned, registered and approved.
Runs are reduced to the tasks they start. `Plans` bounds the plans of a behaviour,
`Calls` the requests in flight. A client may offer a plan whose id is known already
or that is not valid; `register` then throws, and when that happens in
`replaceDraftPlan`, the old draft is rejected by then (`DraftIsOffered` excepts this).

**WorkflowRetention.** Two maps in insertion order, and of each workflow only
whether it has ended and what its runtime is. `records` and `runtimes` are the keys of
the maps; `WorkflowIds` bounds the workflows of a session, and every id is used once. A
client may restore a run that failed (`failedOnce`) at any time: `RestoreWorkflow` asks
for no more than the code does, so that it may replace or remove the runtime of a run
that is going again, whose loop goes on `detached`; the history variable `restored` says
which ones. A loop ends its workflow only while that is retained and active, and
otherwise is gone without a result (`lost`). Its names, like those of `ClientSession`, differ from those of the task store, so
that one module can prove about all three.

**ValidationRun.** `at` is the await `ValidationEngine.run` is at. `request` is what
the configuration and the scripts of the repository say of each kind of step, in
the configured order; it is chosen once and never changes. A tracked file is its
three copies: the committed one, that of the index and that of the work tree (`Copies`
says which there may be); git's status and diff are read in one step, and the status is
taken to fit into its own limit of bytes. A snapshot has the two letters of every file's
status, and of the first `DiffCap` files that `git diff` shows, which compares the work
tree with the index, the two copies. `Edit` is the command that runs as well as everybody
else: it changes, stages or commits a file; `CommandEnds` says how the command ended. The
history variables `origin` and `disturbed` say what a snapshot cannot: whether the files
really stayed as they were. `Behind` and `Restaged` are the changes that no snapshot can
tell, by which `PassedKeepsFiles` is limited. `Proceed` is the loop from its top
to the next await, the skipped steps included. Left out are the detection of the
package manager, output, durations and the store of past validations.

**ExecutorLoop, ExecutorSession.** `at` is the await `Executor.execute` is at, and
`session` the `ExecutorSession` as a record. A call is a model value with its
arguments included; what makes two requests the same is that they are the same call
at the same revision, for reads and validations, as `fingerprint` has it. Sizes are
counted in units, so that bytes and estimated tokens are one measure. The workspace
is the content of the tracked files relative to the commit. A job is an attempt at a
task in one of three modes, the first or a later one (`again`), or one at its repair,
which may hold files that are changed already (`held`). The user edits and aborts at any
time, and a tool succeeds, fails, is denied, blocked or cancelled. A write reports the
paths it was asked for, whatever it changed, as `ToolCall` shows that it may. An attempt
that throws keeps the counts and the paths that `executor.failed` reports; `batch` is
then the calls behind the one that threw. The history variables are `failing`, the
commands that failed when they ran last, and `ran`, the calls with how often they ran.
Every limit of `resolveExecutorLimits` is in `Limits`, and every place that looks at
one is in the action of its step. Left out are prompts, wording, metrics and what
tools return.

**TaskEvidence, ContextSelection, ReviewDecision.** A file is its path, a size in
units and the version of its content; an entry of a context is what is held of one.
`Resolve`, `Widen` and `BuildContext` are `resolveExecutorContext`; `StartReview` builds
the evidence, `Answer` is every answer the model may give with all that
`review-validator.ts` makes of it, `ExpandContext` the expansion a review may ask for.
`stage` is the await the task is at, `wanted` what the Reviewer asked for; `EditFile` is
everybody else who changes a file, `CancelTask` the caller's signal. A list is sorted by
insertion, as a stable sort is, and filled into a budget entry by entry (`Gather`). What
the words of a prompt add to a file's score is a constant (`Hits`, `TaskHits`).

**ProviderCall.** The model's answer is a `script` of events chosen at the start, and
the connection may deliver it in any chunks, break or end anywhere. A promise the
adapter awaits settles in one step and the code behind the await runs in a later one,
so that the signal can be raised in between. The child of a CLI is an actor of its
own, which need not heed a SIGTERM, and may exit without reading its prompt: the pipe to
it then breaks, and since nobody listens for that error, the calling process may end
(`InputBreaks`, `crashed`). A line of a CLI is of the type that is looked for, of another,
or noise; without a line of that type the last line of JSON is taken. An answer is the
number of its text pieces and its tool calls.

**ToolCall, LocalCommand.** A call asks leave for each of its paths or its command
(`CommandClass`, `Sensitivity` and `Decision` are the permission engine's
classification), the user answers, and the tool then acts in the steps between its
awaits: a write through its temporary file, a patch in the check and the application
of `git apply`. The user edits the same files meanwhile. A path may be a link, or lie
below one, to the outside of the workspace or to another place in it (`LeadsTo`): it is
judged by its own name, and the file it leads to is read or written. A patch is its
sections, each with what `ApplyPatchTool.parse` looks at in its diff line and headers, and
the file that git takes it for, which is another than the tool's where a header lacks
`a/` or `b/`. Header lines are those of a section; the parser's reading of the same words
within a hunk is left out. `git apply` is external: it matches the whole patch before it
writes, does not write through a link, and can be killed while it writes; an error of the
file system between two of its writes is left out.

**ClientSession.** Of the core it has what the client sees of each workflow. `shown` is
the session's workflow, `current` the record it is projected on, `planning` the
generation in flight, `history` and `disk` the records in memory and in the file,
newest first. Each handler runs up to its first await in one step; `Synced` is the
projection every event makes. `let` is a history variable: records the client let go
of while their workflow was live. A reload takes what is on disk.

## 3. Runs

| Run | Question | Bounds |
|---|---|---|
| `workflow_run` | does a run keep the order of dependencies, one task at a time, quiet while paused, its outcomes and passes; does it implement the lifecycle; does an abort stop the loop, does the loop end or wait for a client? | 3 tasks of which 2 are ready at once and the third depends on the later one; repair; 2 callers and the caller's signal; 2 pauses, 2 permissions, 2 attempts per task |
| `repair` | what is judged at each await, what stops the loop; does it keep its contract and end? | 2 findings, limits 5/5/5/2, 1 expansion, threshold 2 |
| `task_store` | states, retention and late outcomes | 3 plans of a 2-task chain in 2 places, 2 calls per task |
| `plan_approval` | does a plan say what was answered, is only approved content worked on that can be carried out, are decisions final, is there a draft to decide on? | 2 workflows, 3 plans, 2 requests in flight, rules of 2 plans kept; ids may be reused; 3 contents a client may give a plan, one cyclic; answers with up to 5 criteria of 3 lengths, all dependencies of 2 tasks, up to 2 values in fences or prose |
| `retention` | what is forgotten first, is a runtime in use kept? | 3 workflows, 2 retained, 1 runtime; all may be active, and failed ones be restored at any time |
| `validation` | what does a passed validation mean, and does it leave the files alone? | 3 steps, each in one of 4 configurations; 2 tracked files, one of which can be modified in two ways and staged, and 1 diff shown |
| `executor` | are calls accounted for, is none repeated, is completion earned? | 1 file with 2 contents; 6 kinds of attempts and repairs; a read of the context and another, a write, a validation and a malformed request; batches of up to 2, 4 calls and 3 turns |
| `task_evidence` | does a review pass only what deserves it, is what it asks for shown, are omissions said, does the relevant come first? | 4 paths, one without a file; budgets of 2 files and 3 units; 3 turns, 2 expansions, 1 change per file |
| `client` | is one workflow at work and every active record its own, does a failed record carry the last failure? | 2 workflows of 2 tasks, a history of 1 or 2 records, 1 reload |
| `provider` | is an answer whole, a stop named, a child stopped, does the call end? | 6 adapters, 2 tool calls in 2 parts each, 3 lines of CLI output allowed |
| `tools` | no effect without leave, a true report, an end | 11 paths of every kind of place and name, links within the workspace included; 4 tools, 2 policies; patches of 2 files, those the tool refuses, and one that git reads in another way; 1 edit |
| `refute_DeniedRunIsReported` | refuted, see below | 2 tasks, 1 permission |

Why the bounds are enough. Two callers give every pair of racing calls; a third
would only repeat one of them, since a call's effect does not depend on who made
it. Two attempts of a task give a retry and its failure; two pauses or permissions
give one in an attempt and one in its retry. Three tasks with two ready at once are
the least plan in which the order of the plan, the order of dependencies and the
downstream of a failure differ. In the store and the retention maps the limits of 10 plans,
20 workflows and 20 runtimes are scaled to 2, 2 and 1, with more of each than places. In
`plan_approval` criteria of up to one more than can be grouped, of lengths that fit
with each other, with short ones only and with none, meet every branch of the
grouping. In `repair` the limits on cycles, executions and validations are wide enough
for the stuck threshold to bite first and the limit on reviews is narrow enough to be
reached; the others are covered by the proof, for all limits. Three steps give a
failure, one that is skipped for it and one between them; two files of which one diff is
shown give a change behind the limit and one before it, and the copies of the second a file
that was modified before, is modified again and is staged (that a command commits is left
to the proof). In `executor` every limit is small
enough to be reached, and two calls in a batch give a duplicate within it and one that
is left over when a limit ends the batch; `run_command` other than a validation is left
out of the instance (it makes the run six times larger and behaves as a write whose
files are found by the diff). In `task_evidence` no budget holds all files, so that
something is cut or left out at every stage. In `client` one reload gives a restart
before, during and after a retry; the file is not followed after the last reload,
since nothing reads it again. In `provider` the parts of two calls are mixed, and the
CLI's third and fourth lines meet the limit of output.

`MaxPauses`, `MaxAsks` and `MaxAttempts` (in `WorkflowRun`), `MaxCalls` (in
`TaskExecutionStore`), `MaxBatch` (in `ExecutorLoop`), `MaxVersion` (in `TaskEvidence`),
`MaxEdits` (in `ToolCall`) and `MaxReloads` (in `ClientSession`) are bounds that are not
the code's own, beside the sizes of the sets. Symmetry is used for plans, calls and
workflows, never in a run with a liveness property.

`WorkflowRun` is never without a step, because `abortWorkflow` can always be
called; its deadlock check therefore says little, and `LoopEndsOrAsks` is what
shows that the loop does not hang. The others do stop, when what they model has ended
or the ids and bounds are used up: these runs do not check for deadlock, and where
something must end a liveness property says so.

**Fairness.** `WorkflowRun` assumes weak fairness of the coroutine's own steps and
of nothing a client does: the event loop runs what is ready, and what the
stages await returns, since requests to providers have a time limit of five
minutes (`docs/archive/releases/ALPHA_DOGFOOD_HISTORY.md:60`) and commands have
time limits of their own, which `provider` and `tools` check (`CallEnds`). A gate that
waits for a client may wait for ever. `RepairLoop` assumes weak fairness of its steps,
and with it that a run that is paused within the repair is resumed. `ProviderCall`
assumes that code which was resumed goes on, that a timer fires and that the
credential store answers; nothing of the server, the child or the Core. Its `CallEnds`
allows that the process ends with the call, when a CLI does not read its prompt. `ToolCall`
assumes the same of code and timers, and that what was sent a SIGKILL dies and its
pipes close; the user need not answer, so that `CallEnds` speaks of calls that have
their leave.

### Refuted statement

| Property | The behaviour TLC finds |
|---|---|
| `DeniedRunIsReported` | a permission is denied while Repair works; Repair gives up, the loop fails a workflow that has failed already, and the caller waits for ever |

It leaves `OutcomeIsDelivered` intact, which speaks of outcomes that were recorded;
what it shows is a run that records none. `PROJECT.json` quotes the test it is held
against.

### Behaviours that documents deny, in the models without a run

Each of these can be seen by stating the sentence as an invariant or action property
of the module named, or by leaving out the exception that a property makes for it; the
hazards in `PROJECT.json` carry them as notes.

* `WorkflowRun`: a pause requested during the last task is taken when the loop has
  ended; `paused -> completed` throws, the caller hears nothing
  (`orchestrator.ts:1046`, against `core/test/runtime-control.test.ts:120`).
* `WorkflowRun`: a permission that is allowed drops a pause request that is
  outstanding (`workflow-engine.ts:223`, against the comment at
  `orchestrator.ts:978`).
* `WorkflowRun`: an attempt that was paused and resumed and then fails is not offered
  for a retry (`orchestrator.ts:1681`, against
  `docs/archive/releases/ALPHA_DOGFOOD_HISTORY.md:50`).
* `ValidationRun`: a command changes a file behind the 256 KiB of the diff that was
  modified before, or stages or commits what it changed, and passes
  (`validation-engine.ts:232`, `git-diff-tool.ts:42`, against
  `core/test/validation-engine.test.ts:312`). `PassedKeepsFiles` excepts both.
* `ExecutorSession`: a read of a file in the initial context is turned away as a
  duplicate after the file was written (`executor-session.ts:314`); a read behind a write
  in its batch runs at the new revision, is remembered at the old one, and runs again at
  the new one in a later round (`executor-session.ts:150`, `290`, against
  `docs/archive/audits/2026-09/EXECUTOR_HARDCODE_AUDIT.md:27`). `NoCallTwice` bounds the
  runs by the changes.
* `ExecutorLoop`: when a tool throws, the calls behind it in its batch are requested and
  neither executed nor invalid in `executor.failed` (`executor.ts:380`, against
  `EXECUTOR_HARDCODE_AUDIT.md:36`). `AccountsAdd` excepts them.
* `TaskEvidence`: a task's context may hold a file as it was before an earlier task
  (`orchestrator.ts:1193`, against `executor-prompt-builder.ts:30`).
* `ClientSession`: a recovery message during a retry deletes the running workflow's
  runtime (`orchestrator.ts:316`).
* Read while modelling `PlanApproval`, and not modelled: the pipeline fingerprints the
  trimmed copy that `PlanValidator` returns, `approve` the client's object; a plan of
  a client with white space around a text fails as changed after its approval
  (`orchestrator.ts:1473`, `plan-runtime-store.ts:114`).

Other behaviours a reader may not expect are hazards with a note as well: an abort in
the last stage of a task that passes ends the run without an outcome; `begin` accepts
a task that is running; with every place of the store in use, a further plan is
evicted by its own insertion; when all retained workflows are active, the oldest goes
though it is being run; a CLI that ignores SIGTERM outlives an abort, and one that exits
without reading its prompt may end the calling process (`cli-subscription-provider.ts:486`);
`apply_patch` reports a file that git did not write when a header lacks `a/` or `b/`
(`apply-patch-tool.ts:106`), and a write to a link is judged by the link's name, not by
that of the file it writes (`write-safety.ts:29`).

## 4. Proofs

TLAPS proves what follows for every value of the constants that the named assumptions
admit: every graph, every number of callers, paths, files and calls, all limits, every
answer of a model. Each proofs module states an inductive invariant, proves that each
action keeps it, and takes the properties from it; the invariants were checked by TLC on
the instances of section 3 before they were proved.

* `WorkflowRunProofs`, the first invariant: `Invariance` (`Spec => []IInv`), and from it
  `TypeCorrect`, `DependenciesFirst`, `OneAtATime` and `QuietWhilePaused`. The type
  invariant is not inductive: at a point of the pipeline an action uses `task` as a task,
  so that the invariant has to say where the coroutine has one (`Stage`). That no
  second task is in progress holds because a task is only selected when nothing
  is started that has not passed (`BetweenTasks`), the selected task is the first
  ready one and stays it until it passes (`Selection`), and `completed` holds only
  executed tasks (`PassedAreExecuted`). That a paused workflow is quiet needs that
  the gate is shut from the pause on (`PausedAtGate`) and that a loop that is gone
  leaves an ended workflow or all tasks passed (`LoopGone`).
* The second invariant, `FullInvariance` (`Spec => []FullInv`), adds how a run ends: what a
  status of the workflow says of the coroutine under it (`StatusIsEarned`), that no
  pause request is left when a run has completed (`RequestsAreLive`), that there is no
  verdict on an execution that is under way or has failed (`VerdictsFollowExecution`),
  and that the loop records a failure of its last task and of no other
  (`FailureIsRecorded`). From it follow `EveryoneIsTold`, `RetryIsNext`, `EarnedPasses`
  (a property of steps) and `Refinement`: `WorkflowRun` implements `WorkflowLifecycle`,
  with one step of the lifecycle, or none, for each action of the run.
* `RepairLoopProofs`: `RepairInvariance` for all limits that `resolveRepairLimits`
  accepts, and `KeepsContract`: the loop refines `RepairContract`. The limits hold
  because attempts are spent in step (`SpentInStep`), and a step maps to a step of
  the contract because of what has been judged at each await (`Judged`).
  `ExecutionsAreBounded` needs no sum over the findings: an execution is put down to a
  pair of a finding and a number, the first, second or a later repair of it, which no
  earlier execution was put down to (`EachOnItsOwn`), and there are only so many pairs.
* `RetentionProofs`, the task store: `RecordsStaySound` and `CompletedIsFinal` for any
  number of plans, places and calls. They rest on lemmas on begin, finish and
  fail: the refresh gives every waiting task the one state its dependencies
  justify, so that a record stays sound whatever order outcomes come in. A second
  invariant is about the order of use (`OrderPart`, in `StoreIsBounded`); from it,
  `RunningPlansAreKept`: when there is one plan too many, the victim is the first that is
  idle, and a plan just inserted is always idle, so that there is one.
* `RetentionProofs`, the session: `RuntimesAreKept` and `ActiveWorkflowsGoLast`, from
  `RetentionInv`. The loop that drops runtimes stops at the least number that satisfies
  its condition, so that all it has passed have finished; the eviction of a workflow
  takes the least that has ended. That a runtime is kept is inductive with the size and
  the members of the map of workflows. `RuntimesAreKept` has an exception, and the code
  needs it: a client that restores a workflow as failed while it is run again takes the
  runtime from the run (`orchestrator.ts:315`), whose loop is then among `detached`.
* `RetentionProofs`, the client: `OneWorkflowIsLive` and `LatestIsRestored`, from
  `ClientInv`. A workflow at work is the one that is shown (`SessionPart`): every way to
  another one looks at `ShownIsLive` first, which is why an outcome that is kept while
  the shown workflow works can only be an aborted one. `IsTrue` says of each record of
  the history why it is not stale: it is active only as the current one, and its
  recovery is the last failure of a workflow that is not at work, so that the step that
  sets a workflow to work has to touch its record. The history is handled as a set of
  records with one per task (`IsHistory`); the lemmas on `Those` say what a filtered
  history is as a set.
* `PlanApprovalProofs`: `WorkStaysApproved`, `DecisionsStay` and `DraftStaysOffered`, with
  `TypeCorrect`. A task in flight was given the approved content because an approved
  plan stays the plan of its workflow (`ApprovalsHold`), which can be given no other: one
  request at most has put a workflow into planning (`OnePlanner`). `AcceptedPlans` is
  about the pure part: what `PlanValidator` accepts can be carried out in some order. Its
  proof takes a least set of tasks left out of an order and shows that it is empty.
  The other pure half is `GroupedCriteria`, about `groupCriteria`, which takes pairs of
  neighbours from the left. It is proved along the loop, for each position: the rounds so
  far account for the surplus (`CountsAdd`), the groups say what the criteria said
  (`SaysTheSame`), and as long as pairs are still needed, no choice of pairs among the
  places passed has more of them than were taken (`PairsAreMost`). At the end, a choice
  that has enough shows that enough were taken. `AnswersStayKept` joins the two halves.
* `EvidenceProofs`, validation: `EarnedVerdicts` and `TypeCorrect` for any number of steps
  in any configuration, from what every result so far had to be (`Due`) and what fail-fast
  follows (`StopIsEarned`). `FilesAreKept` holds for every limit of the diff, since the
  property excepts the changes that no snapshot can tell (`Behind`, `Restaged`); the lemma
  `SnapshotsTell` is that between two snapshots that are alike no other change has been.
* `EvidenceProofs`, the review: `PassesAreDeserved`, `NothingIsLeftOutSilently` and
  `RequestsAreServed`, from `EvidenceInv`. The lemmas are on the loop that fills a budget
  (`Gather`): at each entry it is within its budget, holds no path twice, has cut nothing
  unless it says so, and has every entry it passed unless it is full (`Gathered`). What a
  budget has once taken it takes again, from the front of a longer queue (`TakenAgain`):
  so what an expansion found is not lost when it is filled into the evidence.
* `EvidenceProofs`, the context: `NamedFilesComeFirst`, from `ChoiceInv`. The insertion
  sort is ordered and keeps its elements; a file that the task names scores at least
  100, which the words of the task, at most 80, do not reach for any other; and the loop
  that fills the budget from a sorted list is full before it passes over an entry. A file
  that an expansion read scores 80 more, so that the invariant has to say what was missing
  (`ContextIsChosen`): what the expansion read is missing files and symbols of the task
  and nothing else, and its own budget is no smaller than that of the selection.
* `ExecutorLoopProofs`: `AccountsAreTrue`, `CompletionIsEarned`, `NothingRunsTwice`, and
  `CallLimit`, which no run checks. `AccountsPart` is the account with the calls still
  to come, also of an attempt that throws; `BatchPart` says that what is still to be run
  is not known under its fingerprint, nor stands earlier in its batch; `RunsPart` ties the
  fingerprints to how often each call ran and to the changes reported since; `EarnedPart`
  ties the commands that failed to the errors that overrule the model.
* `ToolCallProofs`: `EffectsHaveLeave` and `OutcomesAreTrue`. `LeavePart` counts the requests
  that were granted and lets no step past them before all are; `PlacePart` keeps what the
  inspection of the paths found; `ChildPart` ties a signal that was sent to its reason;
  `WorkPart` says what each tool has done to the files at each of its steps, and `EndPart`
  what a call that has ended came to. `PatchFacts`: of a patch whose headers all have `a/`
  and `b/`, git takes the files that the tool asked for.
* `ProviderCallProofs`: `AnswersAreWhole`, `StopsAreNamed` and `ChildrenAreStopped`. What a
  stream amounts to so far is counted by its frames (`StreamPart`), so that a stream that
  has said it is finished holds everything; a CLI's promise settles once, and with it a
  child that still runs has been signalled (`ChildPart`). The first two are about the
  compatible adapter and the CLIs: Anthropic's and Gemini's accept a text that was cut,
  and of a stop only the compatible adapter and a CLI's time limit name the reason.

**Assumptions.** They are named in the modules, and TLC evaluates each on the instances:
a graph without a cycle and with distinct ranks (`GraphAssumption`, which
`PlanValidator` checks); finite sets, positive limits and names that are distinct
(`RunAssumption`, `StoreAssumption`, `RetentionAssumption`, `RepairAssumption`,
`ApprovalAssumption`, `ValidationAssumption`, `ExecutorAssumption`,
`ProviderAssumption`); a plan in the client with at least one task and none twice
(`ClientAssumption`, as `PlanValidator` has it); values in an answer that are a plan or
are none (`DraftAssumption`, as its schema has it); the inputs of the tools, which have
one path where their schemas have one (`ToolAssumption`). `EvidenceAssumption` has the
defaults of the context engine's budgets and limits as far as they matter, an expansion
no smaller than a selection and at most 80 points for the words of a task, and the
results that the schemas of validation and review admit. No theorem has a hypothesis of
its own. Two assumptions are about others than this code. `ScriptAssumption` says that a
compatible API tells that an answer is finished after all of it, and that a CLI that says
anything ends with its answer, in a line of the type that is looked for, or in one of JSON
when there is none of that type. Without it an answer could not be whole: after `[DONE]`
nothing is heeded, and a CLI's last result is taken wherever it stands. `PatchAssumption`
says what git takes a patch for: the path its headers name, when all of them have `a/` and
`b/`, of which git strips one component; no file has two sections, and a section without
headers has a diff line that the tool can read.

**Only model-checked.** Liveness (`AbortStopsTheLoop`, `LoopEndsOrAsks`, `LoopEnds`, and
`CallEnds` of providers and tools), which is out of TLAPS's reach. Every invariant and
every property of steps that a run checks is also proved, and so are both refinements.

The library's induction theorems cannot be used here. Where a proof is about what a loop
computes (`Gather`, `Sorted`, `Those`, `Pairs`), the loop is a recursive function on
the positions of its input, and the proof takes the least position at which the claim
fails (`LeastNumber`, `UpTo`); the least exists because the strict subsets of a finite set
are well-founded.

## 5. Not modelled

* Listeners that call back into the orchestrator during an event, usage and
  per-task records, and runs restored after a restart, in `WorkflowRun`.
* `completeWorkflow` and `failWorkflow`, which only tests call.
* `executeTask` for a plan that was never registered, and restored approvals, in
  `PlanApproval`; the bound on task records and a restore without a result in
  `WorkflowRetention`.
* The package manager's detection and the store of past validations; the store of
  reviews; the cycle store of repairs, which is only reported.
* The composition of the run with the detailed models of its stages: in `WorkflowRun`
  and `RepairLoop` the ends of executor, validation and review are choices. That the
  detailed models end in one of those choices is read off their final states, not
  checked.
* In the providers: listing models, credentials, prices, the translation of requests;
  in the tools: those that only read, and the cap on output; in the client: rendering,
  provider settings and credentials, and a history file that several windows write.
* The event bus, registries, rules, the command-line client, the usage and benchmark
  tools, with their reasons in `PROJECT.json`. What remains of the code is mainly the
  rendering of the web view, the parsing of arguments and of search results, prompts and
  event payloads: wording and layout, on which no property of the system depends.

## 6. State and outlook

The components that decide what is done to a workspace are modelled, most of them in part
(section 5 and the notes in `PROJECT.json` say what is left out of each), and all safety
properties of the runs are proved for every value of the constants. What remains:

1. The liveness properties, for which the instances of section 3 are the evidence.
2. The composition of `WorkflowRun` with the detailed models of its stages, as a
   refinement of the choices it makes (section 5).
3. The restart of the Core with restored approvals, and the stores that only report.
