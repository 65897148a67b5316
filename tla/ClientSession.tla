---------------------------- MODULE ClientSession ----------------------------
(**********************************************************************************)
(* The VS Code client: NyxaraSession, which shows one workflow of the Core,       *)
(* the handlers of the sidebar's messages, and the history of tasks, which is     *)
(* all that a reload of the window leaves.  A task's record carries the id of     *)
(* its workflow, and the recovery data of a failed approved run.                  *)
(*                                                                                *)
(* The Core is here as far as the client sees it: of a run, which task is in      *)
(* flight, what is done, and how it ends; WorkflowRun has its inside.             *)
(*                                                                                *)
(* A handler runs up to its first await in one step.  Each event of the Core that *)
(* the session listens to projects the workflow on the current task's record      *)
(* (Synced), in the step that emits it.                                           *)
(**********************************************************************************)
EXTENDS Naturals, Sequences, FiniteSets, Subsequences

CONSTANTS
  Workflows,   \* the ids the Core may give
  Plan,        \* the tasks of a plan, in order, each depending on the one before it
  Retentions,  \* how many records the history may be set to keep: 20, 50 or 100 in the code
  MaxReloads,  \* bound on the reloads of a behaviour
  None

PlanTasks == {Plan[i] : i \in DOMAIN Plan}

StoreStatuses == {"pending", "running", "failed", "completed"}

\* The recovery data of a task: of which workflow, and what its run came to.
Recoveries ==
  [workflow : Workflows, store : [PlanTasks -> StoreStatuses],
   failedTask : PlanTasks \union {None}]

ASSUME ClientAssumption ==
  /\ None \notin Workflows \union PlanTasks \union Recoveries
  /\ Retentions \subseteq Nat \ {0} /\ MaxReloads \in Nat
  /\ Plan \in Seq(PlanTasks) /\ Plan # << >>
  /\ \A i, j \in DOMAIN Plan : i # j => Plan[i] # Plan[j]

VARIABLES
  core,      \* of each workflow: status, plan, store, done, task, retryable, runtime
  shown,     \* NyxaraSession.workflowId
  recovery,  \* activeRecovery: the record this window was restored from
  result,    \* the outcome the session keeps
  current,   \* currentTaskSessionId
  planning,  \* the workflow whose planning request is active
  leaving,   \* aborted runs whose coroutine, and the call awaiting it, are not back
  history,   \* the records in memory, the last changed first
  disk,      \* the records in the file; not followed after the last reload
  retention, \* maxSessions
  let,       \* the records whose workflow was live when the client let go of them
  reloads

session == <<shown, recovery, result>>
window  == <<current, planning, leaving, let>>
files   == <<disk, retention, reloads>>
clientVars == <<core, session, window, history, files>>

Live == {"planning", "awaiting_plan_approval", "running"}
Terminal == {"completed", "failed", "aborted"}
TerminalRecord == Terminal \union {"rejected", "interrupted"}

Unknown ==
  [status |-> "none", plan |-> "none", store |-> [t \in PlanTasks |-> "pending"], done |-> {},
   task |-> None, failedTask |-> None, retryable |-> None, runtime |-> FALSE]

ClientInit ==
  /\ core = [w \in Workflows |-> Unknown]
  /\ shown = None /\ recovery = None /\ result = None
  /\ current = None /\ planning = None /\ leaving = {} /\ let = {}
  /\ history = << >> /\ disk = << >> /\ retention \in Retentions /\ reloads = 0

----------------------------------------------------------------------------
\* The history.

RecordsIn(h) == {h[i] : i \in DOMAIN h}
Ids(h) == {h[i].id : i \in DOMAIN h}
RecordOf(h, id) == h[CHOOSE i \in DOMAIN h : h[i].id = id]
IsTerminal(r) == r.status \in TerminalRecord
Active(h) == {r \in RecordsIn(h) : ~IsTerminal(r)}

\* retain: every active record, and the newest terminal ones in the room left.
Retain(h, n) ==
  LET active == {i \in DOMAIN h : ~IsTerminal(h[i])}
      newer(i) == {j \in DOMAIN h \ active : j < i}
      room == IF Cardinality(active) < n THEN n - Cardinality(active) ELSE 0
      kept == active \union {i \in DOMAIN h \ active : Cardinality(newer(i)) < room}
  IN  Those(h, {h[i] : i \in kept})

Without(h, ids) == Those(h, {r \in RecordsIn(h) : r.id \notin ids})

\* create, and update: a record that changes becomes the newest.
Put(h, r) ==
  IF r \in RecordsIn(h) THEN h ELSE Retain(<<r>> \o Without(h, {r.id}), retention)

----------------------------------------------------------------------------
\* What the client makes of the Core's state.

\* executionRetry: the retry the Core offers for a workflow.
Offer(c) ==
  IF /\ c.runtime /\ c.status = "failed" /\ c.plan = "approved"
     /\ c.retryable # None /\ c.retryable \notin c.done
  THEN IF c.store[c.retryable] = "failed" THEN c.retryable ELSE None
  ELSE None

\* buildRecovery
RecoveryOf(w, c) ==
  IF c.status = "failed" /\ c.plan = "approved"
  THEN [workflow |-> w, store |-> c.store, failedTask |-> c.failedTask] ELSE None

\* taskSessionStatus, with the completion of buildWorkspaceState.
StatusOf(c, outcome) ==
  LET completion == IF outcome # None THEN outcome.status
                    ELSE IF c.status \in Terminal THEN c.status ELSE "none"
  IN  IF completion = "none" THEN c.status
      ELSE IF c.status = "failed" /\ c.plan = "rejected" THEN "rejected" ELSE completion

\* Mutant: recovery data, once recorded, is never renewed.
FirstRecovery(r, w, cs, outcome) ==
  IF w = None THEN [r EXCEPT !.recovery = None]
  ELSE LET fresh == RecoveryOf(w, cs[w])
       IN  [r EXCEPT !.status = StatusOf(cs[w], outcome),
                     !.recovery = IF @ # None /\ cs[w].plan = "approved" THEN @ ELSE fresh]

\* projectTaskSession.  Without a workflow, only the recovery data goes.
Projected(r, w, cs, outcome) ==
  IF w = None THEN [r EXCEPT !.recovery = None]
  ELSE LET fresh == RecoveryOf(w, cs[w])
       IN  [r EXCEPT !.status = StatusOf(cs[w], outcome),
                     !.recovery = IF fresh # None \/ cs[w].plan # "approved" THEN fresh ELSE @]

\* syncCurrentTask, for the state after the step.
Synced(h, id, w, cs, outcome) ==
  IF id \notin Ids(h) THEN h ELSE Put(h, Projected(RecordOf(h, id), w, cs, outcome))

Sync == history' = Synced(history, current, shown', core', result')

ShownIsLive == shown # None /\ core[shown].status \in Live

----------------------------------------------------------------------------
\* Planning and approval.

\* startRequirement up to the Planner's answer, generate included: the record, the
\* workflow, and the first projection of one on the other.
Start(w, h) ==
  /\ planning = None /\ ~ShownIsLive
  /\ core[w].status = "none" /\ w \notin Ids(h) \union Ids(disk)
  /\ core' = [core EXCEPT ![w].status = "planning"]
  /\ shown' = w /\ current' = w /\ planning' = w /\ recovery' = None /\ result' = None
  /\ history' = Put(h, [id |-> w, status |-> "planning", recovery |-> None])

SubmitRequirement(w) == Start(w, history) /\ UNCHANGED <<leaving, let, files>>

\* resetPresentation: its onChange comes while the task is still the current one.
Reset == Synced(history, current, None, core, None)

\* newTask
NewTask ==
  /\ ~ShownIsLive /\ shown # None
  /\ history' = Reset
  /\ shown' = None /\ recovery' = None /\ result' = None /\ current' = None
  /\ UNCHANGED <<core, planning, leaving, let, files>>

\* retryPlanning: the task starts anew as another one.
RetryPlanning(w) ==
  /\ shown # None /\ core[shown].status \in Terminal /\ core[shown].plan # "approved"
  /\ Start(w, Reset)
  /\ UNCHANGED <<leaving, let, files>>

\* editRequirement, of a terminal task in the history or of the one shown.
EditRequirement ==
  /\ \E r \in RecordsIn(history) : IsTerminal(r)
  /\ IF ShownIsLive
     THEN /\ let' = let \union ({current} \ {None})
          /\ UNCHANGED <<history, session>>
     ELSE /\ history' = Reset
          /\ shown' = None /\ recovery' = None /\ result' = None
          /\ UNCHANGED let
  /\ current' = None
  /\ UNCHANGED <<core, planning, leaving, files>>

\* createPlan has registered a plan, and nobody aborted.
PlannerAnswers ==
  /\ planning # None /\ core[planning].status = "planning"
  /\ core' = [core EXCEPT ![planning].status = "awaiting_plan_approval", ![planning].plan = "draft"]
  /\ planning' = None
  /\ UNCHANGED <<session, current, leaving, let, files>>
  /\ Sync

\* createPlan fails, or comes back to an abort.  The record of this request, current
\* or not, is not left active.
PlannerFails ==
  /\ planning # None
  /\ core' = IF core[planning].status \in Live THEN [core EXCEPT ![planning].status = "failed"] ELSE core
  /\ planning' = None
  /\ UNCHANGED session
  /\ LET synced == Synced(history, current, shown, core', result)
         own == {i \in DOMAIN synced : synced[i].id = planning}
     IN  history' = IF \E i \in own : ~IsTerminal(synced[i])
                    THEN Put(synced, [RecordOf(synced, planning) EXCEPT !.status = "failed"])
                    ELSE synced
  /\ UNCHANGED <<current, leaving, let, files>>

\* approvePlan, and the scheduler's start.
ApproveAndRun ==
  /\ shown # None /\ core[shown].status = "awaiting_plan_approval" /\ planning = None
  /\ core' = [core EXCEPT ![shown].status = "running", ![shown].plan = "approved", ![shown].runtime = TRUE]
  /\ UNCHANGED <<session, window, files>>
  /\ Sync

RejectPlan ==
  /\ shown # None /\ core[shown].status = "awaiting_plan_approval" /\ planning = None
  /\ core' = [core EXCEPT ![shown].status = "failed", ![shown].plan = "rejected"]
  /\ UNCHANGED <<session, window, files>>
  /\ Sync

----------------------------------------------------------------------------
\* The run, as the Core's events show it.

Todo(c) == {i \in DOMAIN Plan : Plan[i] \notin c.done}
NextTask(c) == Plan[CHOOSE i \in Todo(c) : \A j \in Todo(c) : i <= j]

\* The outcome of a run reaches the call that awaits it, and the session keeps it,
\* whatever workflow it shows by now; an aborted run is awaited until then.
Ends(w, c) ==
  /\ core' = [core EXCEPT ![w] = c]
  /\ result' = [workflow |-> w, status |-> c.status]
  /\ UNCHANGED <<shown, recovery>>
  /\ UNCHANGED <<window, files>>
  /\ Sync

TaskBegins(w) ==
  LET c == core[w] IN
  /\ c.status = "running" /\ c.task = None
  /\ c.store[NextTask(c)] \in {"pending", "failed"}
  /\ \A t \in c.done : c.store[t] = "completed"
  /\ core' = [core EXCEPT ![w].task = NextTask(c), ![w].store[NextTask(c)] = "running"]
  /\ UNCHANGED <<session, window, files>>
  /\ Sync

\* The task cannot begin, or its attempt's end is refused by a store that does not
\* have it running: the run fails with the store as it is.
RunBreaks(w) ==
  LET c == core[w]
      t == IF c.task = None THEN NextTask(c) ELSE c.task
  IN
  /\ c.status = "running"
  /\ c.task # None => c.store[t] # "running"
  /\ Ends(w, [c EXCEPT !.status = "failed", !.task = None, !.failedTask = t, !.retryable = None])

AttemptFails(w) ==
  LET c == core[w] IN
  /\ c.status = "running" /\ c.task # None /\ c.store[c.task] = "running"
  /\ Ends(w, [c EXCEPT !.status = "failed", !.task = None, !.store[c.task] = "failed",
                       !.failedTask = c.task, !.retryable = c.task])

\* Validation, Review or Repair fails a task whose attempt is completed.
ChecksFail(w) ==
  LET c == core[w] IN
  /\ c.status = "running" /\ c.task # None /\ c.store[c.task] = "running"
  /\ Ends(w, [c EXCEPT !.status = "failed", !.task = None, !.store[c.task] = "completed",
                       !.failedTask = c.task, !.retryable = None])

TaskPasses(w) ==
  LET c == core[w]
      passed == [c EXCEPT !.task = None, !.store[c.task] = "completed", !.done = @ \union {c.task}]
  IN
  /\ c.status = "running" /\ c.task # None /\ c.store[c.task] = "running"
  /\ IF passed.done = PlanTasks
     THEN Ends(w, [passed EXCEPT !.status = "completed"])
     ELSE /\ core' = [core EXCEPT ![w] = passed]
          /\ UNCHANGED <<session, window, files>>
          /\ Sync

\* session.abort: the transition is made at once; the call that awaits the run comes
\* back later.
Abort ==
  /\ ShownIsLive
  /\ core' = [core EXCEPT ![shown].status = "aborted", ![shown].task = None]
  /\ leaving' = IF core[shown].status = "running" THEN leaving \union {shown} ELSE leaving
  /\ UNCHANGED <<session, current, planning, let, files>>
  /\ Sync

OutcomeArrives(w) ==
  /\ w \in leaving
  /\ leaving' = leaving \ {w}
  /\ result' = [workflow |-> w, status |-> "aborted"]
  /\ UNCHANGED <<core, shown, recovery>>
  /\ UNCHANGED <<current, planning, let, files>>
  /\ Sync

----------------------------------------------------------------------------
\* Retry Execute.  A message may be stale: it names the failed task its button was
\* drawn for.

Retryable(t) ==
  \/ Offer(core[shown]) = t
  \/ /\ Offer(core[shown]) = None
     /\ recovery # None /\ recovery.workflow = shown /\ recovery.failedTask = t

\* restoreApprovedExecution: the workflow the engine has is kept as it is; the plan is
\* approved, the store is the record's, and the runtime is a new one, dropped when it
\* offers no retry.
Recovered(c) ==
  LET fresh == [c EXCEPT !.plan = "approved", !.store = recovery.store, !.runtime = TRUE,
                         !.done = {t \in PlanTasks : recovery.store[t] = "completed"},
                         !.retryable = recovery.failedTask]
  IN  IF Offer(fresh) # None THEN fresh
      ELSE [c EXCEPT !.plan = "approved", !.store = recovery.store, !.runtime = FALSE]

RetryExecution(t) ==
  /\ planning = None /\ shown # None /\ Retryable(t)
  /\ LET c == IF Offer(core[shown]) = t THEN core[shown] ELSE Recovered(core[shown])
     IN  IF Offer(c) = t
         THEN /\ core' = [core EXCEPT ![shown] =
                   [c EXCEPT !.status = "running", !.task = None, !.failedTask = None, !.retryable = None]]
              /\ result' = None
         ELSE core' = [core EXCEPT ![shown] = c] /\ UNCHANGED result
  /\ UNCHANGED <<shown, recovery>>
  /\ UNCHANGED <<window, files>>
  /\ Sync

----------------------------------------------------------------------------
\* The history's own operations, and the reload of the window.

\* What the file holds after a write, as long as another reload may read it.
Written(h) == IF reloads < MaxReloads THEN h ELSE << >>

DeleteTask(id) ==
  /\ id \in Ids(history) /\ IsTerminal(RecordOf(history, id))
  /\ ~(ShownIsLive /\ id = current)
  /\ history' = Without(history, {id})
  /\ disk' = Written(history')
  /\ UNCHANGED <<core, session, window, retention, reloads>>

ClearHistory ==
  /\ \E i \in DOMAIN history : IsTerminal(history[i])
  /\ history' = Those(history, Active(history))
  /\ disk' = Written(history')
  /\ UNCHANGED <<core, session, window, retention, reloads>>

\* The write queue has caught up.
Flush ==
  /\ disk # Written(history)
  /\ disk' = Written(history)
  /\ UNCHANGED <<core, session, window, history, retention, reloads>>

\* setRetention, of the history's settings.
SetRetention(n) ==
  /\ n # retention
  /\ retention' = n
  /\ history' = Retain(history, n)
  /\ UNCHANGED <<core, session, window, disk, reloads>>

\* Mutant: a record that waits for approval is left as it was.
ProposalsWait(h) ==
  LET lost == Those(h, Active(h))
      marked == [i \in DOMAIN lost |->
                   IF lost[i].status = "awaiting_plan_approval" THEN lost[i]
                   ELSE [lost[i] EXCEPT !.status = "interrupted"]]
  IN  Retain(marked \o Those(h, RecordsIn(h) \ Active(h)), retention)

\* markInterrupted, with nothing authoritative after a reload: the records it changes
\* are the newest.
Interrupted(h) ==
  LET lost == Those(h, Active(h))
      marked == [i \in DOMAIN lost |-> [lost[i] EXCEPT !.status = "interrupted"]]
  IN  Retain(marked \o Those(h, RecordsIn(h) \ Active(h)), retention)

\* The core that restoreRecovery makes of a record.
RestoredFrom(rec) ==
  [Unknown EXCEPT !.status = "failed", !.plan = "approved", !.store = rec.store, !.runtime = TRUE,
                  !.done = {t \in PlanTasks : rec.store[t] = "completed"},
                  !.failedTask = rec.failedTask, !.retryable = rec.failedTask]

\* The window reloads: only the file is left.  The newest failed record with recovery
\* data whose folder is open is restored, if it has a failed attempt.
Reload ==
  /\ reloads < MaxReloads
  /\ LET loaded == Retain(disk, retention)
         failed == {i \in DOMAIN loaded : loaded[i].status = "failed" /\ loaded[i].recovery # None}
     IN  \E open \in SUBSET failed :
           LET newest == CHOOSE i \in open : \A j \in open : i <= j
               rec == loaded[newest].recovery
               found == open # {} /\ rec.store[rec.failedTask] = "failed"
           IN  /\ core' = [w \in Workflows |->
                             IF found /\ w = rec.workflow THEN RestoredFrom(rec) ELSE Unknown]
               /\ shown' = IF found THEN rec.workflow ELSE None
               /\ recovery' = IF found THEN rec ELSE None
               /\ current' = IF found THEN loaded[newest].id ELSE None
               /\ history' = Interrupted(loaded)
  /\ result' = None /\ planning' = None /\ leaving' = {} /\ let' = {}
  /\ reloads' = reloads + 1
  /\ disk' = IF reloads' < MaxReloads THEN disk ELSE << >>
  /\ UNCHANGED retention

----------------------------------------------------------------------------
ClientNext ==
  \/ \E w \in Workflows :
       \/ SubmitRequirement(w) \/ RetryPlanning(w)
       \/ TaskBegins(w) \/ TaskPasses(w) \/ AttemptFails(w) \/ ChecksFail(w) \/ RunBreaks(w)
       \/ OutcomeArrives(w) \/ DeleteTask(w)
  \/ \E t \in PlanTasks : RetryExecution(t)
  \/ \E n \in Retentions : SetRetention(n)
  \/ NewTask \/ EditRequirement
  \/ PlannerAnswers \/ PlannerFails \/ ApproveAndRun \/ RejectPlan
  \/ Abort \/ ClearHistory \/ Flush \/ Reload

ClientSpec == ClientInit /\ [][ClientNext]_clientVars

----------------------------------------------------------------------------
\* Properties.

\* All state has its type; the history holds one record of a task, and no more of
\* them than it may keep, unless only active ones are left.
ClientTypeOK ==
  /\ \A w \in Workflows :
       /\ core[w].status \in {"none"} \union Live \union Terminal
       /\ core[w].store \in [PlanTasks -> StoreStatuses]
       /\ core[w].task \in PlanTasks \union {None}
  /\ shown \in Workflows \union {None} /\ current \in Workflows \union {None}
  /\ Cardinality(Ids(history)) = Len(history)
  /\ \/ Len(history) <= retention
     \/ \A i \in DOMAIN history : ~IsTerminal(history[i])

\* "Finish or abort the active workflow before starting a new task": a window never
\* has two workflows at work, whatever is submitted, retried, edited, restored or
\* aborted, and whichever late answers come in between.  And a record that says its
\* task is under way is that workflow's: nothing else would ever close it, and retention
\* never drops it.  A record the client let go of while its workflow was live
\* (EditRequirement) is the exception.
OneLiveWorkflow ==
  /\ \A v, w \in Workflows : core[v].status \in Live /\ core[w].status \in Live => v = w
  /\ \A i \in DOMAIN history :
       ~IsTerminal(history[i]) => \/ core[history[i].id].status \in Live
                                  \/ history[i].id \in let

\* The recovery data that a reload would take from a failed record is the last failure
\* of its run, not an earlier one: a completed task would otherwise run again.
RecoveryIsLatest ==
  \A i \in DOMAIN history :
    LET r == history[i] IN
    /\ r.status = "failed" /\ r.recovery # None
    /\ core[r.id].status = "failed" /\ core[r.id].plan = "approved"
    => r.recovery = RecoveryOf(r.id, core[r.id])

=============================================================================
