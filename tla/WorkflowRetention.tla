-------------------------- MODULE WorkflowRetention -------------------------
(******************************************************************************)
(* Which workflows a long session still knows: WorkflowStateStore keeps       *)
(* MaxWorkflows of them, and the orchestrator keeps about MaxRuntimes         *)
(* runtimes of approved plans (workflowRuntimes).  Both are maps in           *)
(* insertion order; neither is reordered by use, and each forgets on its own. *)
(*                                                                            *)
(* A workflow is reduced to what retention looks at: whether it has ended,    *)
(* and what its plan's runtime is.  A client may restore a run it knows to    *)
(* have failed (restoreApprovedExecution), also when that run is going again. *)
(******************************************************************************)
EXTENDS Naturals, FiniteSets, SequencesExt, Subsequences

CONSTANTS
  WorkflowIds,
  MaxWorkflows,   \* limits.maxWorkflows
  MaxRuntimes     \* the 20 of runApprovedPlan

ASSUME RetentionAssumption ==
  /\ IsFiniteSet(WorkflowIds)
  /\ MaxWorkflows \in Nat \ {0} /\ MaxRuntimes \in Nat \ {0}

VARIABLES
  records,    \* the keys of WorkflowStateStore.records
  status,     \* "active", "failed" or "ended"; "unknown" before the start
  runtimes,   \* the keys of workflowRuntimes
  run,        \* a workflow's runtime there: "none"; "going"; "finished", with a terminalResult;
              \* "restored" without one; or "lost", its loop being gone without one
  detached,   \* the workflows with a loop that goes on under a runtime that is not kept
  failedOnce, \* those with a run that failed, so that a client has a record to restore
  restored    \* history: those that were restored while a run of theirs was going

retentionVars == <<records, status, runtimes, run, detached, failedOnce, restored>>

RetentionInit ==
  /\ records = <<>> /\ status = [w \in WorkflowIds |-> "unknown"]
  /\ runtimes = <<>> /\ run = [w \in WorkflowIds |-> "none"]
  /\ detached = {} /\ failedOnce = {} /\ restored = {}

HasEnded(st, w) == st[w] \in {"failed", "ended"}

\* Mutant: the oldest goes, ended or not.
Oldest(q, st, i) == i = 1

\* nextEvictionCandidate: the first workflow that has ended, else the first.
Candidate(q, st, i) ==
  IF \E j \in DOMAIN q : HasEnded(st, q[j])
  THEN HasEnded(st, q[i]) /\ \A j \in 1 .. i - 1 : ~HasEnded(st, q[j])
  ELSE i = 1

\* evictWorkflows, after one workflow was added.
EvictedWorkflows(q, st) ==
  IF Len(q) <= MaxWorkflows THEN q
  ELSE RemoveAt(q, CHOOSE i \in DOMAIN q : Candidate(q, st, i))

\* WorkflowEngine.start; the id is new.
StartWorkflow(w) ==
  /\ status[w] = "unknown"
  /\ status' = [status EXCEPT ![w] = "active"]
  /\ records' = EvictedWorkflows(Append(records, w), status')
  /\ UNCHANGED <<runtimes, run, detached, failedOnce, restored>>

\* A workflow ends without a run, or outside it.
End(w) ==
  /\ w \in ToSet(records) /\ status[w] = "active" /\ run[w] = "none" /\ w \notin failedOnce
  /\ \E s \in {"failed", "ended"} : status' = [status EXCEPT ![w] = s]
  /\ UNCHANGED <<records, runtimes, run, detached, failedOnce, restored>>

\* Mutant: the oldest runtime goes, finished or not.
DropOldest(q, r) == IF Len(q) > MaxRuntimes THEN Tail(q) ELSE q

\* The loop of runApprovedPlan drops the oldest runtimes, up to the first that
\* has not finished.
Dropped(q, r) ==
  LET n == CHOOSE k \in 0 .. Len(q) :
             /\ Len(q) - k >= MaxRuntimes \/ k = 0
             /\ \A i \in 1 .. k : r[q[i]] = "finished"
             /\ Len(q) - k <= MaxRuntimes \/ r[q[k + 1]] # "finished"
  IN SubSeq(q, n + 1, Len(q))

\* The runtimes that are going and in use no more, when gone leave the map.
Cut(gone) == detached \union {v \in gone : run[v] = "going"}

\* runApprovedPlan, of a plan that was not run before.
Run(w) ==
  /\ w \in ToSet(records) /\ status[w] = "active" /\ run[w] = "none" /\ w \notin failedOnce
  /\ runtimes' = Dropped(Append(runtimes, w), [run EXCEPT ![w] = "going"])
  /\ LET gone == ToSet(runtimes) \ ToSet(runtimes')
     IN /\ run' = [v \in WorkflowIds |->
                     IF v = w THEN "going" ELSE IF v \in gone THEN "none" ELSE run[v]]
        /\ detached' = Cut(gone)
  /\ UNCHANGED <<records, status, failedOnce, restored>>

\* A loop can end its workflow only while that is retained and active: every other
\* transition throws, outside of the loop's try block.
CanFinish(w) == w \in ToSet(records) /\ status[w] = "active"

Settle(w, s) ==
  /\ status' = [status EXCEPT ![w] = s]
  /\ failedOnce' = IF s = "failed" THEN failedOnce \union {w} ELSE failedOnce

\* The run ends (finishRuntime), or is gone and has no result.
Finish(w) ==
  /\ run[w] = "going"
  /\ IF CanFinish(w)
     THEN run' = [run EXCEPT ![w] = "finished"] /\ \E s \in {"failed", "ended"} : Settle(w, s)
     ELSE run' = [run EXCEPT ![w] = "lost"] /\ UNCHANGED <<status, failedOnce>>
  /\ UNCHANGED <<records, runtimes, detached, restored>>

\* So does one whose runtime is not kept: its result goes to nobody.
FinishDetached(w) ==
  /\ w \in detached /\ detached' = detached \ {w}
  /\ IF CanFinish(w) THEN \E s \in {"failed", "ended"} : Settle(w, s)
     ELSE UNCHANGED <<status, failedOnce>>
  /\ UNCHANGED <<records, runtimes, run, restored>>

\* retryWorkflowExecution needs the workflow and its runtime.
Retry(w) ==
  /\ w \in ToSet(records) /\ status[w] = "failed" /\ run[w] \in {"finished", "restored"}
  /\ status' = [status EXCEPT ![w] = "active"] /\ run' = [run EXCEPT ![w] = "going"]
  /\ UNCHANGED <<records, runtimes, detached, failedOnce, restored>>

\* WorkflowEngine.restore: a workflow that is retained is left as it is, and another added
\* as failed.
Readmitted(w) ==
  IF w \in ToSet(records) THEN UNCHANGED <<records, status>>
  ELSE /\ status' = [status EXCEPT ![w] = "failed"]
       /\ records' = EvictedWorkflows(Append(records, w), status')

\* A runtime that is set again keeps its place.
Added(q, w) == IF w \in ToSet(q) THEN q ELSE Append(q, w)

\* restoreApprovedExecution, of a run that failed some time ago, whatever has become of it
\* since.  The call throws when the workflow would be forgotten at once, or the plan is not
\* the approved one.  Otherwise the runtime is replaced; and when the workflow has not failed
\* or the task cannot be retried, it is removed and the call throws as well.
RestoreWorkflow(w) ==
  /\ w \in failedOnce /\ Readmitted(w)
  /\ \/ UNCHANGED <<runtimes, run, detached, restored>>
     \/ /\ w \in ToSet(records') /\ status'[w] = "failed"
        /\ runtimes' = Added(runtimes, w)
        /\ \E r \in {"finished", "restored"} : run' = [run EXCEPT ![w] = r]
        /\ detached' = Cut({w})
        /\ restored' = IF run[w] = "going" THEN restored \union {w} ELSE restored
     \/ /\ w \in ToSet(records')
        /\ runtimes' = Those(runtimes, WorkflowIds \ {w}) /\ run' = [run EXCEPT ![w] = "none"]
        /\ detached' = Cut({w})
        /\ restored' = IF run[w] = "going" THEN restored \union {w} ELSE restored
  /\ UNCHANGED failedOnce

RetentionNext ==
  \E w \in WorkflowIds :
    \/ StartWorkflow(w) \/ End(w) \/ Run(w) \/ Finish(w) \/ FinishDetached(w)
    \/ Retry(w) \/ RestoreWorkflow(w)

RetentionSpec == RetentionInit /\ [][RetentionNext]_retentionVars

----------------------------------------------------------------------------
\* Properties.

RetentionTypeOK ==
  /\ \A q \in {records, runtimes} :
       q \in Seq(WorkflowIds) /\ \A i, j \in DOMAIN q : q[i] = q[j] => i = j
  /\ status \in [WorkflowIds -> {"unknown", "active", "failed", "ended"}]
  /\ run \in [WorkflowIds -> {"none", "going", "finished", "restored", "lost"}]
  /\ {detached, failedOnce, restored} \subseteq SUBSET WorkflowIds

\* A workflow that has not ended is forgotten only when no other could be: all
\* that are retained then are active, and as many as can be.
ActiveGoLast ==
  [][\A w \in ToSet(records) \ ToSet(records') : status[w] = "active" =>
       /\ Len(records') = MaxWorkflows
       /\ \A v \in ToSet(records') : status'[v] = "active"]_retentionVars

\* A run that has not finished can still be paused, answered and aborted: its runtime is
\* never dropped for those of others, however many come after it.  Only a client that
\* restores a run as failed which is going again cuts it off.
RuntimeIsKept ==
  /\ detached \subseteq restored
  /\ \A w \in WorkflowIds : run[w] = "going" => w \in ToSet(runtimes)

=============================================================================
