------------------------ MODULE TaskExecutionStore -------------------------
(*****************************************************************************)
(* The execution states of several plans (executor/task-execution-store.ts)  *)
(* and the executeTask calls that change them.  The store keeps at most      *)
(* MaxPlans plans, least recently used first, and evicts the oldest one      *)
(* that holds no running task.  Every method of the store first looks its    *)
(* plan up, which makes it the most recently used or creates its record.     *)
(*                                                                           *)
(* A call of executeTask is two steps, begin and the outcome, with the       *)
(* Executor between them: other plans, and other calls for the same task,    *)
(* come between.  All plans have the graph of TaskGraph.  Timestamps and     *)
(* attempt numbers are left out, and of a result only whether it is kept.    *)
(*****************************************************************************)
EXTENDS TaskStates, SequencesExt, Subsequences

CONSTANTS
  Plans, NoTask,
  MaxPlans,     \* limits.maxPlans
  MaxCalls      \* bound on the calls in flight for one task

ASSUME StoreAssumption ==
  /\ IsFiniteSet(Plans) /\ NoTask \notin Tasks
  /\ MaxPlans \in Nat \ {0} /\ MaxCalls \in Nat \ {0}

VARIABLES
  order,    \* the retained plans: the keys of the map, in insertion order
  kept,     \* their records; a plan that is not retained has a fresh one
  calls     \* executeTask calls in flight

vars == <<order, kept, calls>>

Fresh == [states |-> FreshRecord, full |-> {}, heavy |-> NoTask]

Records == [states : [Tasks -> TaskStatuses], full : SUBSET Tasks,
            heavy : Tasks \union {NoTask}]

Init ==
  /\ order = <<>> /\ kept = [p \in Plans |-> Fresh]
  /\ calls = [p \in Plans |-> [t \in Tasks |-> 0]]

Holding(p) == \E t \in Tasks : kept[p].states[t] = "running"

Idle(q) == {i \in DOMAIN q : ~Holding(q[i])}

\* Mutant: the oldest plans go, whatever they hold.
OldestVictims(q) == {q[i] : i \in {j \in DOMAIN q : j <= Len(q) - MaxPlans}}

\* evictPlans drops the first plans without a running task, as many as there
\* are too many, or all of them.
Victims(q) ==
  {q[i] : i \in {j \in Idle(q) :
                  Cardinality({k \in Idle(q) : k <= j}) <= Len(q) - MaxPlans}}

Evicted(q) == Those(q, Plans \ Victims(q))

\* The private lookup of a plan.  A new record is retained before the eviction:
\* when every other plan holds a running task, the record evicted is the new one.
Found(p) ==
  IF p \in ToSet(order) THEN Append(Those(order, Plans \ {p}), p) ELSE Evicted(Append(order, p))

\* The records r of the plans in q; a record that is not retained is lost, and
\* with it what the caller does to it.
Retained(q, r) == [p \in Plans |-> IF p \in ToSet(q) THEN r[p] ELSE Fresh]

Write(p, record) ==
  /\ order' = Found(p)
  /\ kept' = Retained(order', [kept EXCEPT ![p] = record])

Busy == {p \in Plans : \E t \in Tasks : calls[p][t] > 0}

\* list and get, and a begin that is refused.
Look(p) == Write(p, kept[p]) /\ UNCHANGED calls

\* executeTask up to its first await.  The new state has no result.
Begin(p, t) ==
  /\ CanBegin(kept[p].states, t)
  /\ calls[p][t] < MaxCalls
  /\ calls' = [calls EXCEPT ![p][t] = @ + 1]
  /\ Write(p, [kept[p] EXCEPT !.states = Begun(@, t), !.full = @ \ {t}])

\* releaseSupersededEvidence compacts only the task that was heavy before.
Released(record, t) == IF record.heavy = t THEN record.full ELSE record.full \ {record.heavy}

Concluded(record, t, outcome, result) ==
  [states |-> Ended(record.states, t, outcome), heavy |-> t,
   full |-> Released(record, t) \union result]

\* Mutant: a failure is recorded without a look at the state it replaces.
FailedAnyhow(record, t) == Concluded(record, t, "failed", {})

\* fail: a failed task may fail again; any other state is left, and fail throws.
Failed(record, t) ==
  IF CanTransition(record.states[t], "failed")
  THEN Concluded(record, t, "failed", {}) ELSE record

\* The Executor returned a result.  finish throws unless the task is running;
\* executeTask catches that and calls fail.
Returns(p, t) ==
  /\ calls[p][t] > 0 /\ calls' = [calls EXCEPT ![p][t] = @ - 1]
  /\ IF kept[p].states[t] = "running"
     THEN \E outcome \in {"completed", "failed"} :
            Write(p, Concluded(kept[p], t, outcome, {t}))
     ELSE Write(p, Failed(kept[p], t))

\* The Executor, or the resolution of its context, threw.
Throws(p, t) ==
  /\ calls[p][t] > 0 /\ calls' = [calls EXCEPT ![p][t] = @ - 1]
  /\ Write(p, Failed(kept[p], t))

\* What the states of one plan must be: nothing was started before all it
\* depends on was completed, and what was not started says why.
Sound(states) ==
  LET done == CompletedIn(states)
      Has(t, s) == \E d \in Deps[t] : states[d] \in s
  IN \A t \in Tasks :
       /\ states[t] \in {"ready", "running", "completed", "failed"} => Deps[t] \subseteq done
       /\ states[t] = "pending" => ~ Deps[t] \subseteq done
       /\ states[t] = "blocked" => Has(t, {"failed", "running"})
       /\ Has(t, {"failed"}) => states[t] = "blocked"

\* The states a client saved when the workflow failed: of the plan as it is
\* retained, or of one that an earlier process executed.
Saved(p) ==
  {states \in IF p \in ToSet(order) THEN {kept[p].states} ELSE [Tasks -> TaskStatuses] :
     /\ Sound(states)
     /\ \E t \in Tasks : states[t] = "failed"
     /\ \A t \in Tasks : states[t] # "running"}

\* restoreApprovedExecution: saved states have no results.  A retained plan
\* keeps its place in the order.
Restore(p) ==
  /\ p \notin Busy
  /\ \E states \in Saved(p) :
       LET record == [Fresh EXCEPT !.states = states]
       IN IF p \in ToSet(order)
          THEN kept' = [kept EXCEPT ![p] = record] /\ UNCHANGED order
          ELSE Write(p, record)
  /\ UNCHANGED calls

Next ==
  \E p \in Plans :
    \/ Look(p) \/ Restore(p)
    \/ \E t \in Tasks : Begin(p, t) \/ Returns(p, t) \/ Throws(p, t)

Spec == Init /\ [][Next]_vars

----------------------------------------------------------------------------
\* Properties.

\* The types of the variables.  The bound on the plans holds although a plan in
\* use is never evicted, at the price that a plan may not be retained at all.
TypeOK ==
  /\ Len(order) <= MaxPlans
  /\ order \in Seq(Plans) /\ \A i, j \in DOMAIN order : order[i] = order[j] => i = j
  /\ kept \in [Plans -> Records]
  /\ calls \in [Plans -> [Tasks -> 0 .. MaxCalls]]

\* Whatever the order in which calls for several tasks of a plan begin, end,
\* fail and are repeated, its states agree with its graph.
RecordsAreSound == \A p \in Plans : Sound(kept[p].states)

\* One full result per plan, that of the task that ended last.
EvidenceOfNewest == \A p \in Plans : kept[p].full \subseteq {kept[p].heavy}

\* A plan is not evicted while one of its tasks is running.
RunningIsKept == [][\A p \in Plans : Holding(p) => p \in ToSet(order')]_vars

\* A completed task stays completed as long as its plan is retained: the late
\* failure of a second call for it changes nothing.
CompletedStays ==
  [][\A p \in Plans : p \in ToSet(order) /\ p \in ToSet(order') =>
       CompletedIn(kept[p].states) \subseteq CompletedIn(kept'[p].states)]_vars

=============================================================================
