------------------------------ MODULE TaskGraph -----------------------------
(*****************************************************************************)
(* The dependency graph of an approved plan (planner/task-graph.ts).  Deps   *)
(* gives each task the tasks it depends on, Rank its position in the plan.   *)
(* Both are fixed once the plan is approved.                                 *)
(*****************************************************************************)
EXTENDS Naturals, FiniteSets

CONSTANTS Tasks, Deps, Rank

\* PlanValidator accepts a plan only when it has tasks, every dependency names
\* a task of the plan, and detectTaskCycle finds no cycle; runApprovedPlan
\* checks hasCycle again.  A cycle is a nonempty set of tasks each of which
\* depends on another one of the set.
HasCycle ==
  \E S \in SUBSET Tasks : S # {} /\ \A t \in S : Deps[t] \intersect S # {}

ASSUME GraphAssumption ==
  /\ IsFiniteSet(Tasks) /\ Tasks # {}
  /\ Deps \in [Tasks -> SUBSET Tasks]
  /\ Rank \in [Tasks -> Nat]
  /\ \A t, u \in Tasks : Rank[t] = Rank[u] => t = u
  /\ ~HasCycle

\* Mutant: readiness does not look at the dependencies.
UncheckedReady(t, done) == t \notin done

IsReady(t, done) == t \notin done /\ Deps[t] \subseteq done

ReadyTasks(done) == {t \in Tasks : IsReady(t, done)}

\* ready[0]: getReadyTasks keeps the order of the plan.
IsFirst(t, ready) == t \in ready /\ \A u \in ready : Rank[t] <= Rank[u]

Dependents(t) == {u \in Tasks : t \in Deps[u]}

\* getDependents(t, true): what depends on t directly or through other tasks,
\* the least set that holds the dependents of t and of its own members.
Downstream(t) ==
  {u \in Tasks : \A S \in SUBSET Tasks :
     (\A v \in S \union {t} : Dependents(v) \subseteq S) => u \in S}
=============================================================================
