--------------------------- MODULE MCWorkflowRun ----------------------------
(* Small plans and callers for WorkflowRun. *)
EXTENDS WorkflowRunRefinement, TLC

CONSTANTS t1, t2, t3, c1, c2

\* t1 and t3 are ready at once and t2 depends on t3, which follows it in the
\* plan: the order of the plan is not the order of its dependencies.
Late == (t1 :> {}) @@ (t2 :> {t3}) @@ (t3 :> {})
LateRank == (t1 :> 1) @@ (t2 :> 2) @@ (t3 :> 3)

Pair == (t1 :> {}) @@ (t2 :> {t1})
PairRank == (t1 :> 1) @@ (t2 :> 2)
=============================================================================
