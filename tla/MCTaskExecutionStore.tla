----------------------- MODULE MCTaskExecutionStore ------------------------
(* Small plans for the store; the plans are interchangeable. *)
EXTENDS TaskExecutionStore, TLC

CONSTANTS t1, t2, p1, p2, p3

Chain == (t1 :> {}) @@ (t2 :> {t1})
ChainRank == (t1 :> 1) @@ (t2 :> 2)

PlanSymmetry == Permutations(Plans)
=============================================================================
