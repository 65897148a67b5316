------------------------- MODULE RepairLoopRefinement ------------------------
(*****************************************************************************)
(* The repair loop keeps the contract of a repair: the contract's versions   *)
(* are the loop's executions, and its verdict is read off the outcome.       *)
(*****************************************************************************)
EXTENDS RepairLoop

Judgement(v) == [of |-> v.of, passed |-> v.passed]

ContractVerdict ==
  CASE outcome = "none" -> "open"
    [] outcome = "passed" -> "accepted"
    [] outcome \in {"aborted", "thrown"} -> "interrupted"
    [] outcome \in {"failed", "stalled", "limit_reached"} -> "rejected"

Contract == INSTANCE RepairContract WITH
  version <- execution, validation <- Judgement(validation),
  review <- Judgement(review), verdict <- ContractVerdict

\* The loop only reports "passed" for an execution that was validated and then
\* reviewed itself, reviews nothing that validation has not passed
\* (core/test/repair-orchestrator.test.ts:75), and never gives up on an
\* execution that passed both.
ImplementsContract == Contract!Spec
=============================================================================
