----------------------------- MODULE RepairLoop ------------------------------
(*****************************************************************************)
(* The repair of one task (repair/repair-orchestrator.ts): a bounded loop    *)
(* that has the Executor repair the current failures, validates what it      *)
(* made and has it reviewed, until both pass, a limit is reached, the same   *)
(* failures keep coming back, or it is aborted.                              *)
(*                                                                           *)
(* A step is what the loop does between two awaits; stage names the await.   *)
(* The code is abstracted to its version: 1 is what the task's own           *)
(* execution made, and every repair that returns makes the next one.  A      *)
(* verdict of validation or review keeps the version it judged and the keys  *)
(* of the findings a repair can act on.                                      *)
(*****************************************************************************)
EXTENDS Naturals, FiniteSets

CONSTANTS
  Findings,            \* the finding keys
  MaxCycles, MaxExecutions, MaxValidations, MaxReviews,
  MaxExpansions, StuckThreshold

\* What resolveRepairLimits accepts.
ValidLimits ==
  /\ MaxCycles \in 1 .. 5 /\ MaxExecutions \in 1 .. 5
  /\ MaxValidations \in Nat \ {0} /\ MaxReviews \in Nat \ {0}
  /\ MaxExpansions \in Nat /\ StuckThreshold \in Nat \ {0}

ASSUME RepairAssumption == IsFiniteSet(Findings) /\ ValidLimits

VARIABLES
  stage,       \* the await the loop is suspended at, or "done"
  outcome,     \* RepairResult.status, or "thrown" when run rejects
  execution,   \* the version of state.execution
  validation, review,
  remaining,   \* remainingFindings
  cycles, executions, validations, reviews, expansions,
  counts,      \* failureCounts
  signal

used == <<cycles, executions, validations, reviews, expansions, counts>>
vars == <<stage, outcome, execution, validation, review, remaining, used, signal>>

Stages == {"checkpoint", "reviewing", "expanding", "executing", "validating",
           "validated", "done"}
RepairStatuses == {"passed", "failed", "aborted", "stalled", "limit_reached"}

\* What validation and review can say of version v.  One that failed may have
\* nothing to act on: only optional steps failed or a required one was skipped;
\* or the review found a criterion unmet and named no finding above "info".
VerdictsOf(v) ==
  {[of |-> v, passed |-> TRUE, findings |-> {}]}
    \union {[of |-> v, passed |-> FALSE, findings |-> f] : f \in SUBSET Findings}
NoReview == [of |-> 0, passed |-> FALSE, findings |-> {}]

\* The pipeline enters the loop with a failure: of validation, which forbids
\* the review, or of the review.  repairTask alone may also be given a
\* validation that passed and no review.
Init ==
  /\ signal \in BOOLEAN
  /\ stage = IF signal THEN "done" ELSE "checkpoint"
  /\ outcome = IF signal THEN "aborted" ELSE "none"
  /\ execution = 1
  /\ validation \in VerdictsOf(1)
  /\ review \in IF validation.passed THEN {NoReview} \union VerdictsOf(1)
                                     ELSE {NoReview}
  /\ remaining = validation.findings \union review.findings
  /\ cycles = 0 /\ executions = 0 /\ validations = 0 /\ reviews = 0
  /\ expansions = 0 /\ counts = [f \in Findings |-> 0]

CurrentFindings == validation.findings \union review.findings

Finish(o) == stage' = "done" /\ outcome' = o

At(s) == stage' = s /\ UNCHANGED outcome

\* The top of the loop, up to the checkpoint.
Top == IF signal THEN Finish("aborted") ELSE At("checkpoint")

BeginReview ==
  IF reviews >= MaxReviews
  THEN Finish("limit_reached") /\ UNCHANGED reviews
  ELSE At("reviewing") /\ reviews' = reviews + 1

\* Mutant: what validation says is enough.
Validated == validation.passed

Passed == validation.passed /\ review.passed

Exhausted ==
  cycles >= MaxCycles \/ executions >= MaxExecutions \/ validations >= MaxValidations

\* Mutant: the counts of the earlier cycles are lost.
CountedAfresh == [f \in Findings |-> IF f \in CurrentFindings THEN 1 ELSE 0]

Counted == [f \in Findings |-> counts[f] + IF f \in CurrentFindings THEN 1 ELSE 0]

\* isStuck
Stuck == \E f \in CurrentFindings : Counted[f] > StuckThreshold

BeginExecution == At("executing") /\ executions' = executions + 1

\* The cycle up to its first await: a finding that was repaired often enough
\* stops it, context for the files it names may be fetched first.
BeginCycle ==
  /\ cycles' = cycles + 1 /\ counts' = Counted
  /\ \/ Stuck /\ Finish("stalled") /\ UNCHANGED executions
     \/ ~Stuck /\ expansions < MaxExpansions /\ At("expanding") /\ UNCHANGED executions
     \/ ~Stuck /\ BeginExecution

\* Past the checkpoint at the top.
Decide ==
  IF validation.passed /\ review = NoReview
  THEN BeginReview /\ UNCHANGED <<remaining, cycles, executions, counts>>
  ELSE IF Passed
  THEN Finish("passed") /\ UNCHANGED <<remaining, cycles, executions, reviews, counts>>
  ELSE /\ remaining' = CurrentFindings /\ UNCHANGED reviews
       /\ IF CurrentFindings = {}
          THEN Finish("failed") /\ UNCHANGED <<cycles, executions, counts>>
          ELSE IF Exhausted
          THEN Finish("limit_reached") /\ UNCHANGED <<cycles, executions, counts>>
          ELSE BeginCycle

CheckpointPassed ==
  /\ stage = "checkpoint" /\ Decide
  /\ UNCHANGED <<execution, validation, review, validations, expansions, signal>>

\* A checkpoint or a context expansion that throws is not caught.
Rejects ==
  /\ stage \in {"checkpoint", "expanding"} /\ Finish("thrown")
  /\ UNCHANGED <<execution, validation, review, remaining, used, signal>>

\* Only an expansion that found files counts.
ExpansionReturns ==
  /\ stage = "expanding" /\ BeginExecution
  /\ expansions' \in {expansions, expansions + 1}
  /\ UNCHANGED <<execution, validation, review, remaining, cycles, validations,
                 reviews, counts, signal>>

\* The Executor or a later stage throws.  An AbortError counts as an abort even
\* when the signal is not aborted.
StageThrows ==
  /\ stage \in {"reviewing", "executing", "validating", "validated"}
  /\ \/ Finish("aborted")
     \/ ~signal /\ Finish("failed")
  /\ UNCHANGED <<execution, validation, review, remaining, used, signal>>

\* The repair ends with nothing to validate: the Executor reports a failure, or
\* Git shows no change, the same change, or none to the files it was about.
RepairIsUseless ==
  /\ stage = "executing" /\ execution' = execution + 1
  /\ \E o \in {"failed", "stalled"} : Finish(o)
  /\ UNCHANGED <<validation, review, remaining, used, signal>>

RepairCompletes ==
  /\ stage = "executing" /\ execution' = execution + 1
  /\ IF signal THEN Finish("aborted") /\ UNCHANGED validations
     ELSE IF validations >= MaxValidations
     THEN Finish("limit_reached") /\ UNCHANGED validations
     ELSE At("validating") /\ validations' = validations + 1
  /\ UNCHANGED <<validation, review, remaining, cycles, executions, reviews,
                 expansions, counts, signal>>

\* Validation returns; another checkpoint follows.
ValidationReturns ==
  /\ stage = "validating" /\ At("validated")
  /\ validation' \in VerdictsOf(execution)
  /\ UNCHANGED <<execution, review, remaining, used, signal>>

\* Mutant: the review is made whatever validation said.
ReviewAnyway ==
  /\ stage = "validated" /\ BeginReview
  /\ UNCHANGED <<execution, validation, review, remaining, cycles, executions,
                 validations, expansions, counts, signal>>

\* Mutant: a failed validation is run again.
RevalidateFailed ==
  /\ stage = "validated"
  /\ IF validation.passed THEN BeginReview ELSE At("validating") /\ UNCHANGED reviews
  /\ UNCHANGED <<execution, validation, review, remaining, cycles, executions,
                 validations, expansions, counts, signal>>

\* A failed validation drops the review and starts the next cycle.
ValidationJudged ==
  /\ stage = "validated"
  /\ IF validation.passed
     THEN BeginReview /\ UNCHANGED <<review, remaining>>
     ELSE /\ review' = NoReview /\ remaining' = validation.findings
          /\ Top /\ UNCHANGED reviews
  /\ UNCHANGED <<execution, validation, cycles, executions, validations,
                 expansions, counts, signal>>

\* Only a cycle's own review updates what remains.
ReviewReturns ==
  /\ stage = "reviewing" /\ Top
  /\ review' \in VerdictsOf(execution)
  /\ remaining' = IF cycles > 0 /\ ~review'.passed
                  THEN validation.findings \union review'.findings ELSE remaining
  /\ UNCHANGED <<execution, validation, used, signal>>

\* The caller of the repair aborts it, at any await.
Abort ==
  /\ stage # "done" /\ ~signal /\ signal' = TRUE
  /\ UNCHANGED <<stage, outcome, execution, validation, review, remaining, used>>

Step ==
  \/ CheckpointPassed \/ Rejects \/ ExpansionReturns \/ StageThrows
  \/ RepairIsUseless \/ RepairCompletes
  \/ ValidationReturns \/ ValidationJudged \/ ReviewReturns

Next == Step \/ Abort

Spec == Init /\ [][Next]_vars

\* Whatever the loop awaits settles: the Executor, validation and review end,
\* and a paused run is resumed.
FairSpec == Spec /\ WF_vars(Step)

----------------------------------------------------------------------------
\* Properties.

Verdicts == [of : Nat, passed : BOOLEAN, findings : SUBSET Findings]

TypeOK ==
  /\ stage \in Stages /\ outcome \in {"none", "thrown"} \union RepairStatuses
  /\ execution \in Nat \ {0} /\ validation \in Verdicts /\ review \in Verdicts
  /\ remaining \subseteq Findings
  /\ cycles \in 0 .. MaxCycles /\ executions \in 0 .. MaxExecutions
  /\ validations \in 0 .. MaxValidations /\ reviews \in 0 .. MaxReviews
  /\ expansions \in 0 .. MaxExpansions
  /\ counts \in [Findings -> Nat] /\ signal \in BOOLEAN

\* What has been judged at each await: the version the loop looks at when it
\* decides, and never a review of code that validation has not passed.
Judged ==
  /\ outcome = "none" <=> stage # "done"
  /\ \A v \in {validation, review} : v.of <= execution /\ (v.passed => v.findings = {})
  /\ review.of = 0 => review = NoReview
  /\ stage \in {"checkpoint", "expanding", "executing", "validated", "reviewing"} =>
       validation.of = execution
  /\ stage \in {"checkpoint", "expanding", "executing"} => review.of \in {0, execution}
  /\ stage \in {"expanding", "executing"} => ~Passed
  /\ stage = "validating" => validation.of < execution
  /\ stage \in {"validating", "validated", "reviewing"} => review.of < execution
  /\ stage = "reviewing" => validation.passed

\* Attempts are spent in step: a cycle makes one execution, an execution gets
\* one validation, and a validation one review (but for the review the loop
\* may begin with), so no stage is repeated within a cycle.
SpentInStep ==
  /\ executions \in {cycles - 1, cycles} /\ validations \in {executions - 1, executions}
  /\ reviews <= validations + 1
  /\ stage \in {"checkpoint", "validating", "validated", "reviewing"} =>
       cycles = executions /\ validations = executions
  /\ stage = "expanding" =>
       /\ cycles = executions + 1 /\ validations = executions
       /\ executions < MaxExecutions /\ expansions < MaxExpansions
  /\ stage = "executing" => cycles = executions /\ executions = validations + 1
  /\ stage \in {"executing", "validating", "validated"} => reviews <= cycles
  /\ stage = "checkpoint" /\ validation.passed /\ review = NoReview => cycles = 0 /\ reviews = 0

\* Every execution is spent on a finding that was not repaired too often yet:
\* however the failures alternate, the same few cannot keep the loop going
\* (stuckThreshold).
ExecutionsMakeProgress == executions <= StuckThreshold * Cardinality(Findings)

\* The loop ends, whatever validation and review keep saying.
LoopEnds == <>(stage = "done")
=============================================================================
