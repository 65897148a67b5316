---------------------------- MODULE ReviewDecision ----------------------------
(**********************************************************************************)
(* What a review comes to (review/review-validator.ts): the draft of the model    *)
(* is checked against the criteria and rules of its task, and overruled by the    *)
(* validation and by what it says itself.                                         *)
(*                                                                                *)
(* A draft is [status, criteria, findings, evaluated, rules, request]: criteria a *)
(* sequence of [criterion, status]; findings a set of [severity, rule]; rules a   *)
(* sequence of [rule, status], unless the field is omitted; request a record of   *)
(* its kind and the paths and symbols that are asked for.                         *)
(**********************************************************************************)
EXTENDS Naturals, Sequences, FiniteSets, SequencesExt

CONSTANTS
  Criteria,     \* the acceptance criteria of the task
  Rules,        \* the rules that apply to it
  Severity      \* how severe breaking each of them is

NoRule == "no rule"

Severe == {"error", "critical"}

\* assertAllCriteriaEvaluated: each of them once.
CriteriaAreEvaluated(draft) ==
  /\ {draft.criteria[i].criterion : i \in DOMAIN draft.criteria} = Criteria
  /\ Len(draft.criteria) = Cardinality(Criteria)

\* validateRuleEvaluations: none of them, or each of them once.
RulesAreEvaluated(draft) ==
  draft.evaluated =>
    /\ {draft.rules[i].rule : i \in DOMAIN draft.rules} = Rules
    /\ Len(draft.rules) = Cardinality(Rules)

\* A request, a specific one, with "needs_more_context" and only with it.
RequestIsSpecific(draft) ==
  draft.request.kind = IF draft.status = "needs_more_context" THEN "specific" ELSE "none"

Acceptable(draft) ==
  CriteriaAreEvaluated(draft) /\ RulesAreEvaluated(draft) /\ RequestIsSpecific(draft)

\* The rules that are broken, or may be.
Doubtful(draft) ==
  {draft.rules[i].rule :
     i \in {j \in DOMAIN draft.rules : draft.rules[j].status \in {"violated", "uncertain"}}}

\* A doubtful rule that no finding names becomes one.
Findings(draft) ==
  LET named == {f.rule : f \in draft.findings}
  IN draft.findings
       \union {[severity |-> Severity[r], rule |-> r] : r \in Doubtful(draft) \ named}

\* An AI review cannot override deterministic validation.
DeterministicFailure(validation) ==
  \/ validation.status = "failed"
  \/ \E i \in DOMAIN validation.steps :
       LET step == validation.steps[i]
       IN \/ step.required /\ step.status # "passed"
          \/ step.status \in {"errored", "timed_out"}

SaysOtherwise(draft) ==
  \/ \E i \in DOMAIN draft.criteria : draft.criteria[i].status # "satisfied"
  \/ \E f \in Findings(draft) : f.severity \in Severe

\* Mutant: a rule counts only through the findings.
ReviewedByFindings(draft, validation) ==
  IF \/ DeterministicFailure(validation)
     \/ draft.status = "passed" /\ SaysOtherwise(draft)
  THEN "failed" ELSE draft.status

Reviewed(draft, validation) ==
  IF \/ DeterministicFailure(validation)
     \/ draft.status = "passed" /\ SaysOtherwise(draft)
     \/ \E r \in Doubtful(draft) : Severity[r] = "error"
  THEN "failed" ELSE draft.status
=============================================================================
