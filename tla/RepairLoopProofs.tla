-------------------------- MODULE RepairLoopProofs ---------------------------
(*****************************************************************************)
(* What holds of the repair loop for every set of findings and all limits    *)
(* resolveRepairLimits accepts: its invariants, that it keeps the contract   *)
(* of a repair, and that its executions make progress.                       *)
(*****************************************************************************)
EXTENDS RepairLoopRefinement, FiniteSetTheorems, TLAPS

\* What the loop is built from: the verdicts, and where it can go.
LEMMA VerdictFacts ==
  ASSUME NEW v \in Nat
  PROVE  /\ VerdictsOf(v) \subseteq Verdicts
         /\ \A w \in VerdictsOf(v) : w.of = v /\ (w.passed => w.findings = {})
         /\ NoReview \in Verdicts /\ ~NoReview.passed /\ NoReview.of = 0
         /\ NoReview.findings = {}
<1>1. ASSUME NEW w \in VerdictsOf(v)
      PROVE  w \in Verdicts /\ w.of = v /\ (w.passed => w.findings = {})
  <2>1. CASE w = [of |-> v, passed |-> TRUE, findings |-> {}]
    BY <2>1 DEF Verdicts
  <2>2. CASE \E f \in SUBSET Findings : w = [of |-> v, passed |-> FALSE, findings |-> f]
    BY <2>2 DEF Verdicts
  <2> QED
    BY <2>1, <2>2 DEF VerdictsOf
<1>2. NoReview \in Verdicts /\ ~NoReview.passed /\ NoReview.of = 0 /\ NoReview.findings = {}
  BY DEF NoReview, Verdicts
<1> QED
  BY <1>1, <1>2

\* The repair starts well typed.
LEMMA InitialTypes == Init => TypeOK
  BY RepairAssumption, VerdictFacts DEF Init, TypeOK, Stages, RepairStatuses, ValidLimits,
     Verdicts

\* Types and limits are kept: of the executions and expansions because of where
\* the loop is, of the rest by its guards.
LEMMA TypeStep == TypeOK /\ SpentInStep /\ [Next]_vars => TypeOK'
<1> SUFFICES ASSUME TypeOK, SpentInStep, [Next]_vars PROVE TypeOK'
  OBVIOUS
<1> USE RepairAssumption, VerdictFacts
<1> USE DEF TypeOK, ValidLimits, Stages, RepairStatuses, Finish, At, used
<1>0. /\ Counted \in [Findings -> Nat] /\ CurrentFindings \subseteq Findings
      /\ VerdictsOf(execution) \subseteq Verdicts
  BY DEF Counted, CurrentFindings, Verdicts
<1>1. CASE CheckpointPassed
  <2>1. CASE validation.passed /\ review = NoReview
    BY <1>1, <2>1 DEF CheckpointPassed, Decide, BeginReview
  <2>2. CASE ~(validation.passed /\ review = NoReview) /\ Passed
    BY <1>1, <2>2 DEF CheckpointPassed, Decide
  <2>3. CASE ~(validation.passed /\ review = NoReview) /\ ~Passed /\ Decide
             /\ (CurrentFindings = {} \/ Exhausted)
    BY <1>0, <1>1, <2>3 DEF CheckpointPassed, Decide
  <2>4. CASE ~(validation.passed /\ review = NoReview) /\ ~Passed
             /\ CurrentFindings # {} /\ ~Exhausted
    BY <1>0, <1>1, <2>4 DEF CheckpointPassed, Decide, BeginCycle, BeginExecution,
       Exhausted
  <2> QED
    BY <1>1, <2>1, <2>2, <2>3, <2>4 DEF CheckpointPassed
<1>2. CASE Rejects
  BY <1>2 DEF Rejects
<1>3. CASE ExpansionReturns
  BY <1>3 DEF ExpansionReturns, BeginExecution, SpentInStep
<1>4. CASE StageThrows
  BY <1>4 DEF StageThrows
<1>5. CASE RepairIsUseless
  BY <1>5 DEF RepairIsUseless
<1>6. CASE RepairCompletes
  BY <1>6 DEF RepairCompletes
<1>7. CASE ValidationReturns
  BY <1>0, <1>7 DEF ValidationReturns
<1>8. CASE ValidationJudged
  BY <1>8 DEF ValidationJudged, BeginReview, Top, Verdicts
<1>9. CASE ReviewReturns
  BY <1>0, <1>9 DEF ReviewReturns, Top, Verdicts
<1>10. CASE Abort
  BY <1>10 DEF Abort
<1>11. CASE UNCHANGED vars
  BY <1>11 DEF vars
<1> QED
  BY <1>1, <1>2, <1>3, <1>4, <1>5, <1>6, <1>7, <1>8, <1>9, <1>10, <1>11 DEF Next, Step

\* The loop decides on the version it holds, and reviews what was validated.
LEMMA JudgedInitially == Init => Judged
<1> SUFFICES ASSUME Init PROVE Judged
  OBVIOUS
<1>1. review \in {NoReview} \union VerdictsOf(1) /\ validation \in VerdictsOf(1)
  BY DEF Init
<1> QED
  BY <1>1, VerdictFacts DEF Init, Judged

LEMMA JudgedStep == TypeOK /\ Judged /\ [Next]_vars => Judged'
<1> SUFFICES ASSUME TypeOK, Judged, [Next]_vars PROVE Judged'
  OBVIOUS
<1> USE VerdictFacts
<1> USE DEF TypeOK, Judged, Finish, At, used, Passed, RepairStatuses, Verdicts
<1>1. CASE CheckpointPassed
  <2>1. CASE validation.passed /\ review = NoReview
    BY <1>1, <2>1 DEF CheckpointPassed, Decide, BeginReview
  <2>2. CASE ~(validation.passed /\ review = NoReview)
    BY <1>1, <2>2 DEF CheckpointPassed, Decide, BeginCycle, BeginExecution
  <2> QED
    BY <2>1, <2>2
<1>2. CASE Rejects
  BY <1>2 DEF Rejects
<1>3. CASE ExpansionReturns
  BY <1>3 DEF ExpansionReturns, BeginExecution
<1>4. CASE StageThrows
  BY <1>4 DEF StageThrows
<1>5. CASE RepairIsUseless
  BY <1>5 DEF RepairIsUseless
<1>6. CASE RepairCompletes
  BY <1>6 DEF RepairCompletes
<1>7. CASE ValidationReturns
  BY <1>7 DEF ValidationReturns
<1>8. CASE ValidationJudged
  BY <1>8 DEF ValidationJudged, BeginReview, Top
<1>9. CASE ReviewReturns
  BY <1>9 DEF ReviewReturns, Top
<1>10. CASE Abort
  BY <1>10 DEF Abort
<1>11. CASE UNCHANGED vars
  BY <1>11 DEF vars
<1> QED
  BY <1>1, <1>2, <1>3, <1>4, <1>5, <1>6, <1>7, <1>8, <1>9, <1>10, <1>11 DEF Next, Step

\* Executions, validations and reviews are spent in step.
LEMMA SpentStep == TypeOK /\ Judged /\ SpentInStep /\ [Next]_vars => SpentInStep'
<1> SUFFICES ASSUME TypeOK, Judged, SpentInStep, [Next]_vars PROVE SpentInStep'
  OBVIOUS
<1> USE VerdictFacts, RepairAssumption
<1> USE DEF TypeOK, SpentInStep, Finish, At, used, ValidLimits
<1>1. CASE CheckpointPassed
  <2>1. CASE validation.passed /\ review = NoReview
    <3>1. cycles = 0 /\ reviews = 0 /\ executions = 0 /\ validations = 0
      BY <1>1, <2>1 DEF CheckpointPassed
    <3>2. /\ reviews' \in 0 .. 1 /\ stage' \in {"reviewing", "done"}
          /\ UNCHANGED <<cycles, executions, validations>>
      BY <1>1, <2>1, <3>1 DEF CheckpointPassed, Decide, BeginReview
    <3> QED
      BY <3>1, <3>2
  <2>2. CASE ~(validation.passed /\ review = NoReview)
    <3>1. CASE Passed \/ CurrentFindings = {} \/ Exhausted
      BY <1>1, <2>2, <3>1 DEF CheckpointPassed, Decide
    <3>2. CASE ~Passed /\ CurrentFindings # {} /\ ~Exhausted /\ BeginCycle
      BY <1>1, <2>2, <3>2 DEF CheckpointPassed, Decide, BeginCycle, BeginExecution, Exhausted
    <3> QED
      BY <1>1, <2>2, <3>1, <3>2 DEF CheckpointPassed, Decide
  <2> QED
    BY <2>1, <2>2
<1>2. CASE Rejects
  BY <1>2 DEF Rejects
<1>3. CASE ExpansionReturns
  BY <1>3 DEF ExpansionReturns, BeginExecution
<1>4. CASE StageThrows
  BY <1>4 DEF StageThrows
<1>5. CASE RepairIsUseless
  BY <1>5 DEF RepairIsUseless
<1>6. CASE RepairCompletes
  BY <1>6 DEF RepairCompletes
<1>7. CASE ValidationReturns
  BY <1>7 DEF ValidationReturns
<1>8. CASE ValidationJudged
  BY <1>8 DEF ValidationJudged, BeginReview, Top, Judged
<1>9. CASE ReviewReturns
  BY <1>9 DEF ReviewReturns, Top, Judged
<1>10. CASE Abort
  BY <1>10 DEF Abort
<1>11. CASE UNCHANGED vars
  BY <1>11 DEF vars
<1> QED
  BY <1>1, <1>2, <1>3, <1>4, <1>5, <1>6, <1>7, <1>8, <1>9, <1>10, <1>11 DEF Next, Step

\* The repair loop is well typed, in particular within every limit
\* resolveRepairLimits accepted; it judges what it reports; and its attempts are
\* spent in step.
THEOREM RepairInvariance == Spec => [](TypeOK /\ Judged /\ SpentInStep)
<1>1. Init => TypeOK /\ Judged /\ SpentInStep
  <2>1. Init => SpentInStep
    BY DEF Init, SpentInStep
  <2> QED
    BY <2>1, InitialTypes, JudgedInitially
<1>2. TypeOK /\ Judged /\ SpentInStep /\ [Next]_vars => (TypeOK /\ Judged /\ SpentInStep)'
  BY TypeStep, JudgedStep, SpentStep
<1> QED
  BY <1>1, <1>2, PTL DEF Spec

\* Every step of the loop is a step of the contract, or changes nothing of it.
LEMMA ContractStep ==
  TypeOK /\ Judged /\ [Next]_vars => [Contract!Next]_Contract!vars
<1> SUFFICES ASSUME TypeOK, Judged, [Next]_vars
             PROVE  Contract!Next \/ UNCHANGED Contract!vars
  BY DEF Contract!vars
<1> USE VerdictFacts
<1> USE DEF TypeOK, Judged, Finish, At, used, Passed, RepairStatuses, Verdicts,
    Judgement, ContractVerdict, Contract!vars, Contract!Verdict, Contract!NotReviewed
<1>1. CASE CheckpointPassed
  <2>1. CASE validation.passed /\ review = NoReview
    <3>1. CASE outcome' = "none"
      BY <1>1, <2>1, <3>1 DEF CheckpointPassed, Decide, BeginReview
    <3>2. CASE outcome' # "none"
      <4>1. Contract!GiveUp
        BY <1>1, <2>1, <3>2 DEF CheckpointPassed, Decide, BeginReview, Contract!GiveUp,
           Contract!Accepted
      <4> QED
        BY <4>1 DEF Contract!Next
    <3> QED
      BY <3>1, <3>2
  <2>2. CASE ~(validation.passed /\ review = NoReview) /\ Passed
    <3>1. Contract!Accept
      BY <1>1, <2>2 DEF CheckpointPassed, Decide, Contract!Accept, Contract!Accepted
    <3> QED
      BY <3>1 DEF Contract!Next
  <2>3. CASE ~(validation.passed /\ review = NoReview) /\ ~Passed
    <3>1. /\ outcome' \in {"none", "failed", "limit_reached", "stalled"}
          /\ UNCHANGED <<execution, validation, review>> /\ outcome = "none"
      BY <1>1, <2>3 DEF CheckpointPassed, Decide, BeginCycle, BeginExecution
    <3>2. CASE outcome' = "none"
      BY <3>1, <3>2
    <3>3. CASE outcome' # "none"
      <4>1. Contract!GiveUp
        BY <2>3, <3>1, <3>3 DEF Contract!GiveUp, Contract!Accepted
      <4> QED
        BY <4>1 DEF Contract!Next
    <3> QED
      BY <3>2, <3>3
  <2> QED
    BY <2>1, <2>2, <2>3
<1>2. CASE Rejects
  <2>1. Contract!Interrupt
    BY <1>2 DEF Rejects, Contract!Interrupt
  <2> QED
    BY <2>1 DEF Contract!Next
<1>3. CASE ExpansionReturns
  BY <1>3 DEF ExpansionReturns, BeginExecution
<1>4. CASE StageThrows
  <2>1. CASE outcome' = "aborted"
    <3>1. Contract!Interrupt
      BY <1>4, <2>1 DEF StageThrows, Contract!Interrupt
    <3> QED
      BY <3>1 DEF Contract!Next
  <2>2. CASE outcome' = "failed"
    <3>1. validation.of # execution \/ review.of # execution \/ ~Passed
      BY <1>4 DEF StageThrows
    <3>2. Contract!GiveUp
      BY <1>4, <2>2, <3>1 DEF StageThrows, Contract!GiveUp, Contract!Accepted
    <3> QED
      BY <3>2 DEF Contract!Next
  <2> QED
    BY <1>4, <2>1, <2>2 DEF StageThrows
<1>5. CASE RepairIsUseless
  <2>1. Contract!GiveUp
    BY <1>5 DEF RepairIsUseless, Contract!GiveUp, Contract!Accepted
  <2> QED
    BY <2>1 DEF Contract!Next
<1>6. CASE RepairCompletes
  <2>1. CASE outcome' = "aborted"
    <3>1. Contract!Interrupt
      BY <1>6, <2>1 DEF RepairCompletes, Contract!Interrupt
    <3> QED
      BY <3>1 DEF Contract!Next
  <2>2. CASE outcome' = "limit_reached"
    <3>1. Contract!GiveUp
      BY <1>6, <2>2 DEF RepairCompletes, Contract!GiveUp, Contract!Accepted
    <3> QED
      BY <3>1 DEF Contract!Next
  <2>3. CASE outcome' = outcome
    <3>1. Contract!Change
      BY <1>6, <2>3 DEF RepairCompletes, Contract!Change
    <3> QED
      BY <3>1 DEF Contract!Next
  <2> QED
    BY <1>6, <2>1, <2>2, <2>3 DEF RepairCompletes
<1>7. CASE ValidationReturns
  <2>1. Contract!Validate
    BY <1>7 DEF ValidationReturns, Contract!Validate
  <2> QED
    BY <2>1 DEF Contract!Next
<1>8. CASE ValidationJudged
  <2>1. CASE validation.passed
    <3>1. CASE outcome' = outcome
      BY <1>8, <2>1, <3>1 DEF ValidationJudged, BeginReview
    <3>2. CASE outcome' # outcome
      <4>1. Contract!GiveUp
        BY <1>8, <2>1, <3>2 DEF ValidationJudged, BeginReview, Contract!GiveUp,
           Contract!Accepted
      <4> QED
        BY <4>1 DEF Contract!Next
    <3> QED
      BY <3>1, <3>2
  <2>2. CASE ~validation.passed /\ ~signal
    <3>1. Contract!Forget
      BY <1>8, <2>2 DEF ValidationJudged, Top, Contract!Forget
    <3> QED
      BY <3>1 DEF Contract!Next
  <2>3. CASE ~validation.passed /\ signal
    <3>1. Contract!Interrupt
      BY <1>8, <2>3 DEF ValidationJudged, Top, Contract!Interrupt
    <3> QED
      BY <3>1 DEF Contract!Next
  <2> QED
    BY <2>1, <2>2, <2>3
<1>9. CASE ReviewReturns
  <2>1. Judgement(review)' \in {Contract!Verdict(execution, p) : p \in BOOLEAN}
    BY <1>9 DEF ReviewReturns
  <2>2. CASE ~signal
    <3>1. Contract!Review
      BY <1>9, <2>1, <2>2 DEF ReviewReturns, Top, Contract!Review
    <3> QED
      BY <3>1 DEF Contract!Next
  <2>3. CASE signal
    <3>1. Contract!Interrupt
      BY <1>9, <2>1, <2>3 DEF ReviewReturns, Top, Contract!Interrupt
    <3> QED
      BY <3>1 DEF Contract!Next
  <2> QED
    BY <2>2, <2>3
<1>10. CASE Abort
  BY <1>10 DEF Abort
<1>11. CASE UNCHANGED vars
  BY <1>11 DEF vars
<1> QED
  BY <1>1, <1>2, <1>3, <1>4, <1>5, <1>6, <1>7, <1>8, <1>9, <1>10, <1>11 DEF Next, Step

\* RepairOrchestrator.run keeps the contract of a repair: it reports "passed"
\* only for the execution that validation and then review passed, whatever the
\* limits, the findings, the errors and the aborts.
THEOREM KeepsContract == Spec => ImplementsContract
<1>1. Init => Contract!Init
  <2> SUFFICES ASSUME Init PROVE Contract!Init
    OBVIOUS
  <2>1. Judgement(validation) \in {Contract!Verdict(1, p) : p \in BOOLEAN}
    BY VerdictFacts DEF Init, Judgement, Contract!Verdict, Verdicts
  <2>2. review = NoReview \/ review \in VerdictsOf(1)
    BY DEF Init
  <2>3. \/ Judgement(review) = Contract!NotReviewed
        \/ Judgement(review) \in {Contract!Verdict(1, p) : p \in BOOLEAN}
    BY <2>2, VerdictFacts DEF Judgement, Contract!Verdict, Contract!NotReviewed, Verdicts, NoReview
  <2>4. execution = 1 /\ ContractVerdict \in {"open", "interrupted"}
    BY DEF Init, ContractVerdict
  <2> QED
    BY <2>1, <2>3, <2>4 DEF Contract!Init
<1> QED
  BY <1>1, RepairInvariance, ContractStep, PTL DEF Spec, ImplementsContract, Contract!Spec

----------------------------------------------------------------------------
\* The repairs that findings have been spent on: the first, the second and so on of
\* each, as far as one may be repaired.
Spent == {p \in Findings \X (1 .. StuckThreshold) : p[2] <= counts[p[1]]}

\* An execution is made, or about to be made, on one of them that is its own.
EachOnItsOwn ==
  executions + (IF stage = "expanding" THEN 1 ELSE 0) <= Cardinality(Spent)

LEMMA SpentIsFinite ==
  /\ IsFiniteSet(Spent) /\ Cardinality(Spent) \in Nat
  /\ Cardinality(Spent) <= StuckThreshold * Cardinality(Findings)
<1>1. /\ StuckThreshold \in Nat \ {0} /\ IsFiniteSet(Findings)
  BY RepairAssumption DEF ValidLimits
<1>2. IsFiniteSet(1 .. StuckThreshold) /\ Cardinality(1 .. StuckThreshold) = StuckThreshold
  BY <1>1, FS_Interval
<1> DEFINE All == Findings \X (1 .. StuckThreshold)
<1>3. IsFiniteSet(All) /\ Cardinality(All) = Cardinality(Findings) * StuckThreshold
  BY <1>1, <1>2, FS_Product
<1>4. Cardinality(Findings) \in Nat
  BY <1>1, FS_CardinalityType
<1>5. Spent \in SUBSET All
  BY DEF Spent
<1> HIDE DEF All
<1>6. IsFiniteSet(Spent) /\ Cardinality(Spent) <= Cardinality(All)
  BY <1>3, <1>5, FS_Subset
<1>7. Cardinality(Findings) * StuckThreshold = StuckThreshold * Cardinality(Findings)
  BY <1>1, <1>4
<1> QED
  BY <1>3, <1>6, <1>7, FS_CardinalityType

\* A cycle forgets no repair, and one that is not stuck has spent one more.
LEMMA CycleSpends ==
  ASSUME TypeOK, CurrentFindings # {}, counts' = Counted
  PROVE  /\ Cardinality(Spent') \in Nat /\ Cardinality(Spent') >= Cardinality(Spent)
         /\ ~Stuck => Cardinality(Spent') >= Cardinality(Spent) + 1
<1>1. /\ counts \in [Findings -> Nat] /\ StuckThreshold \in Nat
      /\ \A g \in Findings : counts'[g] \in {counts[g], counts[g] + 1}
  BY RepairAssumption DEF TypeOK, Counted, ValidLimits
<1>2. Spent \subseteq Spent'
  <2> SUFFICES ASSUME NEW q \in Spent PROVE q \in Spent'
    OBVIOUS
  <2>1. q \in Findings \X (1 .. StuckThreshold) /\ q[2] <= counts[q[1]]
    BY DEF Spent
  <2>2. q[1] \in Findings /\ q[2] \in Nat
    BY <1>1, <2>1
  <2>3. q[2] <= counts'[q[1]]
    BY <1>1, <2>1, <2>2
  <2> QED
    BY <2>1, <2>3 DEF Spent
<1>3. IsFiniteSet(Spent') /\ Cardinality(Spent') \in Nat
  <2>1. IsFiniteSet(Findings \X (1 .. StuckThreshold))
    <3>1. IsFiniteSet(1 .. StuckThreshold) /\ IsFiniteSet(Findings)
      BY <1>1, RepairAssumption, FS_Interval
    <3> QED
      BY <3>1, FS_Product
  <2>2. Spent' \in SUBSET (Findings \X (1 .. StuckThreshold))
    BY DEF Spent
  <2> QED
    BY <2>1, <2>2, FS_Subset, FS_CardinalityType
<1>4. Cardinality(Spent) <= Cardinality(Spent')
  BY <1>2, <1>3, FS_Subset
<1>5. ASSUME ~Stuck
      PROVE  Cardinality(Spent') >= Cardinality(Spent) + 1
  <2>1. PICK f \in CurrentFindings : TRUE
    OBVIOUS
  <2>2. f \in Findings
    BY <2>1 DEF TypeOK, CurrentFindings, Verdicts
  <2>3. counts'[f] = counts[f] + 1 /\ counts[f] + 1 <= StuckThreshold
    BY <1>1, <1>5, <2>1, <2>2 DEF Stuck, Counted
  <2> DEFINE p == <<f, counts[f] + 1>>
  <2>4. p \in Findings \X (1 .. StuckThreshold) /\ p[1] = f /\ p[2] = counts[f] + 1
    BY <1>1, <2>2, <2>3
  <2>5. p \notin Spent /\ p \in Spent'
    BY <1>1, <2>2, <2>3, <2>4 DEF Spent
  <2> HIDE DEF p
  <2>6. Cardinality(Spent \union {p}) = Cardinality(Spent) + 1
    BY <2>5, SpentIsFinite, FS_AddElement
  <2>7. Spent \union {p} \in SUBSET Spent'
    BY <1>2, <2>5
  <2>8. Cardinality(Spent \union {p}) <= Cardinality(Spent')
    BY <1>3, <2>7, FS_Subset
  <2> QED
    BY <1>3, <2>6, <2>8, SpentIsFinite
<1> QED
  BY <1>3, <1>4, <1>5, SpentIsFinite

\* However the failures alternate, executions are bounded by the findings and how often
\* each may be repaired (stuckThreshold and isStuck).
THEOREM ExecutionsAreBounded == Spec => []ExecutionsMakeProgress
<1>1. Init => EachOnItsOwn
  <2> SUFFICES ASSUME Init PROVE EachOnItsOwn
    OBVIOUS
  <2>1. executions = 0 /\ stage # "expanding"
    BY DEF Init
  <2> QED
    BY <2>1, SpentIsFinite DEF EachOnItsOwn
<1>2. ASSUME TypeOK, EachOnItsOwn, [Next]_vars
      PROVE  EachOnItsOwn'
  <2>1. executions \in Nat /\ Cardinality(Spent) \in Nat
    BY <1>2, SpentIsFinite DEF TypeOK
  <2>2. CASE CheckpointPassed /\ BeginCycle /\ CurrentFindings # {}
    <3>1. CASE Stuck
      <4>1. executions' = executions /\ stage' = "done" /\ counts' = Counted
        BY <2>2, <3>1 DEF BeginCycle, Finish
      <4>2. Cardinality(Spent') >= Cardinality(Spent) /\ Cardinality(Spent') \in Nat
        BY <1>2, <2>2, <4>1, CycleSpends
      <4> QED
        BY <1>2, <2>1, <4>1, <4>2 DEF EachOnItsOwn
    <3>2. CASE ~Stuck
      <4>1. /\ stage = "checkpoint"
            /\ \/ stage' = "expanding" /\ executions' = executions
               \/ stage' = "executing" /\ executions' = executions + 1
        BY <2>2, <3>2 DEF CheckpointPassed, BeginCycle, BeginExecution, At
      <4>2. Cardinality(Spent') >= Cardinality(Spent) + 1 /\ Cardinality(Spent') \in Nat
        BY <1>2, <2>2, <3>2, CycleSpends DEF BeginCycle
      <4> QED
        BY <1>2, <2>1, <4>1, <4>2 DEF EachOnItsOwn
    <3> QED
      BY <3>1, <3>2
  <2>3. CASE ~(CheckpointPassed /\ BeginCycle /\ CurrentFindings # {})
    <3>1. /\ UNCHANGED counts
          /\ \/ executions' = executions /\ stage' # "expanding"
             \/ executions' = executions /\ stage' = stage
             \/ stage = "expanding" /\ executions' = executions + 1 /\ stage' = "executing"
      BY <1>2, <2>3 DEF Next, Step, CheckpointPassed, Decide, BeginReview, Rejects, ExpansionReturns,
         StageThrows, RepairIsUseless, RepairCompletes, ValidationReturns, ValidationJudged, ReviewReturns,
         Abort, Top, Finish, At, BeginExecution, used, vars
    <3>2. Spent' = Spent
      BY <3>1 DEF Spent
    <3> QED
      BY <1>2, <2>1, <3>1, <3>2 DEF EachOnItsOwn
  <2> QED
    BY <2>2, <2>3
<1>3. TypeOK /\ EachOnItsOwn => ExecutionsMakeProgress
  <2> SUFFICES ASSUME TypeOK, EachOnItsOwn PROVE ExecutionsMakeProgress
    OBVIOUS
  <2>1. executions \in Nat /\ executions <= Cardinality(Spent)
    BY SpentIsFinite DEF TypeOK, EachOnItsOwn
  <2>2. StuckThreshold * Cardinality(Findings) \in Nat
    BY RepairAssumption, FS_CardinalityType DEF ValidLimits
  <2> QED
    BY <2>1, <2>2, SpentIsFinite DEF ExecutionsMakeProgress
<1>4. Spec => []TypeOK
  BY RepairInvariance, PTL
<1> QED
  BY <1>1, <1>2, <1>3, <1>4, PTL DEF Spec
=============================================================================
