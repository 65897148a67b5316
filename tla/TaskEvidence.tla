----------------------------- MODULE TaskEvidence -----------------------------
(**********************************************************************************)
(* What a task's executor and its reviewer get to see, and what the review        *)
(* comes to: the context of the task is taken from the planner's, widened or      *)
(* built (resolveExecutorContext), the task is executed and validated, and the    *)
(* Reviewer judges a diff, the validation and that context, of which it may ask   *)
(* for more (reviewTask, review/reviewer.ts).                                     *)
(*                                                                                *)
(* stage names the await the task is at. version is the content of each file:     *)
(* other tasks, the executor and the user change it.                              *)
(**********************************************************************************)
EXTENDS ContextSelection, ReviewDecision

CONSTANTS
  PlannerFocus,     \* what the planner's context may have been built for
  Targets,          \* what the task may name: [paths, symbols]
  PlannerBudget, TaskBudget, ExpansionBudget, ReviewBudget, DiffBytes, ValidationBytes,
  Validations,      \* the results validation may have
  Drafts,           \* the reviews the model may write
  MaxTurns, MaxExpansions,  \* the limits of the Reviewer
  MaxVersion        \* bound: how often a file may change

Targeting == [paths : SUBSET Paths, symbols : SUBSET Symbols]

\* A budget that the caller sets replaces both that of a task's context and that of an
\* expansion; by default they are 6 files and 96 KB, and 8 and 128 KB, with 24 KB of a file
\* each.  Eight words of a task score ten points each.  A search finds files that are there;
\* a validation, and an evaluation of a rule, has one of the results that their types and
\* schemas list.
ASSUME EvidenceAssumption ==
  /\ \A b \in {PlannerBudget, TaskBudget, ExpansionBudget, ReviewBudget} :
       {b.files, b.bytes, b.perFile} \subseteq Nat \ {0}
  /\ TaskBudget.files <= ExpansionBudget.files /\ TaskBudget.bytes <= ExpansionBudget.bytes
  /\ TaskBudget.perFile = ExpansionBudget.perFile
  /\ TaskHits \in [Paths -> 0 .. 80]
  /\ MaxTurns \in 1 .. 4 /\ MaxExpansions \in 0 .. MaxTurns - 1
  /\ IsFiniteSet(Paths) /\ Size \in [Paths -> Nat]
  /\ Matches \in [Symbols -> SUBSET {p \in Paths : Size[p] > 0}]
  /\ Targets \subseteq Targeting /\ \A t \in Targets : t.paths # {} \/ t.symbols # {}
  /\ \A v \in Validations : v.status \in {"passed", "failed"}
  /\ \A d \in Drafts :
       /\ [paths |-> d.request.paths, symbols |-> d.request.symbols] \in Targeting
       /\ \A i \in DOMAIN d.rules :
            d.rules[i].status \in {"satisfied", "violated", "not_applicable", "uncertain"}

VARIABLES
  version,      \* of each file
  planner,      \* the planner's context, if there is one: [kept, files, diff]
  target,       \* what the task names
  stage,        \* the await the task is at
  missing,      \* what the chosen context lacks of it
  source,       \* where the context came from
  context,      \* the executor's context: [files, cut, issues]
  changed,      \* the files the execution changed
  validation,   \* what validation found
  evidence,     \* what the reviewer sees: [files, cut, diff]
  wanted,       \* what the reviewer asked for
  turn, expansions,
  cancelled,    \* the caller's signal
  result        \* the review

evidenceVars ==
  <<version, planner, target, stage, missing, source, context, changed, validation, evidence,
    wanted, turn, expansions, cancelled, result>>

Awaits ==
  {"resolving", "widening", "building", "executing", "executed", "asking", "expanding", "ended"}

Nothing == [paths |-> {}, symbols |-> {}]
NoContext == [files |-> << >>, cut |-> FALSE, issues |-> {}]
NoEvidence == [files |-> << >>, cut |-> FALSE, diff |-> {}]
NoValidation == [status |-> "none", steps |-> << >>]
NoResult == [status |-> "none", criteria |-> << >>, findings |-> {}, rules |-> << >>]

NoPlanner == [kept |-> FALSE, files |-> << >>, diff |-> NoDiff]

\* The context a plan was made with, of the files as they were then.  A plan that
\* was made in another workspace, or whose context was evicted, has none.
PlannerContext(focus, changes, diffSize) ==
  LET built == Build(focus, changes, diffSize, [p \in Paths |-> 0], PlannerBudget)
  IN [kept |-> TRUE, files |-> built.files,
      diff |-> IF focus.exclusive THEN NoDiff ELSE BoundedDiff(diffSize, FALSE, PlannerBudget)]

EvidenceInit ==
  /\ version = [p \in Paths |-> 0]
  /\ \/ planner = NoPlanner
     \/ \E focus \in PlannerFocus, changes \in SUBSET {p \in Paths : Size[p] > 0} :
          planner = PlannerContext(focus, changes, Cardinality(changes))
  /\ target \in Targets
  /\ stage = "resolving"
  /\ missing = Nothing /\ source = "none" /\ context = NoContext
  /\ changed = {} /\ validation = NoValidation
  /\ evidence = NoEvidence /\ wanted = Nothing
  /\ turn = 0 /\ expansions = 0
  /\ cancelled = FALSE
  /\ result = NoResult

(************************* resolveExecutorContext *************************)

taskVars == <<changed, validation, evidence, wanted, turn, expansions, result>>

Selected(files, diff) ==
  SelectTask([files |-> files, diff |-> diff], target.paths, TaskBudget)

Resolve ==
  /\ stage = "resolving"
  /\ IF ~planner.kept
     THEN stage' = "building" /\ UNCHANGED <<missing, source, context>>
     ELSE LET chosen == Selected(planner.files, planner.diff)
              paths == MissingPaths(chosen, target.paths)
          IN \E symbols \in SUBSET {s \in target.symbols : MayMiss(chosen, s)} :
               /\ {s \in target.symbols : MustMiss(chosen, s)} \subseteq symbols
               /\ IF paths = {} /\ symbols = {}
                  THEN /\ stage' = "executing"
                       /\ source' = "planner_reuse"
                       /\ context' = [files |-> chosen.files, cut |-> chosen.cut, issues |-> {}]
                       /\ UNCHANGED missing
                  ELSE /\ stage' = "widening"
                       /\ missing' = [paths |-> paths, symbols |-> symbols]
                       /\ UNCHANGED <<source, context>>
  /\ UNCHANGED <<version, planner, target, taskVars, cancelled>>

\* Only what the selection is asked for again is read; what the engine left out for
\* its own budget is not reported.
Widen ==
  /\ stage = "widening"
  /\ LET expanded == ExpandTargeted(missing.paths, missing.symbols, version, ExpansionBudget)
         chosen == Selected(expanded.files \o planner.files, planner.diff)
     IN context' = [files |-> chosen.files, cut |-> chosen.cut, issues |-> expanded.issues]
  /\ stage' = "executing"
  /\ source' = "targeted_expansion"
  /\ missing' = Nothing
  /\ UNCHANGED <<version, planner, target, taskVars, cancelled>>

\* The words of the task are searched for; nothing is in focus.
BuildContext ==
  /\ stage = "building"
  /\ LET built == Build([paths |-> {}, symbols |-> {}, exclusive |-> FALSE], {}, 0, version,
                        ExpansionBudget)
     IN context' = [files |-> built.files, cut |-> built.cut, issues |-> {}]
  /\ stage' = "executing"
  /\ source' = "build"
  /\ UNCHANGED <<version, planner, target, missing, taskVars, cancelled>>

(************************* Execution and validation ***********************)

\* The executor's own changes.  What its context was chosen from is not needed again.
Execute(paths) ==
  /\ stage = "executing"
  /\ paths \subseteq {p \in Paths : Size[p] > 0 /\ version[p] < MaxVersion}
  /\ stage' = "executed"
  /\ changed' = paths
  /\ version' = [p \in Paths |-> version[p] + IF p \in paths THEN 1 ELSE 0]
  /\ planner' = NoPlanner /\ target' = Nothing /\ source' = "none"
  /\ UNCHANGED <<missing, context, validation, evidence, wanted, turn,
                 expansions, cancelled, result>>

\* The diff is whole when git shows one of each changed file, a new one has none, and
\* they fit.
DiffIsWhole(shown) == shown = changed /\ Cardinality(shown) <= DiffBytes

\* The outputs of the steps that did not pass share a budget.
ValidationFits(steps) ==
  /\ FoldLeft(LAMBDA sum, step : sum + IF step.status = "passed" THEN 0 ELSE step.output, 0, steps)
       <= ValidationBytes
  /\ \A i \in DOMAIN steps : ~steps[i].cut

\* reviewTask builds the evidence of the executor's context.
StartReview(shown, found) ==
  /\ stage = "executed"
  /\ shown \subseteq changed
  /\ found \in Validations
  /\ LET taken == ContextEvidence(context.files, ReviewBudget)
     IN evidence' = [files |-> taken.files, diff |-> shown,
                     cut |-> ~DiffIsWhole(shown) \/ ~ValidationFits(found.steps) \/ taken.cut]
  /\ validation' = found
  /\ stage' = "asking"
  /\ turn' = 1
  /\ UNCHANGED <<version, planner, target, missing, source, context, changed, wanted, expansions,
                 cancelled, result>>

(********************************* Reviewer *******************************)

\* What is kept of a review: the result and what it judged.
Finish(outcome) ==
  /\ stage' = "ended"
  /\ result' = outcome
  /\ evidence' = NoEvidence /\ context' = NoContext /\ changed' = {} /\ source' = "none"
  /\ missing' = Nothing /\ planner' = NoPlanner /\ target' = Nothing
  /\ wanted' = Nothing /\ turn' = 0 /\ expansions' = 0
  /\ UNCHANGED <<version, cancelled, validation>>

Throw == Finish([NoResult EXCEPT !.status = "thrown"])

\* Unknown providers, files and tools that fail, answers that are no review.
Fails ==
  /\ stage \in {"widening", "building", "executing", "asking", "expanding"}
  /\ Throw

\* May another expansion be asked for?
MayExpand == expansions < MaxExpansions /\ turn < MaxTurns

\* parseAndValidate, and what follows from the result.
Answer(draft) ==
  /\ stage = "asking"
  /\ ~cancelled
  /\ IF ~Acceptable(draft) THEN Throw
     ELSE LET status == Reviewed(draft, validation)
          IN IF status # "needs_more_context"
             THEN Finish([status |-> status, criteria |-> draft.criteria,
                          findings |-> Findings(draft), rules |-> draft.rules])
             ELSE IF ~MayExpand THEN Throw
             ELSE /\ stage' = "expanding"
                  /\ wanted' = [paths |-> draft.request.paths, symbols |-> draft.request.symbols]
                  /\ UNCHANGED <<version, planner, target, missing, source, context, changed,
                                 validation, evidence, turn, expansions, cancelled, result>>

\* The files asked for are read as they are now and come before the others.
ExpandContext ==
  /\ stage = "expanding"
  /\ LET read == ExpandTargeted(wanted.paths, wanted.symbols, version, ReviewBudget)
     IN evidence' = Expand(evidence, read.files, ReviewBudget)
  /\ expansions' = expansions + 1
  /\ turn' = turn + 1
  /\ stage' = "asking"
  /\ wanted' = Nothing
  /\ UNCHANGED <<version, planner, target, missing, source, context, changed, validation,
                 cancelled, result>>

\* The next turn finds the signal.
Stopped ==
  /\ stage = "asking" /\ cancelled
  /\ Throw

(********************************* Others *********************************)

CancelTask ==
  /\ ~cancelled /\ stage # "ended"
  /\ cancelled' = TRUE
  /\ UNCHANGED <<version, planner, target, stage, missing, source, context, changed, validation,
                 evidence, wanted, turn, expansions, result>>

\* An earlier task of the plan, or the user, changes a file.
EditFile(path) ==
  /\ stage # "ended"
  /\ Size[path] > 0 /\ version[path] < MaxVersion
  /\ version' = [version EXCEPT ![path] = @ + 1]
  /\ UNCHANGED <<planner, target, stage, missing, source, context, changed, validation, evidence,
                 wanted, turn, expansions, cancelled, result>>

EvidenceNext ==
  \/ Resolve \/ Widen \/ BuildContext
  \/ \E paths \in SUBSET Paths : Execute(paths)
  \/ \E shown \in SUBSET Paths, found \in Validations : StartReview(shown, found)
  \/ Fails
  \/ \E draft \in Drafts : Answer(draft)
  \/ ExpandContext
  \/ Stopped
  \/ CancelTask
  \/ \E path \in Paths : EditFile(path)

EvidenceSpec == EvidenceInit /\ [][EvidenceNext]_evidenceVars
(******************************* Properties *******************************)

\* A review passes only what deserves it: every required validation step has passed
\* and none ended in an error or a time-out, every criterion is satisfied, no finding is
\* severe, and no rule of severity error is broken or in doubt, whatever the model says
\* of its findings ("an AI review cannot override it").
PassIsDeserved ==
  result.status = "passed" =>
    /\ validation.status = "passed"
    /\ \A i \in DOMAIN validation.steps :
         /\ validation.steps[i].required => validation.steps[i].status = "passed"
         /\ validation.steps[i].status \notin {"errored", "timed_out"}
    /\ \A i \in DOMAIN result.criteria : result.criteria[i].status = "satisfied"
    /\ \A f \in result.findings : f.severity \notin Severe
    /\ \A i \in DOMAIN result.rules :
         Severity[result.rules[i].rule] = "error" =>
           result.rules[i].status \in {"satisfied", "not_applicable"}

\* The evidence keeps to its budget, and when it does not call itself truncated it holds
\* all of the executor's context, before and after expansions, and the diff of every
\* changed file.
OmissionsAreReported ==
  stage \in {"asking", "expanding"} =>
    /\ Len(evidence.files) <= ReviewBudget.files
    /\ TotalSize(evidence.files) <= ReviewBudget.bytes
    /\ ~evidence.cut =>
         /\ PathsOf(context.files) \subseteq PathsOf(evidence.files)
         /\ \A i \in DOMAIN evidence.files : ~evidence.files[i].cut
         /\ evidence.diff = changed

\* What the reviewer asks for comes before what it has: a file that it asks for and that
\* exists is in its next evidence as it is now, and no older content of it, unless the
\* evidence is filled with what was asked for.
AskedIsShown ==
  [][ stage = "expanding" /\ stage' = "asking" =>
      LET asked == {p \in wanted.paths : Size[p] > 0}
                     \union UNION {Matches[s] : s \in wanted.symbols}
          shown == {i \in DOMAIN evidence'.files : evidence'.files[i].path \in asked}
      IN /\ \A i \in shown : evidence'.files[i].version = version[evidence'.files[i].path]
         /\ \/ asked \subseteq PathsOf(evidence'.files)
            \/ PathsOf(evidence'.files) \subseteq asked ]_evidenceVars

\* The executor's context of a task, chosen from the planner's or widened, holds nothing
\* that the task does not name while a file that it names, and that exists, is left out.
RelevantComesFirst ==
  stage = "executing" /\ source # "build" =>
    LET named == target.paths \union UNION {Matches[s] : s \in target.symbols}
    IN \/ {p \in target.paths : Size[p] > 0} \subseteq PathsOf(context.files)
       \/ PathsOf(context.files) \subseteq named

=============================================================================
