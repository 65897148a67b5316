---------------------------- MODULE PlanApproval ----------------------------
(*****************************************************************************)
(* How a workflow gets the plan it executes: createPlan, replaceDraftPlan,   *)
(* approvePlan and rejectPlan of the orchestrator over the records of        *)
(* PlanRuntimeStore, and the checks of the approved content before work.     *)
(*                                                                           *)
(* createPlan awaits the context and the Planner, so that the user decides   *)
(* on the current draft, aborts, or asks for another one in between.  A plan *)
(* is an object its clients hold too: they can change its content at any     *)
(* time.  The content is a plan of PlanDraft, as far as planFingerprint      *)
(* covers it.  A run is reduced to the tasks it starts; its own behaviour is *)
(* WorkflowRun's.                                                            *)
(*****************************************************************************)
EXTENDS WorkflowStatus, PlanDraft

CONSTANTS
  Workflows, Plans, Nothing,
  Given,         \* the answers models give to the requests
  Contents,      \* what clients make of a plan
  Calls,         \* createPlan calls that can be in flight together
  MaxRuleSets    \* the 256 plans whose rules createPlan keeps

ASSUME ApprovalAssumption ==
  /\ Nothing \notin Workflows \union Plans \union Contents /\ Given \subseteq Answers
  /\ IsFiniteSet(Plans) /\ MaxRuleSets \in Nat /\ \A x \in Contents : IsDraft(x)

VARIABLES
  status, planId,    \* WorkflowState
  record,            \* PlanRuntimeStore.records: status, workflow, approved content
  content,           \* of the plan object
  ruleSets,          \* planRuleSets
  calls,             \* the workflow each createPlan call is for, and replacingDraft
  work,              \* the content a workflow's task in flight was given
  retryable          \* the workflows whose run failed at a task

flow == <<status, planId>>
plans == <<record, content>>
vars == <<flow, plans, ruleSets, calls, work, retryable>>

Unregistered == [status |-> "none", workflow |-> Nothing, approved |-> Nothing]
Draft(w) == [status |-> "draft", workflow |-> w, approved |-> Nothing]
NoCall == [workflow |-> Nothing, replacing |-> FALSE]

Init ==
  /\ status = [w \in Workflows |-> "created"]
  /\ planId = [w \in Workflows |-> Nothing]
  /\ record = [p \in Plans |-> Unregistered]
  /\ content = [p \in Plans |-> Nothing]
  /\ ruleSets = {} /\ calls = [c \in Calls |-> NoCall]
  /\ work = [w \in Workflows |-> Nothing] /\ retryable = {}

Enter(w, s) == status' = [status EXCEPT ![w] = s]

\* createPlan up to its first await; without a draft to replace the workflow
\* enters planning, or the call is refused.
CreatePlan(c, w) ==
  /\ calls[c] = NoCall
  /\ LET replacing == status[w] = "awaiting_plan_approval"
     IN /\ calls' = [calls EXCEPT ![c] = [workflow |-> w, replacing |-> replacing]]
        /\ IF replacing THEN UNCHANGED status
           ELSE Legal(status[w], "planning") /\ Enter(w, "planning")
  /\ UNCHANGED <<planId, plans, ruleSets, work, retryable>>

\* failWorkflowIfTracked
FailTracked(w) == IF Legal(status[w], "failed") THEN Enter(w, "failed") ELSE UNCHANGED status

\* The catch of createPlan.
PlanningFails(call) ==
  IF call.replacing THEN UNCHANGED status ELSE FailTracked(call.workflow)

\* Mutant: any plan that was not approved may be registered again.
CanReregister(p, w) ==
  record[p] = Unregistered \/ (record[p].workflow = w /\ record[p].status # "approved")

\* register throws unless this holds, and the plan is valid.
CanRegister(p, w) == record[p] \in {Unregistered, Draft(w)}

\* Mutant: the new draft is not registered.
RejectedOnly(w, p) == [record EXCEPT ![planId[w]].status = "rejected"]

\* The old draft is rejected, then the new one is registered.
Replaced(w, p) ==
  [record EXCEPT ![planId[w]].status = "rejected", ![p] = Draft(w)]

\* replaceDraftPlan throws at once unless this holds.
CanReplace(w) ==
  /\ status[w] = "awaiting_plan_approval"
  /\ record[planId[w]].status = "draft"

Planned == {PlanOf(Parsed(a)) : a \in {a \in Given : Accepted(a)}}

Filled(p) == \E x \in Planned : content' = [content EXCEPT ![p] = x]

\* The Planner has accepted an answer as plan p, whose id is new.
PlannerReturns(c, p) ==
  /\ calls[c] # NoCall /\ calls' = [calls EXCEPT ![c] = NoCall]
  /\ p \notin ruleSets /\ record[p] = Unregistered
  /\ LET w == calls[c].workflow
     IN IF Cardinality(ruleSets) >= MaxRuleSets
        THEN PlanningFails(calls[c]) /\ UNCHANGED <<planId, plans, ruleSets>>
        ELSE /\ ruleSets' = ruleSets \union {p}
             /\ IF calls[c].replacing
                THEN IF CanReplace(w)
                     THEN /\ record' = Replaced(w, p) /\ Filled(p)
                          /\ planId' = [planId EXCEPT ![w] = p] /\ UNCHANGED status
                     ELSE PlanningFails(calls[c]) /\ UNCHANGED <<planId, plans>>
                ELSE /\ record' = [record EXCEPT ![p] = Draft(w)] /\ Filled(p)
                     /\ IF Legal(status[w], "awaiting_plan_approval")
                        THEN /\ Enter(w, "awaiting_plan_approval")
                             /\ planId' = [planId EXCEPT ![w] = p]
                        ELSE PlanningFails(calls[c]) /\ UNCHANGED planId
  /\ UNCHANGED <<work, retryable>>

\* The context, the Planner or the rules of a task throw, as the Planner does for an
\* answer it does not accept.
PlannerThrows(c) ==
  /\ calls[c] # NoCall /\ calls' = [calls EXCEPT ![c] = NoCall]
  /\ PlanningFails(calls[c])
  /\ UNCHANGED <<planId, plans, ruleSets, work, retryable>>

\* replaceDraftPlan by a client, with a plan of its own that may have a known id.  When
\* it cannot be registered the old one has been rejected already.
ReplaceDraft(w, p, x) ==
  /\ CanReplace(w)
  /\ IF p # planId[w] /\ CanRegister(p, w) /\ Valid(x)
     THEN /\ record' = Replaced(w, p) /\ planId' = [planId EXCEPT ![w] = p]
          /\ content' = [content EXCEPT ![p] = x]
     ELSE record' = [record EXCEPT ![planId[w]].status = "rejected"] /\ UNCHANGED <<planId, content>>
  /\ UNCHANGED <<status, ruleSets, calls, work, retryable>>

ApprovePlan(w, p) ==
  /\ record[p].status = "draft" /\ Valid(content[p]) /\ status[w] = "awaiting_plan_approval"
  /\ record[p].workflow = w /\ planId[w] = p
  /\ record' = [record EXCEPT ![p].status = "approved", ![p].approved = content[p]]
  /\ Enter(w, "approved")
  /\ UNCHANGED <<planId, content, ruleSets, calls, work, retryable>>

RejectedRecord(p) == [record EXCEPT ![p].status = "rejected"]

RejectPlan(w, p) ==
  /\ record[p].status = "draft" /\ status[w] = "awaiting_plan_approval"
  /\ record[p].workflow = w /\ planId[w] = p
  /\ record' = RejectedRecord(p)
  /\ Enter(w, "failed")
  /\ UNCHANGED <<planId, content, ruleSets, calls, work, retryable>>

\* A client changes the plan object.
Edit(p) ==
  /\ content[p] # Nothing
  /\ content' \in {[content EXCEPT ![p] = x] : x \in Contents \ {content[p]}}
  /\ UNCHANGED <<flow, record, ruleSets, calls, work, retryable>>

\* Mutant: an approved plan is not compared with what was approved.
IsApproved(p) == record[p].status = "approved"

\* assertExecutable and assertApprovedPlanIntegrity
Executable(p) == record[p].status = "approved" /\ record[p].approved = content[p]

\* runApprovedPlan
Run(w, p) ==
  /\ record[p].workflow = w /\ planId[w] = p
  /\ status[w] = "approved" /\ Executable(p)
  /\ Enter(w, "running")
  /\ UNCHANGED <<planId, plans, ruleSets, calls, work, retryable>>

\* The pipeline of a task checks the plan, and works on a copy; executeTask of
\* a client does the same for a workflow that is approved or running.
StartTask(w) ==
  /\ status[w] \in {"approved", "running"} /\ work[w] = Nothing
  /\ IF Executable(planId[w])
     THEN work' = [work EXCEPT ![w] = content[planId[w]]] /\ UNCHANGED <<status, retryable>>
     ELSE /\ UNCHANGED <<work, retryable>>
          /\ IF status[w] = "running" THEN Enter(w, "failed") ELSE UNCHANGED status
  /\ UNCHANGED <<planId, plans, ruleSets, calls>>

\* The task ends, and perhaps the run with it, unless it was aborted.
EndTask(w) ==
  /\ work[w] # Nothing /\ work' = [work EXCEPT ![w] = Nothing]
  /\ \/ UNCHANGED <<status, retryable>>
     \/ status[w] = "running" /\ Enter(w, "completed") /\ UNCHANGED retryable
     \/ status[w] = "running" /\ Enter(w, "failed") /\ retryable' = retryable \union {w}
  /\ UNCHANGED <<planId, plans, ruleSets, calls>>

\* retryWorkflowExecution
Retry(w) ==
  /\ status[w] = "failed" /\ w \in retryable /\ Executable(planId[w])
  /\ Enter(w, "running") /\ retryable' = retryable \ {w}
  /\ UNCHANGED <<planId, plans, ruleSets, calls, work>>

AbortWorkflow(w) ==
  /\ Legal(status[w], "aborted") /\ Enter(w, "aborted")
  /\ UNCHANGED <<planId, plans, ruleSets, calls, work, retryable>>

Next ==
  \/ \E w \in Workflows :
       \/ \E c \in Calls : CreatePlan(c, w)
       \/ \E p \in Plans : \E x \in Contents : ReplaceDraft(w, p, x)
       \/ \E p \in Plans : ApprovePlan(w, p) \/ RejectPlan(w, p) \/ Run(w, p)
       \/ StartTask(w) \/ EndTask(w) \/ Retry(w) \/ AbortWorkflow(w)
  \/ \E c \in Calls : PlannerThrows(c) \/ \E p \in Plans : PlannerReturns(c, p)
  \/ \E p \in Plans : Edit(p)

Spec == Init /\ [][Next]_vars

----------------------------------------------------------------------------
\* Properties.

PlanStatuses == {"none", "draft", "approved", "rejected"}

TypeOK ==
  /\ status \in [Workflows -> Statuses] /\ planId \in [Workflows -> Plans \union {Nothing}]
  /\ record \in [Plans -> [status : PlanStatuses, workflow : Workflows \union {Nothing},
                           approved : Contents \union Planned \union {Nothing}]]
  /\ content \in [Plans -> Contents \union Planned \union {Nothing}] /\ ruleSets \subseteq Plans
  /\ calls \in [Calls -> [workflow : Workflows \union {Nothing}, replacing : BOOLEAN]]
  /\ work \in [Workflows -> Contents \union Planned \union {Nothing}] /\ retryable \subseteq Workflows

\* Whatever answer a request in flight gets, a plan made of it says what the model
\* answered: it is the only plan in the answer, which was not cut off; grouping has
\* neither lost, repeated nor reordered a line of a criterion; and no answer is refused
\* for its many criteria when some neighbours among them could be paired to keep the
\* limit, which taking pairs from the left might miss.
AnswersAreKept == (\E c \in Calls : calls[c] # NoCall) => AnswersKept

\* A task in flight was given the content the user approved, whatever clients
\* have done to the plan object before or after, and for whichever workflow; and
\* that content can be carried out, so that the scheduler finds a next task.
WorkIsApproved ==
  \A w \in Workflows : work[w] # Nothing =>
    /\ planId[w] # Nothing /\ record[planId[w]].workflow = w
    /\ record[planId[w]].status = "approved" /\ record[planId[w]].approved = work[w]
    /\ CanBeCarriedOut(work[w])

\* A decision is final: an approval keeps its content and workflow, and a rejected
\* plan is never a draft again; a workflow whose plan was approved, and one that has
\* ended, keeps its plan, since a plan that comes late is turned away.
DecisionsAreFinal ==
  [][/\ \A p \in Plans : record[p].status \in {"approved", "rejected"} => record'[p] = record[p]
     /\ \A w \in Workflows :
          status[w] \notin {"planning", "awaiting_plan_approval"} => planId'[w] = planId[w]]_vars

\* A workflow that awaits approval stops doing so by the user's decision or an abort,
\* never because another plan could not be made ("Failed regeneration leaves the prior
\* draft available for approval"), and as often as a plan is asked for again there is
\* a draft to decide on, unless a client lost it (see ReplaceDraft).
DraftIsOffered ==
  [][\A w \in Workflows :
       /\ status[w] = "awaiting_plan_approval" /\ status'[w] # status[w] =>
            status'[w] = "aborted" \/ record'[planId[w]].status \in {"approved", "rejected"}
       /\ /\ status'[w] = "awaiting_plan_approval" /\ calls' # calls
          /\ status[w] = "awaiting_plan_approval" => record[planId[w]] = Draft(w)
          => planId'[w] # Nothing /\ record'[planId'[w]] = Draft(w)]_vars

=============================================================================
