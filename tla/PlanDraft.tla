----------------------------- MODULE PlanDraft ------------------------------
(*****************************************************************************)
(* What the Planner makes of a model's answer: the one plan that is read     *)
(* from its text, its acceptance criteria grouped where there are too many   *)
(* of them, and the checks of PlanValidator, which every plan passes again   *)
(* when it is registered and when it is approved.                            *)
(*                                                                           *)
(* An answer is [finish, thinking, shape, values]: its text is a whole JSON  *)
(* value, code fences or prose, with the values that can be told apart in    *)
(* it.  A value is a draft, Other (JSON that is no plan) or Broken.  A draft *)
(* is [complete, bounded, tasks]: whether it has all that the schema wants,  *)
(* whether the texts left out here keep their bounds, and its tasks [id,     *)
(* dependencies, criteria].  A criterion is [lines, length].                 *)
(*****************************************************************************)
EXTENDS Naturals, Sequences, FiniteSets, SequencesExt

CONSTANTS
  Answers,               \* what a model may answer
  Other, Broken,
  MaxTasks, MaxCriteria, MaxLength    \* PlanStructureBounds

NoPlan == {Other, Broken}

IsList(s) == s \in Seq(ToSet(s))

IsCriterion(c) == c \in [lines : Seq(ToSet(c.lines)), length : Nat]

IsTask(t) ==
  /\ t \in [id : {t.id}, dependencies : {t.dependencies}, criteria : Seq(ToSet(t.criteria))]
  /\ \A c \in ToSet(t.criteria) : IsCriterion(c)

IsDraft(v) ==
  /\ v \in [complete : BOOLEAN, bounded : BOOLEAN, tasks : Seq(ToSet(v.tasks))]
  /\ \A t \in ToSet(v.tasks) : IsTask(t)

ASSUME DraftAssumption ==
  /\ MaxTasks \in Nat /\ MaxCriteria \in Nat \ {0} /\ MaxLength \in Nat
  /\ \A a \in Answers :
       IsList(a.values) /\ \A i \in DOMAIN a.values : a.values[i] \in NoPlan \/ IsDraft(a.values[i])

----------------------------------------------------------------------------
\* parseJsonValue: where in an answer the values to choose from are.  A fence stands for
\* itself even when it is broken; of the objects in prose the broken ones are passed over,
\* and one that is no plan counts only when there is nothing else.
Readings(a) ==
  LET parsed == {i \in DOMAIN a.values : a.values[i] # Broken}
      plans  == {i \in parsed : a.values[i] # Other}
  IN IF a.shape = "prose" /\ plans # {} THEN plans
     ELSE IF a.shape = "prose" THEN parsed ELSE DOMAIN a.values

\* A thinking block in front has to be closed, and one reading has to be left.
Parsed(a) ==
  IF a.thinking = "open" \/ Cardinality(Readings(a)) # 1 THEN Broken
  ELSE a.values[CHOOSE i \in Readings(a) : TRUE]

----------------------------------------------------------------------------
\* groupCriteria
CanPair(first, second) == first.length + 1 + second.length <= MaxLength

Pair(first, second) ==
  [lines |-> first.lines \o second.lines, length |-> first.length + 1 + second.length]

NoPairs == [grouped |-> << >>, pairs |-> 0, next |-> 1]

\* The criterion at n, unless its pair has been made.
Visit(criteria, surplus, sofar, n) ==
  IF n < sofar.next THEN sofar
  ELSE IF sofar.pairs < surplus /\ n < Len(criteria) /\ CanPair(criteria[n], criteria[n + 1])
  THEN [grouped |-> Append(sofar.grouped, Pair(criteria[n], criteria[n + 1])),
        pairs |-> sofar.pairs + 1, next |-> n + 2]
  ELSE [sofar EXCEPT !.grouped = Append(@, criteria[n]), !.next = n + 1]

\* Mutant: the partner of a pair is seen again.
OverlappingPairs(criteria, surplus) ==
  LET upTo[n \in 0 .. Len(criteria)] ==
        IF n = 0 THEN NoPairs
        ELSE [Visit(criteria, surplus, upTo[n - 1], n) EXCEPT !.next = n + 1]
  IN upTo[Len(criteria)]

\* From the left, neighbours that fit together make a pair until enough of them do.
Pairs(criteria, surplus) ==
  LET upTo[n \in 0 .. Len(criteria)] ==
        IF n = 0 THEN NoPairs ELSE Visit(criteria, surplus, upTo[n - 1], n)
  IN upTo[Len(criteria)]

Grouped(criteria) ==
  LET surplus == Len(criteria) - MaxCriteria
      all == Pairs(criteria, surplus)
  IN IF /\ Len(criteria) > MaxCriteria /\ surplus <= Len(criteria) \div 2
        /\ \A i \in DOMAIN criteria : criteria[i].length <= MaxLength
        /\ all.pairs = surplus
     THEN all.grouped ELSE criteria

\* groupPlanAcceptanceCriteria, with the schema's answer.
GroupedTask(task) == [task EXCEPT !.criteria = Grouped(@)]

PlanOf(draft) == [draft EXCEPT !.tasks = [i \in DOMAIN @ |-> GroupedTask(@[i])]]

----------------------------------------------------------------------------
\* PlanValidator.validate
Ids(plan) == {plan.tasks[i].id : i \in DOMAIN plan.tasks}

\* detectTaskCycle.  Of tasks with one id the last one counts.
Cyclic(plan) ==
  \E S \in SUBSET Ids(plan) :
    /\ S # {}
    /\ \A t \in S : \E i \in DOMAIN plan.tasks :
         plan.tasks[i].id = t /\ plan.tasks[i].dependencies \intersect S # {}

\* assertWithinStructureBounds
WithinBounds(plan) ==
  /\ plan.bounded /\ Len(plan.tasks) <= MaxTasks
  /\ \A i \in DOMAIN plan.tasks :
       /\ Len(plan.tasks[i].criteria) <= MaxCriteria
       /\ \A c \in ToSet(plan.tasks[i].criteria) : c.length <= MaxLength

\* The schema wants a task, and a criterion of every task.
Complete(plan) ==
  /\ plan.complete /\ plan.tasks # << >>
  /\ \A i \in DOMAIN plan.tasks : plan.tasks[i].criteria # << >>

Valid(plan) ==
  /\ Complete(plan)
  /\ Cardinality(Ids(plan)) = Len(plan.tasks)
  /\ \A i \in DOMAIN plan.tasks :
       plan.tasks[i].dependencies \subseteq Ids(plan) \ {plan.tasks[i].id}
  /\ ~Cyclic(plan)
  /\ WithinBounds(plan)

\* Planner.run: an answer that was cut off or is empty is not read.
Accepted(a) ==
  /\ a.finish # "length" /\ a.values # << >>
  /\ Parsed(a) \notin NoPlan /\ Complete(Parsed(a)) /\ Valid(PlanOf(Parsed(a)))

----------------------------------------------------------------------------
\* Properties.

\* The plan can be carried out: its tasks can be put into an order in which each comes
\* after all it depends on.
CanBeCarriedOut(plan) ==
  \E order \in SetToSeqs(DOMAIN plan.tasks) :
    \A n \in DOMAIN order :
      plan.tasks[order[n]].dependencies \subseteq {plan.tasks[order[m]].id : m \in 1 .. n - 1}

Lines(criteria) == FlattenSeq([i \in DOMAIN criteria |-> criteria[i].lines])

\* There are as many places for a pair, none next to another, as criteria are too many.
CanBeGrouped(criteria) ==
  \E places \in SUBSET {i \in 1 .. Len(criteria) - 1 : CanPair(criteria[i], criteria[i + 1])} :
    /\ \A i \in places : i + 1 \notin places
    /\ Cardinality(places) = Len(criteria) - MaxCriteria

\* Of every answer: the plan accepted is the only one in it and can be carried out.
PlansKept ==
  \A a \in Answers : Accepted(a) =>
    /\ a.finish # "length" /\ a.thinking # "open"
    /\ Cardinality({i \in DOMAIN a.values : a.values[i] \notin NoPlan}) = 1
    /\ CanBeCarriedOut(PlanOf(Parsed(a)))

\* Of every answer: grouping keeps the lines, and groups whenever it can be done.
CriteriaKept ==
  \A a \in Answers : \A v \in ToSet(a.values) \ NoPlan : \A i \in DOMAIN v.tasks :
     LET criteria == v.tasks[i].criteria
         grouped  == PlanOf(v).tasks[i].criteria
     IN /\ Lines(grouped) = Lines(criteria)
        /\ \A c \in ToSet(grouped) : c.length <= MaxLength \/ c \in ToSet(criteria)
        /\ /\ Len(criteria) > MaxCriteria /\ CanBeGrouped(criteria)
           /\ \A c \in ToSet(criteria) : c.length <= MaxLength
           => Len(grouped) = MaxCriteria

AnswersKept == PlansKept /\ CriteriaKept

=============================================================================
