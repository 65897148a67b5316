--------------------------- MODULE MCPlanApproval ---------------------------
(* Small answers and plans for PlanApproval.  The ids of plans are
   interchangeable, and so are workflows and calls. *)
EXTENDS PlanApproval, TLC

CONSTANTS t1, t2

Symmetry == Permutations(Workflows) \union Permutations(Plans) \union Permutations(Calls)

\* Criteria of the lengths given, each with a line of its own.
CriteriaOf(lengths) == [i \in DOMAIN lengths |-> [lines |-> <<i>>, length |-> lengths[i]]]

OneTask(lengths) == <<[id |-> t1, dependencies |-> {}, criteria |-> CriteriaOf(lengths)]>>

\* Two tasks that depend on the tasks given.
TwoTasks(first, second) ==
  <<[id |-> t1, dependencies |-> first, criteria |-> CriteriaOf(<<1>>)],
    [id |-> t2, dependencies |-> second, criteria |-> CriteriaOf(<<1>>)]>>

DraftOf(list) == [complete |-> TRUE, bounded |-> TRUE, tasks |-> list]

Good == DraftOf(TwoTasks({t2}, {}))
Circular == DraftOf(TwoTasks({t2}, {t1}))
MCContents == {Good, DraftOf(OneTask(<<1>>)), Circular}

Told(list) == [finish |-> "stop", thinking |-> "none", shape |-> "json", values |-> list]

\* Criteria of every length up to one more than can be grouped.
Lengths == UNION {[1 .. n -> {1, 2, 4}] : n \in 0 .. 2 * MaxCriteria + 1}

Faulty ==
  {DraftOf(TwoTasks(first, second)) : first \in SUBSET {t1, t2}, second \in SUBSET {t1, t2}}
    \union {[Good EXCEPT !.bounded = FALSE], [Good EXCEPT !.complete = FALSE], DraftOf(<< >>),
            DraftOf(OneTask(<<1>>) \o OneTask(<<1>>)), DraftOf(TwoTasks({}, {}) \o OneTask(<<1>>))}

MCGiven == {Told(<<Good>>), Told(<<DraftOf(OneTask(<<1, 2, 1>>))>>), Told(<<Circular>>)}

MCAnswers ==
  MCGiven \union {Told(<<DraftOf(OneTask(lengths))>>) : lengths \in Lengths}
    \union {Told(<<d>>) : d \in Faulty}
    \union [finish : {"stop", "length"}, thinking : {"none", "closed", "open"},
            shape : {"fenced", "prose"},
            values : UNION {[1 .. n -> {Good, Circular, Other, Broken}] : n \in 0 .. 2}]
=============================================================================
