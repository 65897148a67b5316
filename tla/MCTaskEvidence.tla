---------------------------- MODULE MCTaskEvidence ----------------------------
(* Four paths, one of which no file has, and budgets that do not hold all of them. *)
EXTENDS TaskEvidence

CONSTANTS a, b, c, gone, sym, rule

PathOrder == [p \in Paths |-> CASE p = a -> 1 [] p = b -> 2 [] p = c -> 3 [] OTHER -> 4]
FileSizes == [p \in Paths |-> CASE p = gone -> 0 [] p = b -> 2 [] OTHER -> 1]
SymbolIn == [s \in Symbols |-> {b}]
WordHits == [p \in Paths |-> IF p = a THEN 10 ELSE 3]

RuleSeverity == [r \in Rules |-> "error"]

Foci ==
  {[paths |-> {}, symbols |-> {}, exclusive |-> FALSE],
   [paths |-> {c}, symbols |-> {sym}, exclusive |-> TRUE]}
SomeTargets ==
  {[paths |-> {b, c}, symbols |-> {}], [paths |-> {c, gone}, symbols |-> {sym}]}

Planning == [files |-> 2, bytes |-> 4, perFile |-> 2]
Tasking == [files |-> 2, bytes |-> 3, perFile |-> 2]
Expanding == [files |-> 3, bytes |-> 4, perFile |-> 2]
Reviewing == [files |-> 2, bytes |-> 3, perFile |-> 2]

Step(required, status, output, isCut) ==
  [required |-> required, status |-> status, output |-> output, cut |-> isCut]
SomeValidations ==
  {[status |-> "passed", steps |-> <<Step(TRUE, "passed", 1, FALSE)>>],
   [status |-> "passed", steps |-> <<Step(TRUE, "passed", 1, FALSE), Step(FALSE, "failed", 2, FALSE)>>],
   [status |-> "failed", steps |-> <<Step(TRUE, "failed", 1, TRUE)>>]}

Evaluations == {"satisfied", "violated", "not_applicable", "uncertain"}
Of(status) == [criterion |-> "works", status |-> status]
NotAsked == [kind |-> "none", paths |-> {}, symbols |-> {}]
Rated == {<<[rule |-> rule, status |-> e]>> : e \in Evaluations}
SomeDrafts ==
  [status: {"passed", "failed"},
   criteria: {<< >>, <<Of("satisfied"), Of("satisfied")>>}
               \union {<<Of(s)>> : s \in {"satisfied", "unsatisfied", "uncertain"}},
   findings: SUBSET {[severity |-> "error", rule |-> NoRule], [severity |-> "info", rule |-> rule]},
   evaluated: {TRUE}, rules: {<< >>} \union Rated, request: {NotAsked}]
  \union
  [status: {"passed", "needs_more_context"}, criteria: {<<Of("satisfied")>>}, findings: {{}},
   evaluated: {FALSE}, rules: {<< >>},
   request: {NotAsked, [NotAsked EXCEPT !.kind = "broad"]}
              \union [kind: {"specific"}, paths: {{a}, {c}, {a, gone}}, symbols: SUBSET {sym}]]
  \union
  [status: {"needs_more_context"}, criteria: {<<Of("uncertain")>>}, findings: {{}},
   evaluated: {TRUE}, rules: Rated,
   request: {[kind |-> "specific", paths |-> {a}, symbols |-> {}]}]
=============================================================================
