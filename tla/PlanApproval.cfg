\* Two workflows and three plans, whose ids clients reuse; the rules of two
\* plans are kept.  A plan has two tasks of two criteria.
CONSTANTS
  w1 = w1
  w2 = w2
  p1 = p1
  p2 = p2
  p3 = p3
  t1 = t1
  t2 = t2
  Other = Other
  Broken = Broken
  a = a
  b = b
  Nothing = Nothing
  Workflows = {w1, w2}
  Plans = {p1, p2, p3}
  Answers <- MCAnswers
  Given <- MCGiven
  Contents <- MCContents
  MaxTasks = 2
  MaxCriteria = 2
  MaxLength = 4
  Calls = {a, b}
  MaxRuleSets = 2
SPECIFICATION Spec
SYMMETRY Symmetry
INVARIANTS
  AnswersAreKept
  WorkIsApproved
PROPERTIES
  DecisionsAreFinal
  DraftIsOffered
CHECK_DEADLOCK FALSE
