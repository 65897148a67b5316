\* Three plans share two places; all may be in use, and a task may be called twice.
CONSTANTS
  t1 = t1
  t2 = t2
  p1 = p1
  p2 = p2
  p3 = p3
  NoTask = NoTask
  Tasks = {t1, t2}
  Deps <- Chain
  Rank <- ChainRank
  Plans = {p1, p2, p3}
  MaxPlans = 2
  MaxCalls = 2
SPECIFICATION Spec
SYMMETRY PlanSymmetry
INVARIANTS
  RecordsAreSound
PROPERTIES
  RunningIsKept
  CompletedStays
