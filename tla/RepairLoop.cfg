\* Two findings, limits that let the stuck threshold bite before them, and few
\* reviews, so that a limit can be reached as well.
CONSTANTS
  f1 = f1
  f2 = f2
  Findings = {f1, f2}
  MaxCycles = 5
  MaxExecutions = 5
  MaxValidations = 5
  MaxReviews = 2
  MaxExpansions = 1
  StuckThreshold = 2
SPECIFICATION FairSpec
INVARIANTS
  Judged
  ExecutionsMakeProgress
PROPERTIES
  ImplementsContract
  LoopEnds
CHECK_DEADLOCK FALSE
