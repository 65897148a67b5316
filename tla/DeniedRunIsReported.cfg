\* Refuted: a denied permission during Repair.
CONSTANTS
  t1 = t1
  t2 = t2
  t3 = t3
  c1 = c1
  c2 = c2
  NoTask = NoTask
  Tasks = {t1, t2}
  Deps <- Pair
  Rank <- PairRank
  AllowRepair = TRUE
  CallerSignal = FALSE
  Callers = {c1, c2}
  MaxPauses = 0
  MaxAsks = 1
  MaxAttempts = 1
SPECIFICATION Spec
INVARIANT DeniedRunIsReported
