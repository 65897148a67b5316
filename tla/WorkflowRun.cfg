\* Three tasks with repair, two callers and the caller's signal: two pauses, two
\* permission requests and one retry of each task.
CONSTANTS
  t1 = t1
  t2 = t2
  t3 = t3
  c1 = c1
  c2 = c2
  NoTask = NoTask
  Tasks = {t1, t2, t3}
  Deps <- Late
  Rank <- LateRank
  AllowRepair = TRUE
  CallerSignal = TRUE
  Callers = {c1, c2}
  MaxPauses = 2
  MaxAsks = 2
  MaxAttempts = 2
SPECIFICATION FairSpec
INVARIANTS
  StartedTasksHaveDependencies
  OneTaskAtATime
  OutcomeIsDelivered
  PausedIsQuiet
  RetryableIsNext
PROPERTIES
  PassesAreEarned
  ImplementsLifecycle
  AbortStopsTheLoop
  LoopEndsOrAsks
