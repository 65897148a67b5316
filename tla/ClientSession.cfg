SPECIFICATION ClientSpec
CONSTANTS
  w1 = w1
  w2 = w2
  t1 = t1
  t2 = t2
  None = None
  Workflows <- MCWorkflows
  Plan <- MCPlan
  Retentions = {1, 2}
  MaxReloads = 1
SYMMETRY MCSymmetry
CHECK_DEADLOCK FALSE
INVARIANTS
  OneLiveWorkflow
  RecoveryIsLatest
