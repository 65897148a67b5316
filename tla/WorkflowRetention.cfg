\* Three workflows of which two are retained, and one runtime.
CONSTANTS
  w1 = w1
  w2 = w2
  w3 = w3
  WorkflowIds = {w1, w2, w3}
  MaxWorkflows = 2
  MaxRuntimes = 1
SPECIFICATION RetentionSpec
SYMMETRY WorkflowSymmetry
INVARIANTS
  RuntimeIsKept
PROPERTIES
  ActiveGoLast
CHECK_DEADLOCK FALSE
