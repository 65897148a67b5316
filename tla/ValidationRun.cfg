\* Three steps and two tracked files, of which one is shown in a diff.
CONSTANTS
  Kinds = 3
  Settings <- Typical
  Files = 2
  Copies <- TwoFiles
  DiffCap = 1
SPECIFICATION Spec
INVARIANTS
  PassedIsEarned
  PassedKeepsFiles
CHECK_DEADLOCK FALSE
