\* One file with one content besides the committed one; a read of the initial context
\* and another, a write, a validation and a request that is malformed.
CONSTANTS
  Reads = {"open", "list"}
  ContextReads = {"open"}
  Writes = {"write"}
  Scripts = {}
  Checks = {"check"}
  Malformed = {"malformed"}
  MalformedReads = {}
  Limits <- SmallLimits
  Files = {"a"}
  Contents = {0, 1}
  Jobs <- SomeJobs
  ToolOf <- SomeTools
  Outputs = {1}
  MaxBatch = 2
  ContextSizes = {3}
  MinContext = 1
SPECIFICATION Spec
INVARIANTS
  AccountsAdd
  CompletedIsEarned
PROPERTIES
  NoCallTwice
CHECK_DEADLOCK FALSE
