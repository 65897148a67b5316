\* Files of one and two units, budgets of two files and three units.
CONSTANTS
  a = a
  b = b
  c = c
  gone = gone
  sym = sym
  rule = rule
  Paths = {a, b, c, gone}
  Order <- PathOrder
  Size <- FileSizes
  Symbols = {sym}
  Matches <- SymbolIn
  Hits <- WordHits
  TaskHits <- WordHits
  Criteria = {"works"}
  Rules = {rule}
  Severity <- RuleSeverity
  PlannerFocus <- Foci
  Targets <- SomeTargets
  PlannerBudget <- Planning
  TaskBudget <- Tasking
  ExpansionBudget <- Expanding
  ReviewBudget <- Reviewing
  DiffBytes = 1
  ValidationBytes = 2
  Validations <- SomeValidations
  Drafts <- SomeDrafts
  MaxTurns = 3
  MaxExpansions = 2
  MaxVersion = 1
SPECIFICATION EvidenceSpec
INVARIANTS
  PassIsDeserved
  OmissionsAreReported
  RelevantComesFirst
PROPERTIES
  AskedIsShown
CHECK_DEADLOCK FALSE
