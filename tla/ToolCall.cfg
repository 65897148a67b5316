\* Patches of two files; the user edits a file once during the call.
CONSTANTS
  Paths <- MCPaths
  Places <- MCPlaces
  LeadsTo <- MCLeadsTo
  Names <- MCNames
  Inputs <- MCInputs
  Policies <- MCPolicies
  MaxEdits = 1

SPECIFICATION FairSpec
  
PROPERTY CallEnds
CHECK_DEADLOCK FALSE
