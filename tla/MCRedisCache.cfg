SPECIFICATION FairSpec
CONSTANTS
  c1 = c1
  c2 = c2
  Callers <- TwoCallers
  PrefixChoices <- MCPrefixes
  Names = {"x","y"}
  Foreign <- MCForeign
  BatchSize = 2
  MaxCalls = 2
CHECK_DEADLOCK FALSE
INVARIANTS
  ClearCompletes
  
  
PROPERTIES
  OperationsEnd
