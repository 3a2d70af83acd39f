SPECIFICATION Spec
CONSTANTS
  c1 = c1
  c2 = c2
  g1 = g1
  g2 = g2
  Clients <- TwoClients
  Closers <- TwoClosers
  Timeouts <- ATimeout
  Rates <- MCRates
  DefaultTimeout = 10
  DefaultRate = 50
  CallerTimeout = 30
  Environments <- MCEnvironments
  MaxOptions = 3
CHECK_DEADLOCK FALSE
SYMMETRY InterchangeableParts
INVARIANTS
  FinalOptionWins
  PoolsAccountedFor
  CloseSettled
PROPERTIES
  LentUntouched
