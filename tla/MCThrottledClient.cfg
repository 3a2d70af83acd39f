SPECIFICATION FairSpec
CONSTANTS
  c1 = c1
  Callers <- OneCaller
  Policies <- ThreePolicies
  Responses <- AllAnswers
  Defaults <- MCDefaults
  Width = 7
  MaxShift = 4
  MaxTokens = 2
  Interval = 2
  Horizon = 4
INVARIANTS
  SendsWithinRate
  RetryBudget
  BodiesClosed
  EventsTellTheCall
PROPERTIES
  WaitHonoured
  CancelEndsCall
