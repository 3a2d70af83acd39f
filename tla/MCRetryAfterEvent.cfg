SPECIFICATION Spec
CONSTANTS
  c1 = c1
  Callers <- OneCaller
  Policies <- ThreePolicies
  Responses <- AllAnswers
  Defaults <- MCDefaults
  Width = 7
  MaxShift = 4
  MaxTokens = 2
  Interval = 2
  Horizon = 2
INVARIANTS
  EventCarriesRetryAfter
