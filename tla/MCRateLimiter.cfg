SPECIFICATION FairSpec
CONSTANTS
  w1 = w1
  w2 = w2
  Waiters <- MCWaiters
  MaxTokens = 2
  Interval = 3
  Horizon = 5
INVARIANTS
  WindowBound
  DelayExact
PROPERTIES
  ImplementsTokenBucket
  SomebodyAdmitted
