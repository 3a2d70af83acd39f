SPECIFICATION WaitsSpec
CONSTANTS
  Width = 7
  MaxShift = 4
  Defaults <- MCDefaults
  RetryBound = 6
CHECK_DEADLOCK FALSE
INVARIANTS
  WaitWithinBounds
  
