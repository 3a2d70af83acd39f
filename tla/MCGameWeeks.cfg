SPECIFICATION SeasonSpec
CONSTANTS
  c1 = c1
  c2 = c2
  None = None
  Callers <- TwoCallers
  GameweeksTTL = 1
  ManagerTTL = 2
  LastGameweek = 2
  Horizon = 4
SYMMETRY CallerSymmetry
INVARIANTS
  RolloverDetected
