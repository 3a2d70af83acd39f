SPECIFICATION FairSpec
CONSTANTS
  p1 = p1
  p2 = p2
  k1 = k1
  k2 = k2
  None = None
  Procs <- TwoProcs
  Keys <- TwoKeys
  TTLs = {1}
  MaxWrites = 2
  Horizon = 2
INVARIANTS
  AnswersExplained
PROPERTIES
  FreshSurvives
  ExpiredReclaimed
