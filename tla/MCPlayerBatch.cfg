SPECIFICATION FairSpec
CONSTANTS
  BatchWorkers = 2
  MaxInputs = 5
CHECK_DEADLOCK FALSE
INVARIANTS
  ClosedAfterWorkers
  BoundedAhead
  BoundedAfterCancel
PROPERTIES
  DeliversContract
  CancelReleases
  ReadingEnds
  SingleDelivered
