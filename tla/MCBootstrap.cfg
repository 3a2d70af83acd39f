SPECIFICATION FairSpec
CONSTANTS
  c1 = c1
  c2 = c2
  st1 = st1
  st2 = st2
  None = None
  Callers <- TwoCallers
  Stores <- TwoStores
  Explicit <- FirstExplicit
  SectionOrder <- TwoSections
  MaxDownloads = 2
INVARIANTS
  GateOwned
  
PROPERTIES
  
  
  WaiterServed
  CancelledLeavesQueue
