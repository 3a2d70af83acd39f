SPECIFICATION Spec
CONSTANTS
  c1 = c1
  c2 = c2
  s1 = s1
  s2 = s2
  None = None
  Callers <- TwoCallers
  Stores <- TwoStores
  Mixes <- SharedDestinations
  MaxPageCache = 3
  TTL = 1
  MaxFetches = 2
  Horizon = 3
SYMMETRY CallerSymmetry
INVARIANTS
  OnePayload
