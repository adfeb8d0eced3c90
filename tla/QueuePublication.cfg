SPECIFICATION Spec
CONSTANTS
  a = a
  b = b
  Entities <- MCEntities
  None = None
  Families <- BothFamilies
  Kinds <- AllKinds
  Capacity = 2
  DiscardLimit = 2
  MaxEntities = 2
  Crashes = TRUE
  Owners <- AnyOwner
  InputLimits <- All
  MaxOps = 3
  MaxFlights = 1
  MaxFaults = 1
INVARIANTS NewestIsQueuedOrServed RetainedIsOutstanding StalledHasNothingToTry
CHECK_DEADLOCK FALSE
SYMMETRY Swap
