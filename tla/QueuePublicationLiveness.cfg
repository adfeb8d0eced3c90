SPECIFICATION FairSpec
CONSTANTS
  a = a
  b = b
  Entities <- MCEntities
  None = None
  Families <- TextOnly
  Kinds <- AllKinds
  Capacity = 1
  DiscardLimit = 2
  MaxEntities = 2
  Crashes = FALSE
  Owners <- ActiveOnly
  InputLimits <- All
  MaxOps = 3
  MaxFlights = 1
  MaxFaults = 1
PROPERTIES ServedStepsForward PublishableIsPublished
CHECK_DEADLOCK FALSE
