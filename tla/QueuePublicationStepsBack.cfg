SPECIFICATION Spec
CONSTANTS
  a = a
  b = b
  Entities <- OneEntity
  None = None
  Families <- BothFamilies
  Kinds <- FitOrBig
  Capacity = 2
  DiscardLimit = 2
  MaxEntities = 2
  InputLimits <- OneOrAll
  Owners <- ActiveOnly
  MaxOps = 4
  MaxFlights = 1
  Crashes = FALSE
  MaxFaults = 1
PROPERTY ServedNeverStepsBack
CHECK_DEADLOCK FALSE
