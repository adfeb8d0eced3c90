SPECIFICATION FairSpec
CONSTANTS
  v1 = v1
  v2 = v2
  Values <- MCValues
  Entities <- MCEntities2
  Upper = 2
  None = None
  Bad = Bad
  Absent = Absent
  Definitions = {TRUE, FALSE}
  Batch = 1
  Reach = 2
  StallLimit = 1
  MaxChanges = 1
  Binaries <- OnlyCurrent
  Rollback = FALSE
  MaxRestarts = 0
INVARIANTS
  ActiveIsExact
PROPERTIES
  BuildsEnd
