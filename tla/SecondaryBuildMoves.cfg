SPECIFICATION Spec
CONSTANTS
  v1 = v1
  v2 = v2
  Values <- MCValues
  Entities <- MCEntities2
  Upper = 2
  None = None
  Bad = Bad
  Absent = Absent
  Definitions = {TRUE}
  Batch = 2
  Reach = 0
  StallLimit = 1
  MaxChanges = 2
  Binaries <- OnlyCurrent
  Rollback = FALSE
  MaxRestarts = 1
SYMMETRY Symmetry
INVARIANTS
  WritesFindNoCorruption
