SPECIFICATION Spec
CONSTANTS
  v1 = v1
  v2 = v2
  Values <- MCValues
  Entities <- MCEntities3
  Upper = 2
  None = None
  Bad = Bad
  Absent = Absent
  Definitions = {TRUE}
  Batch = 2
  Reach = 1
  StallLimit = 1
  MaxChanges = 1
  Binaries <- OnlyLegacy
  Rollback = FALSE
  MaxRestarts = 1
SYMMETRY Symmetry
INVARIANTS
  ActiveIsExact
  HeldValueIsSound
  CleanupIsComplete
  StepsFindNoCorruption
  WritesFindNoCorruption
PROPERTIES
  BlockersAreReal
