SPECIFICATION FairSpec
CONSTANTS
  Indexes = {i1, i2}
  None = None
  MaxOps = 3
  BuildSteps = 1
  CleanupSteps = 0
  Concurrency = 2
  Modes <- BothModes
  MaxFaults = 1
  MaxCrashes = 1
INVARIANTS LinksValidate ClaimsAreOwned OneTaskPerOperation
PROPERTIES ImplementsIndexStates OperationsSettle
CHECK_DEADLOCK FALSE
