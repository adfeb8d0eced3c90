SPECIFICATION FairSpec
CONSTANTS
  Requests = {r1}
  Steppers = {s1}
  Closers = {c1, c2}
  NoOne = noone
  CloseTask = closetask
  StopOrder <- TwoWorkers
  Aborted = {"warm"}
  MaxFailures = 1
CHECK_DEADLOCK FALSE
INVARIANTS
  NothingRunsOnClosedStorage
  CloseIsOwnedOnce
  OkMeansClosed
  StepsRunAlone
PROPERTIES
  ImplementsDrain
  CloseReturns
  StepsReturn
