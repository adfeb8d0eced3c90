SPECIFICATION FairSpec
CONSTANTS
  Callers = {c1}
  Refill = refill
  NoOne = noone
  MaxId = 4
  LeaseSize = 1
  RefillThreshold = 1
  Counts = {1}
  Floors = {2}
  InitialWatermarks = {0}
  MaxWrites = 3
  MaxCrashes = 0
  MaxNotifies = 2
  MaxCloses = 1
INVARIANTS
  ShutdownLeavesNoRefill
PROPERTIES
  ShutdownReturns
  CallsReturn
