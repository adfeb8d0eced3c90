SPECIFICATION Spec
CONSTANTS
  Callers = {c1, c2}
  Refill = refill
  NoOne = noone
  MaxId = 6
  LeaseSize = 2
  RefillThreshold = 1
  Counts = {1, 2}
  Floors = {3}
  InitialWatermarks = {0}
  MaxWrites = 3
  MaxCrashes = 1
  MaxNotifies = 1
  MaxCloses = 0
SYMMETRY CallerSymmetry
INVARIANTS
  IdsAreReturnedOnce
  ReturnedIdsStayBelowWatermark
  ReservationHolds
  LeaseIsDurable
