SPECIFICATION Spec
CONSTANTS
  Entities = {e1, e2}
  Ids = {i1, i2, i3}
  Producers = {p1, p2}
  None = None
  MaxBytes = 1
  MaxMembers = 1
  MaxClock = 1
INVARIANTS StoredWorkIsCharged OutcomesAreExact LimitsHold
SYMMETRY Symmetry
