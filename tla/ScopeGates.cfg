SPECIFICATION Spec
CONSTANTS
  Requests = {r1, r2}
  Drops = {d1}
  Worker = Worker
  Refresher = Refresher
  Unverified = Unverified
  Roles = {TRUE, FALSE}
  DropRetries = 1
  MaxGen = 1
  MaxVersion = 1
  MaxEpoch = 2
INVARIANTS CachedCatalogIsExact PlansStayPublished GatesNeverDeadlock
PROPERTIES WritesMatchTheirPlan FencedStepsSeeNoWrite
SYMMETRY Symmetry
CHECK_DEADLOCK FALSE
