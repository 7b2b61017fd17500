CONSTANTS
  Projects = {p1, p2}
  Removable = {p1}
  Requests = {r1}
  MaxAttempts = 2
  MaxRestarts = 1
  MaxLocks = 1
  MaxRetries = 1
SPECIFICATION FairSpec
INVARIANTS Consistent AdmittedMeansRecovered
PROPERTIES ActsOnItsOwnProject BecomesUsable
CHECK_DEADLOCK FALSE
