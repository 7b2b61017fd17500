CONSTANTS
  Projects = {p1}
  Removable = {p1}
  Requests = {r1}
  MaxAttempts = 1
  MaxRestarts = 0
  MaxLocks = 0
  MaxRetries = 2
SPECIFICATION Spec
INVARIANTS QuiescedStaysClosed

CHECK_DEADLOCK FALSE
