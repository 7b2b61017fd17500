SPECIFICATION Spec
CONSTANTS
  Request = {q1, q2}
  None = None
  Pr = {1}
  NoPr = NoPr
  MaxLapses = 0
  MaxCrashes = 1
  MaxFaults = 0
  MaxMoves = 0
INVARIANTS NoDanglingPr
CHECK_DEADLOCK FALSE
