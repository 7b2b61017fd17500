SPECIFICATION FairSpec
CONSTANTS
  Request = {q1, q2}
  None = None
  Pr = {1, 2}
  NoPr = NoPr
  MaxLapses = 1
  MaxCrashes = 1
  MaxFaults = 1
  MaxMoves = 2
INVARIANTS Consistent OneAtWork MergedIsMerged
PROPERTIES FinalStays LeaseGivenBack
CHECK_DEADLOCK FALSE
