SPECIFICATION Spec
CONSTANTS
  Tickets = {t1}
  Jobs = {}
  Shared = {s1}
  Isolated = {}
  None = None
  MaxCrashes = 0
  MaxStoreFails = 0
  MaxHandFails = 0
  MaxEdits = 0
  MaxTroubles = 0
  MaxLaunches = 2
INVARIANTS InFlightHasRun
CHECK_DEADLOCK FALSE
