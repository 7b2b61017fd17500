SPECIFICATION Spec
CONSTANTS
  Tickets = {t1}
  Jobs = {}
  Shared = {}
  Isolated = {i1, i2}
  None = None
  MaxCrashes = 0
  MaxStoreFails = 0
  MaxHandFails = 0
  MaxEdits = 1
  MaxTroubles = 1
  MaxLaunches = 2
PROPERTIES ReopensItsOwn
CHECK_DEADLOCK FALSE
