SPECIFICATION Spec
CONSTANTS
  Tickets = {t1}
  Jobs = {}
  Shared = {}
  Isolated = {i1, i2}
  None = None
  MaxCrashes = 1
  MaxStoreFails = 1
  MaxHandFails = 0
  MaxEdits = 0
  MaxTroubles = 1
  MaxLaunches = 2
PROPERTIES EffectAlwaysOfItsIteration
CHECK_DEADLOCK FALSE
