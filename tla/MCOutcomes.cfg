SPECIFICATION LiveSpec
CONSTANTS
  Tickets = {t1}
  Jobs = {j1}
  Shared = {s1}
  Isolated = {i1, i2}
  None = None
  MaxCrashes = 1
  MaxStoreFails = 1
  MaxHandFails = 1
  MaxEdits = 1
  MaxTroubles = 1
  MaxLaunches = 2
INVARIANTS Consistent DecisionTakesEffect SettledCompletely
PROPERTIES EffectOfItsIteration Converges
CHECK_DEADLOCK FALSE
