CONSTANTS
  Job = {1, 2, 3}
  NoJob = 0
  Dep <- PairAndOne
  Priorities = {1}
  Interactive = {}
  BudgetCap = 9
  MaxFaults = 1
  MaxCrashes = 1
  MaxKills = 0
  MaxPauses = 0
  MaxMoves = 0
  MaxForgets = 0
SPECIFICATION Spec
INVARIANTS
  StateConsistent
  AdmittedOnce
  SpawnedOnce
  NoStrandedDependent
  NoLostWakeup
PROPERTIES
  ImplementsLifecycle
CHECK_DEADLOCK FALSE
