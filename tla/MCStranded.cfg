CONSTANTS
  Job = {1, 2, 3}
  NoJob = 0
  Dep <- Chain
  Priorities = {1}
  Interactive = {}
  BudgetCap = 9
  MaxFaults = 1
  MaxCrashes = 0
  MaxKills = 0
  MaxPauses = 0
  MaxMoves = 0
  MaxForgets = 0
SPECIFICATION Spec
INVARIANTS
  NoStrandedDependent
CHECK_DEADLOCK FALSE
