CONSTANTS
  Job = {1, 2}
  NoJob = 0
  Dep <- Independent
  Priorities = {1, 2}
  Interactive = {}
  BudgetCap = 9
  MaxFaults = 1
  MaxCrashes = 0
  MaxKills = 0
  MaxPauses = 0
  MaxMoves = 0
  MaxForgets = 0
SPECIFICATION Spec
INVARIANTS
  PriorityOrder
CHECK_DEADLOCK FALSE
