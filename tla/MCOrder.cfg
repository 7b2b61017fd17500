CONSTANTS
  Job = {1, 2, 3}
  NoJob = 0
  Dep <- Independent
  Priorities = {1, 2}
  Interactive = {}
  BudgetCap = 1
  MaxFaults = 0
  MaxCrashes = 1
  MaxKills = 0
  MaxPauses = 0
  MaxMoves = 1
  MaxForgets = 0
SPECIFICATION Spec
INVARIANTS
  PriorityOrder
  DurableOrder
CHECK_DEADLOCK FALSE
