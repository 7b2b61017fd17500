CONSTANTS
  Job = {1, 2}
  NoJob = 0
  Dep <- Independent
  Priorities = {1}
  Interactive = {2}
  BudgetCap = 1
  MaxFaults = 2
  MaxCrashes = 1
  MaxKills = 1
  MaxPauses = 1
  MaxMoves = 0
  MaxForgets = 1
SPECIFICATION Spec
INVARIANTS
  SettledExactlyOnce
  OneChild
  SpendIsKnown
CHECK_DEADLOCK FALSE
