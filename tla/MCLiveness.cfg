CONSTANTS
  Job = {1, 2}
  NoJob = 0
  Dep <- Independent
  Priorities = {1}
  Interactive = {}
  BudgetCap = 9
  MaxFaults = 1
  MaxCrashes = 1
  MaxKills = 0
  MaxPauses = 1
  MaxMoves = 0
  MaxForgets = 0
SPECIFICATION OperatedSpec
PROPERTIES
  QueueMoves
  EveryAdmissionSettles
  ShutdownConverges
CHECK_DEADLOCK FALSE
