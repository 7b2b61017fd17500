CONSTANTS
  Ticket = {a, b}
  Imported = {a, b}
  Status = {"todo", "in_progress", "done"}
  New = "todo"
  Edge <- Line
  Changes <- Fields
  MaxAttempts = 2
  MaxOps = 2
  MaxEvents = 4
  MaxLoad = 6
SPECIFICATION Spec
INVARIANT NothingStale
CHECK_DEADLOCK FALSE
