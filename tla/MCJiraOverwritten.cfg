CONSTANTS
  Ticket = {a, b}
  Imported = {a}
  Status = {"todo", "in_progress", "done"}
  New = "todo"
  Edge <- Line
  Changes <- Fields
  MaxAttempts = 2
  MaxOps = 3
  MaxEvents = 1
  MaxLoad = 6
SPECIFICATION Spec
INVARIANT LastEditStays
CHECK_DEADLOCK FALSE
