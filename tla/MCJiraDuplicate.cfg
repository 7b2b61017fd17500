CONSTANTS
  Ticket = {a, b}
  Imported = {a}
  Status = {"todo", "in_progress", "done"}
  New = "todo"
  Edge <- Line
  Changes <- Fields
  MaxAttempts = 2
  MaxOps = 2
  MaxEvents = 2
  MaxLoad = 6
SPECIFICATION Spec
INVARIANT IssueOnce
CHECK_DEADLOCK FALSE
