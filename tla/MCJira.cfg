CONSTANTS
  Ticket = {a, b}
  Imported = {a}
  Status = {"todo", "in_progress", "done"}
  New = "todo"
  Edge <- Line
  Changes <- Fields
  MaxAttempts = 2
  MaxOps = 3
  MaxEvents = 2
  MaxLoad = 4
SPECIFICATION FairSpec
INVARIANTS Consistent SentOnce
PROPERTIES NewestWins RunsEmpty
CHECK_DEADLOCK FALSE
