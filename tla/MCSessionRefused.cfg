CONSTANTS
  Prompt = {first, p1, p2}
  First = first
  Collect = collect
  MaxHandoffs = 1
  MaxCollections = 1
  MaxRefusals = 1
SPECIFICATION Spec
INVARIANTS
  CountedNeverTwice
CHECK_DEADLOCK FALSE
