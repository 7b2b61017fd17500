CONSTANTS
  Prompt = {first, p1, p2}
  First = first
  Collect = collect
  MaxHandoffs = 1
  MaxCollections = 2
  MaxRefusals = 1
SPECIFICATION FairSpec
INVARIANTS
  Consistent
  CountedOnce
  FailureNotMasked
PROPERTIES
  ImplementsDelivery
  Ends
CHECK_DEADLOCK FALSE
