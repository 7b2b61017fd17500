SPECIFICATION Spec
CONSTANTS
  Call = {c1, c2, c3}
  Key <- MCKey
  NoCall = NoCall
INVARIANTS Exclusion FirstComeFirstServed
PROPERTY EveryCallCompletes
