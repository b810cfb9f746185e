CONSTANTS
  MaxLen = 4
  MaxDepth = 2
SPECIFICATION Spec
CHECK_DEADLOCK FALSE
INVARIANT NormalizeMatchesSpec
