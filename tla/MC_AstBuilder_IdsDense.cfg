CONSTANTS
  MaxUnits = 1
  MaxPragmas = 1
  MaxImports = 1
  MaxElements = 2
  MaxEnumValues = 2
  Widths <- MC_OneWidth
SPECIFICATION Spec
CHECK_DEADLOCK FALSE
INVARIANT IdsDense
