CONSTANTS
  MaxUnits = 2
  MaxPragmas = 1
  MaxImports = 1
  MaxElements = 2
  MaxEnumValues = 2
  Widths <- MC_OneWidth
SPECIFICATION Spec
CHECK_DEADLOCK FALSE
INVARIANTS
  TypeOK
  IdsUnique
  
  FullyImplementedSound
  TreeLinked
PROPERTIES
  IdAllocation
  
