CONSTANTS
  MaxUnits = 2
SPECIFICATION Spec
CHECK_DEADLOCK FALSE
INVARIANT EntryContractFound
