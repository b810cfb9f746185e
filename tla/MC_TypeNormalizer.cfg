\* Every type name of up to four tokens, every mapping of up to two levels.
CONSTANTS
  MaxLen = 4
  MaxDepth = 2
SPECIFICATION Spec
\* A call returns once; nothing follows it.
CHECK_DEADLOCK FALSE
INVARIANTS
  TypeOK
  Idempotent
  StatusAgrees
  MappingKeysFlattened
  
