\* Roots of up to two source units, each contract matching any set of standards.
CONSTANTS
  MaxUnits = 2
SPECIFICATION Spec
\* processRoot returns the root; nothing follows it.
CHECK_DEADLOCK FALSE
INVARIANTS
  
  ContractTypesFollowEips
  
PROPERTIES
  
  ProcessRootAtomic
