\* Two byte values whose hex digits include letters, bytecode of up to two bytes.
CONSTANTS
  Bytes = {10, 171}
  MaxCode = 2
SPECIFICATION Spec
INVARIANTS
  
  VerifiedIffSameBytes
