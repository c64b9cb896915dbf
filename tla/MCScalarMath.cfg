SPECIFICATION Spec
CONSTANTS
  ByteMod = 8
  Bytes = 3
  WordBytes = 2
INVARIANTS
  AddersAdd
  ClampIsArithmetic
