SPECIFICATION Spec
CONSTANTS
  Rows = {r1, r2}
  Others = {x}
  NoObject = x
  Scalar = scalar
  MaxItems = 2
  MaxBlocks = 3
INVARIANTS
  
  NeverSilent
  NoFalseZero
SYMMETRY Symmetry
CHECK_DEADLOCK FALSE
