SPECIFICATION Spec
CONSTANTS
  Rows = {r1}
  Others = {x}
  NoObject = x
  Scalar = scalar
  MaxItems = 1
  MaxBlocks = 1
INVARIANT EmptyResultIsNoted
CHECK_DEADLOCK FALSE
