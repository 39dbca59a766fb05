SPECIFICATION Spec
CONSTANTS
  Extras = {x, y, z}
  Linked = {y}
  Foreign = {z}
INVARIANTS
  SeedIsWhole
  RoleIsWhole
PROPERTY RerunsWork
