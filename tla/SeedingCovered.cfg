SPECIFICATION Spec
CONSTANTS
  Extras = {z}
  Linked = {}
  Foreign = {z}
INVARIANT NewTablesAreCovered
