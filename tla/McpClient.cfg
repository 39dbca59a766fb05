SPECIFICATION FairSpec
CONSTANTS
  Main = main
  Callers = {a, b}
  MaxFlips = 2
INVARIANTS
  TypeOK
  ToolsBeforeUse
  SessionOwned
  CleanSlate
  OrphanOnlyAfterTimeout
PROPERTIES
  StartupEnds
  CloseEnds
  CallsEnd
CHECK_DEADLOCK FALSE
