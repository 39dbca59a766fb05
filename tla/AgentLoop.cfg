SPECIFICATION FairSpec
CONSTANTS
  p1 = p1
  s1 = s1
  d1 = d1
  None = None
  ProductIds = {p1}
  SupplierIds = {s1}
  Details = {d1}
  Calls = {c1, c2, c3}
  Refused = {c3}
  Replies <- MCReplies
  MaxSteps = 2
  MaxCalls = 2
  Deadline = 1
  ChatTime = 2
  CallTime = 1
  IdleTime = 1
INVARIANTS
  TypeOK
  ConversationWellFormed
  OutcomeConsistent
  LedgersAgree
  OncePerCall
  WallClockBound
  LateCallsOnlySummarize
  DataIsGrounded
PROPERTIES
  ReplayAddsNothing
  Termination
  ImplementsRun
