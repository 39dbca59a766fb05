SPECIFICATION Spec
CONSTANTS
  p1 = p1
  s1 = s1
  d1 = d1
  None = None
  ProductIds = {p1}
  SupplierIds = {s1}
  Details = {d1}
  Calls = {c1}
  Refused = {}
  Replies <- MCReplies
  MaxSteps = 2
  MaxCalls = 1
  Deadline = 0
  ChatTime = 0
  CallTime = 0
  IdleTime = 0
INVARIANT FinalAlwaysComes
