SPECIFICATION Spec
CONSTANTS
  None = None
  ProductIds = {p1, p2}
  SupplierIds = {s1}
  Details = {d1}
  Replies <- MCReplies
  MaxFeeds = 2
INVARIANTS
  MatchesWalk
  BucketsExact
  SupplierRowBeatsStub
SYMMETRY Symmetry
CHECK_DEADLOCK FALSE
