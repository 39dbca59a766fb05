SPECIFICATION Spec
CONSTANTS
  None = None
  i1 = i1
  i2 = i2
  Tools <- MCTools
  Listings <- MCListings
  Allowlists <- MCAllowlists
  Replies <- MCReplies
INVARIANTS
  OnlyReadsAreSent
  SqlToolExecutes
  RepliesMatchCalls
CHECK_DEADLOCK FALSE
