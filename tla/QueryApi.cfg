SPECIFICATION FairTab
CONSTANTS
  Requests = {q, s1}
  Streams = {s1}
  MaxEvents = 1
  Limits = {1, 2}
  Offsets = {0, 1}
  MaxCrashes = 1
  None = None
INVARIANTS
  TypeOK
  CompleteMeansStored
  NothingTornListed
  HistoryComplete
  ClientSettles
  ScreenIsTrue
PROPERTIES
  TracesAreFinal
  EveryRequestEnds
  EveryViewEnds
