SPECIFICATION TabSpec
CONSTANTS
  Requests = {s1}
  Streams = {s1}
  MaxEvents = 1
  Limits = {1}
  Offsets = {0}
  None = None
  MaxCrashes = 0
INVARIANT EveryRunIsWritten
