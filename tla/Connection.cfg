SPECIFICATION FairSpec
CONSTANTS
  MaxRequests = 3
  Closers = {c1, c2}
CHECK_DEADLOCK FALSE
INVARIANTS SingleWriter WireFifo ClosedOnce NoStaleEntry
PROPERTIES QueuedIsSent Reclaimed
