SPECIFICATION FairSpec
CONSTANTS
  Procs = {p1, p2}
  MaxEvents = 2
  MaxRows = 1
  MaxAttempts = 2
  RateLimit = 1
  Threshold = 2
  MaxUpdates = 0
  MaxDeletes = 1
  MaxRetries = 0
  MaxBlocks = 0
  MaxFaults = 0
  MaxCrashes = 0
INVARIANTS TypeOK RowsAreTrue
PROPERTIES EventuallySettled
CHECK_DEADLOCK FALSE
