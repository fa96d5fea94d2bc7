SPECIFICATION Spec
CONSTANTS
  Procs = {p1}
  MaxEvents = 2
  MaxRows = 2
  MaxAttempts = 2
  RateLimit = 2
  Threshold = 2
  MaxUpdates = 1
  MaxDeletes = 1
  MaxRetries = 1
  MaxBlocks = 1
  MaxFaults = 1
  MaxCrashes = 1
INVARIANT RequestsAreKept
CHECK_DEADLOCK FALSE
