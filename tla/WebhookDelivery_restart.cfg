SPECIFICATION FairSpec
CONSTANTS
  Procs = {p1}
  MaxEvents = 1
  MaxRows = 1
  MaxAttempts = 1
  RateLimit = 1
  Threshold = 2
  MaxUpdates = 0
  MaxDeletes = 0
  MaxRetries = 0
  MaxBlocks = 0
  MaxFaults = 0
  MaxCrashes = 1
PROPERTIES EventuallySettled
CHECK_DEADLOCK FALSE
