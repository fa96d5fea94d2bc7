SPECIFICATION FairSpec
CONSTANTS
  Episodes = {e1, e2}
  Workers = {w1, w2}
  Processable = {e1, e2}
  BatchSize = 1
  FetchLimit = 2
  MaxRetries = 1
  MaxPosts = 1
  MaxDeletes = 0
  MaxCrashes = 0
  MaxFaults = 0
  MaxTime = 1
PROPERTIES EventuallyProcessed
CHECK_DEADLOCK FALSE
