SPECIFICATION Spec
CONSTANTS
  Episodes = {e1}
  Workers = {w1}
  Processable = {e1}
  BatchSize = 1
  FetchLimit = 1
  MaxRetries = 1
  MaxPosts = 1
  MaxDeletes = 0
  MaxCrashes = 0
  MaxFaults = 0
  MaxTime = 1
PROPERTIES BackoffRespected
CHECK_DEADLOCK FALSE
