SPECIFICATION Spec
CONSTANTS
  Episodes = {e1, e2}
  Workers = {w1, w2}
  Processable = {e1, e2}
  BatchSize = 2
  FetchLimit = 2
  MaxRetries = 1
  MaxPosts = 1
  MaxDeletes = 1
  MaxCrashes = 1
  MaxFaults = 1
  MaxTime = 0
INVARIANTS TypeOK NoDoubleClaim NothingStranded QueuedIsPending
PROPERTIES TerminalIsFinal IsWorkQueue
SYMMETRY Symmetry
CHECK_DEADLOCK FALSE
