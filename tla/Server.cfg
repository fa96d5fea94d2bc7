SPECIFICATION Spec
CONSTANTS
  Subjects = {"keys", "regions", "conversations", "imports", "digests", "records", "clarifications", "policies", "adapters"}
  Requests = {r1, r2}
  MaxRequests = 3
  MaxOverlapping = 2
  MaxCommandFaults = 1
  MaxOverlappingFaults = 0
  KeyIds = {1, 2}
  Lifetimes = {0, 1}
  KeyCacheTtl = 2
  KeyCacheMax = 1
  MaxKeyClock = 3
  RegionIds = {g}
  RegionAgents = {"a", "b"}
  MaxRegionClock = 1
  People = {"ann"}
  SessionNames = {"s"}
  UserIds = {1, 2}
  SessionIds = {1, 2}
  EpisodeIds = {1, 2, 3}
  SummaryThreshold = 1
  ImportKeys = {"k"}
  JobIds = {1, 2}
  ImportPermits = 1
  MaxRows = 2
  Sleepers = {"ann"}
  MaxFacts = 2
  ViewNames = {1}
  GuardrailIds = {1, 2}
  GoalIds = {1, 2}
  Narrated = {1}
  RecordNames = {"m"}
  ClarIds = {"c1", "c2"}
  ClarFacts = {"f1", "f2"}
  PolicyUsers = {"ann"}
  MaxStrictness = 1
  MaxPolicyRestarts = 1
  AdapterUsers = {"ann"}
  MaxTraining = 3
  MaxRated = 2
  MaxAdapterRestarts = 1
INVARIANT ServerTypeOK KeysAreTrusted RegionsAreReached ConversationsHold ImportsAreHonest DigestsHold RecordsHold ClarificationsHold PoliciesHold AdaptersHold
CHECK_DEADLOCK FALSE
