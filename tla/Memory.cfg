SPECIFICATION Spec
CONSTANTS
  Episodes = {e1, e2}
  Subject = kendra
  Objects = {nike, adidas}
  Nil = Nil
  Concurrency = 2
  MaxAttempts = 2
  MaxFaults = 1
  MaxIgnored = 1
  MaxDeletes = 1
  MaxRewrites = 1
  MaxDisturbances = 2
  Requests = {r1, r2}
  Agents = {a}
  Forks = {f}
  Branches = {b}
  CoreValues = {"c1"}
  MaxRequests = 3
  MaxOverlapping = 2
  MaxCommandFaults = 1
  MaxOverlappingFaults = 0
  MaxExperience = 1
  Proposals = {p}
  Approvers = {"k1", "k2"}
  Risks = {"high", "other"}
  Policies <- MCPolicies
  MaxClock = 2
INVARIANTS TypeOK FactsAreGrounded BeliefsAreTrue QuietGraphIsTrue ChainUnlessOverlapped HistoryIsTold PromotionsHold
PROPERTIES SupersededIsFinal
SYMMETRY Symmetry
CHECK_DEADLOCK FALSE
