SPECIFICATION Spec
CONSTANTS
  Nodes <- MCNodes
  Rank <- MCRank
  MaxWall = 1
  MaxCounter = 1
  MaxOps = 3
  MaxAmount = 1
  MaxCounterSent = 2
  Keys = {k1}
  Values = {v1}
  Removed = Removed
  MaxStamp = 3
  MaxMapSent = 2
  Elements = {x}
  MaxAdds = 2
  MaxRemoves = 1
  MaxSetSent = 2
  ItemKeys <- MCItemKeys
  Contents = {"c1", "c2"}
  AllKeys <- MCAllKeys
  MaxSiblings = 2
  MaxEntities = 4
  Depths = {2, 3}
  Limits = {2, 4}
  MaxRounds = 2
  MaxGraphChanges = 1
  PageKinds = {"list", "all", "filtered", "agents", "replay"}
  MaxPageId = 3
  MaxPageTime = 3
  PageLimits = {1, 2}
  PageRing = 2
  MaxPageChanges = 1
  Statements = {s1, s2}
  MaxTime = 3
  RetentionTicks = 1
INVARIANTS TypeOK CausalOrder CountersAreExact LastWriterWins MapsConverged AddsSurvive TreesTell TraversalsAreExact PagesReachAll TimelineHolds
PROPERTIES ClocksIncrease
CHECK_DEADLOCK FALSE
