SPECIFICATION PageSpec
CONSTANTS
  PageKinds = {"filtered"}
  MaxPageId = 2
  MaxPageTime = 2
  PageLimits = {1}
  PageRing = 2
  MaxPageChanges = 0
PROPERTY ListingsEnd
CHECK_DEADLOCK FALSE
