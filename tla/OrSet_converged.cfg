SPECIFICATION SetSpec
CONSTANTS
  Nodes = {n1, n2}
  Elements = {x}
  MaxAdds = 1
  MaxRemoves = 1
  MaxSetSent = 2
INVARIANTS SetsConverged
CHECK_DEADLOCK FALSE
