SPECIFICATION Spec
CONSTANTS
  timer = timer
  manual = manual
  nobody = nobody
  Holder <- MCHolder
  Nulls <- MCNulls
  Succeeded = {1, 2}
  Surfaces <- MCSurfaces
  Collectors = {timer, manual}
  NoProc = nobody
  PageLimit = 1
  MaxPages = 2
  MaxCalls = 3
  MaxContainers = 2
  MaxFaults = 1
INVARIANTS NothingSkipped RowsTruthful
PROPERTIES EventuallyCollected
CHECK_DEADLOCK FALSE
