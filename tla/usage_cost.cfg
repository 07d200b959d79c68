SPECIFICATION Spec
CONSTANTS
  a = a
  timer = timer
  manual = manual
  nobody = nobody
  Calls = {a}
  RateDays = {1, 2}
  Projectors = {timer, manual}
  NoProc = nobody
  Window = 1
  MaxCarry = 1
  LastDay = 2
  MaxFaults = 1
INVARIANTS ValuationReproducible
PROPERTIES EventuallyValued
CHECK_DEADLOCK FALSE
