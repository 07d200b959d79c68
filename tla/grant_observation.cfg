SPECIFICATION Spec
CONSTANTS
  NumGrants = 2
  MaxChanges = 2
  MaxFaults = 1
  MaxRuns = 1
INVARIANTS CompleteIsSnapshot VerdictIsTrue
PROPERTIES StatusReports
CHECK_DEADLOCK FALSE
