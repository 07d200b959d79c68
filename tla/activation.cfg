CONSTANTS
  c1 = c1
  c2 = c2
  NoCommit = NoCommit
  Commits <- MCCommits
  Common <- MCCommon
  MaxReleases = 3
  MaxFaults = 3
SPECIFICATION FairSpec
INVARIANTS InstalledAsOne RecoveryPossible
PROPERTIES ImplementsAtomicActivation FrontierCleared
