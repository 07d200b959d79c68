SPECIFICATION Spec
CONSTANTS
  oc1 = oc1
  oc2 = oc2
  groupware = groupware
  none = none
  Writable = {oc1, oc2}
  Corpus = {groupware}
  NoShare = none
  MaxMounts = 2
  MaxCommands = 4
  MaxFaults = 1
INVARIANTS WorkspaceIsMounted
PROPERTIES RegistrationHasKey RequestDecided
CHECK_DEADLOCK FALSE
