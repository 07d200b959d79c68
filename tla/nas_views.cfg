SPECIFICATION Spec
CONSTANTS
  kw = kw
  groupware = groupware
  alice = alice
  bob = bob
  r1 = r1
  r2 = r2
  package = package
  c1 = c1
  none = none
  Keys = {kw, groupware}
  Users = {alice, bob}
  Rooms = {r1, r2}
  Slice <- MCSlice
  Package = package
  HasPackage = {kw}
  GrantedPaths = {groupware}
  SharedRequired = {groupware}
  PerSlotDelivery = {groupware}
  MasterPaths = {c1}
  NoPath = none
  NoRecord = none
  Procs = {p1}
  MaxCommands = 3
  MaxFaults = 2
INVARIANTS MountedIsManaged OneUsersSlice
PROPERTIES OkIsTrue PreflightHolds
CHECK_DEADLOCK FALSE
