CONSTANTS
  v1 = v1
  v2 = v2
  NoValue = NoValue
  None = None
  Absent = Absent
  Torn = Torn
  Value <- MCValue
  Accepted <- MCAccepted
  MaxFaults = 2
SPECIFICATION FairSpec
INVARIANTS SetReportsTruth NoHalfRotation
PROPERTIES RotationSettles
CHECK_DEADLOCK FALSE
