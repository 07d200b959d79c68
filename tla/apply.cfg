CONSTANTS
  i1 = i1
  i2 = i2
  None = None
  Image <- MCImages
  Legacy <- MCLegacy
  Damages <- MCDamages
  MaxBackups = 2
  MaxMarkers = 3
  MaxFaults = 2
SPECIFICATION FairSpec
INVARIANTS ServesInstalled
PROPERTIES ReceiptsTruthful ImplementsSlotRollout PendingRollbackCompletes
CHECK_DEADLOCK FALSE
