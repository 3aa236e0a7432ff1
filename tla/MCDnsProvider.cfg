SPECIFICATION Spec
CONSTANTS
  Kinds <- MCKinds
  Domains <- MCDomains
  ZoneNames <- MCZoneNames
  MaxOrders = 2
  MaxFaults = 1
  MaxCrashes = 1
  MaxZoneChanges = 1
  None = None
INVARIANTS
  ReadyIsPublished
  NoOrphanRecords
CHECK_DEADLOCK FALSE
