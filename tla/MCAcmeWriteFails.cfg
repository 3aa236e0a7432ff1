SPECIFICATION Spec
CONSTANTS
  Configs <- MCDns
  HasCache = TRUE
  Lifetime = 3
  MaxNow = 5
  MaxCrashes = 0
  MaxCaFaults = 0
  MaxDiskFaults = 1
  None = None
  Torn = Torn
INVARIANT ServedNotExpired
CHECK_DEADLOCK FALSE
