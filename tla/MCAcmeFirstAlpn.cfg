SPECIFICATION Spec
CONSTANTS
  Configs <- MCAlpn
  HasCache = TRUE
  Lifetime = 3
  MaxNow = 3
  MaxCrashes = 0
  MaxCaFaults = 0
  MaxDiskFaults = 0
  None = None
  Torn = Torn
INVARIANT ValidationIsServed
CHECK_DEADLOCK FALSE
