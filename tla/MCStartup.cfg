SPECIFICATION Spec
CONSTANTS
  Settings <- MCSettings
  MaxSettings = 3
  MaxFileEdits = 2
  Silent = Silent
  Malformed = Malformed
  None = None
INVARIANTS
  ServesAsBuilt
  TpmServesWithTrust
  TpmSectionIsWhole
  NoPlaintextFallback
  DumpNamesTheLayer
  HighestWins
CHECK_DEADLOCK FALSE
