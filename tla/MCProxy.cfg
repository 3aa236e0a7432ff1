SPECIFICATION Spec
CONSTANTS
  Lower <- MCLower
  NoRoute = NoRoute
  None = None
  Requests = {r1, r2}
  MaxHandshakes = 2
  Nonces = {1}
  Targets <- MCTargets
  Tables <- MCTables
  MaxBody = 100
  UsizeMax = 65535
  Lens <- MCLens
  Chunks <- MCChunks
  MaxSessions = 1
  MaxSwaps = 1
  MaxGiven = 160
INVARIANTS
  BareMeansNotForwarded
  ForwardedOncePerNonce
  RoutedByLiveTable
  CompleteMeansWhole
  CapIsOnPlaintext
  CountersBalance
PROPERTY ImplementsAttestedRequest
CHECK_DEADLOCK FALSE
