SPECIFICATION FairSpec
CONSTANTS
  c1 = c1
  c2 = c2
  NoRoute = NoRoute
  NoSnapshot = NoSnapshot
  NotOptedIn = NotOptedIn
  Absent = Absent
  NoBuffer = NoBuffer
  Lower <- MCLower
  Routes <- MCRoutes
  FileRoutes <- MCFileRoutes
  Containers <- MCContainers
  ContainerRoutes <- MCContainerRoutes
  ObjectRoutes <- MCObjectRoutes
  Enabled <- EnabledKubernetes
  Keys <- TwoKeys
  SocketKind = "unix"
  ChanCap = 1
  MaxChanges = 2
  MaxFaults = 1
INVARIANTS
  CommittedIsPastState
PROPERTIES
  ImplementsRouteFeed
  KubernetesConverges
CHECK_DEADLOCK FALSE
