SPECIFICATION Spec
CONSTANTS
  c1 = c1
  c2 = c2
  NoRoute = NoRoute
  NoSnapshot = NoSnapshot
  NotOptedIn = NotOptedIn
  Absent = Absent
  NoBuffer = NoBuffer
  Lower <- MCLower
  Routes <- MCRoutes
  FileRoutes <- MCFileRoutes
  Containers <- MCContainers
  ContainerRoutes <- MCContainerRoutes
  ObjectRoutes <- MCObjectRoutes
  Enabled <- EnabledBoth
  Keys <- OneKey
  SocketKind = "http"
  ChanCap = 2
  MaxChanges = 2
  MaxFaults = 0
PROPERTY ImplementsRouteFeed
