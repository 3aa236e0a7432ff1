SPECIFICATION FairSpec
CONSTANTS
  c1 = c1
  c2 = c2
  NoRoute = NoRoute
  NoSnapshot = NoSnapshot
  NotOptedIn = NotOptedIn
  Absent = Absent
  NoBuffer = NoBuffer
  Lower <- MCLower
  Routes <- MCRoutes
  FileRoutes <- MCFileRoutes
  Containers <- MCContainers
  ContainerRoutes <- MCContainerRoutes
  ObjectRoutes <- MCObjectRoutes
  Enabled <- EnabledDocker
  Keys <- OneKey
  SocketKind = "unix"
  ChanCap = 2
  MaxChanges = 3
  MaxFaults = 2
INVARIANTS
  TypeOK
  NoLostUpdate
  TableIsTruthful
PROPERTY DockerConverges
