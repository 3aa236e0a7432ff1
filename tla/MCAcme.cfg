SPECIFICATION FairSpec
CONSTANTS
  Configs <- MCAll
  HasCache = TRUE
  Lifetime = 3
  MaxNow = 5
  MaxCrashes = 1
  MaxCaFaults = 1
  MaxDiskFaults = 1
  None = None
  Torn = Torn
INVARIANTS
  ServedPairMatches
  LoopJudgesLive
  NothingLeftInstalled
  ChallengesAnswered
PROPERTIES
  EventuallyServes
  DueIsRenewed
CHECK_DEADLOCK FALSE
