SPECIFICATION FairSpec
CONSTANTS
  MaxCounter = 2
  MaxFrames = 3
  Nothing = Nothing
INVARIANTS
  InboundIsAPrefix
  InboundCountersIncrease
  OutboundInOrder
PROPERTY ClosedEndsBridge
CHECK_DEADLOCK FALSE
