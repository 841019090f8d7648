SPECIFICATION FairSpec
CONSTANTS
  MaxSessions = 3
  MaxTrades = 2
  CleanupFrequency = 1
  Requests <- SomeRequests
INVARIANTS
  ControlInv
  SubscribersReady
  FeedComplete
PROPERTIES
  ZombiesRemoved
  
