\* One Hub, two renewal goroutines, Sessions, shutdown and crash, fair scheduling.
CONSTANTS
  hubA = hubA
  hubB = hubB
  loopA = loopA
  loopB = loopB
  Hubs <- OnlyA
  NoHub = NoHub
  LeaseDuration = 1
  MaxEpoch = 2
  Loops <- TwoLoops
  NoLoop = NoLoop
  MaxTime = 2
  WallTolerance = 0
  SuspendHubs = {}
  RollbackHubs = {}
  Skews <- AtRest
  SessionHubs <- OnlyA
  CrashHubs <- OnlyA
  CloseHubs <- OnlyA
  MaxLate = 0
  LateKinds = {}
SPECIFICATION FairSpec
INVARIANT LeaderHasRenewal
PROPERTIES
  PromotionIsExplicit
  
