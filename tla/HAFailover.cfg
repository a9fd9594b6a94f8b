\* Two Hubs, steady clocks, crashes, shutdowns, lost and late messages.
CONSTANTS
  hubA = hubA
  hubB = hubB
  loopA = loopA
  loopB = loopB
  Hubs <- TwoHubs
  NoHub = NoHub
  LeaseDuration = 2
  MaxEpoch = 2
  Loops <- OneLoop
  NoLoop = NoLoop
  MaxTime = 3
  WallTolerance = 0
  SuspendHubs = {}
  RollbackHubs = {}
  Skews <- AtRest
  SessionHubs = {}
  CrashHubs <- OnlyA
  CloseHubs = {}
  MaxLate = 1
  LateKinds <- NotReleases
SPECIFICATION Spec
INVARIANTS
  TypeOK
  AtMostOneLeader
  LeaderHasHighestEpoch
PROPERTY ImplementsFencedAuthority
