\* A Hub that suspends; its wall clock only jumps ahead.
CONSTANTS
  hubA = hubA
  hubB = hubB
  loopA = loopA
  loopB = loopB
  Hubs <- OnlyA
  NoHub = NoHub
  LeaseDuration = 3
  MaxEpoch = 2
  Loops <- TwoLoops
  NoLoop = NoLoop
  MaxTime = 4
  WallTolerance = 1
  SuspendHubs <- OnlyA
  RollbackHubs = {}
  Skews <- Ahead
  SessionHubs = {}
  CrashHubs = {}
  CloseHubs = {}
  MaxLate = 0
  LateKinds = {}
SPECIFICATION Spec
INVARIANT LeaderHoldsLease
