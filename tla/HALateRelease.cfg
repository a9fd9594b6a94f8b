\* Two Hubs; a release the caller gave up on still reaches the witness.
CONSTANTS
  hubA = hubA
  hubB = hubB
  loopA = loopA
  loopB = loopB
  Hubs <- TwoHubs
  NoHub = NoHub
  LeaseDuration = 2
  MaxEpoch = 2
  Loops <- OneLoop
  NoLoop = NoLoop
  MaxTime = 2
  WallTolerance = 0
  SuspendHubs = {}
  RollbackHubs = {}
  Skews <- AtRest
  SessionHubs = {}
  CrashHubs = {}
  CloseHubs = {}
  MaxLate = 1
  LateKinds <- Releases
SPECIFICATION Spec
INVARIANT AtMostOneLeader
