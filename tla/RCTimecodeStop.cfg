\* A Show exit while a timecode binding runs its Cue.
SPECIFICATION Spec
CONSTANTS
  Threads = {t1, t2}
  NoThread = NoThread
  g1 = g1
  g2 = g2
  x1 = x1
  x2 = x2
  x3 = x3
  Requests <- GoesAndTwo
  NoRequest = NoRequest
  Ask <- TimecodeAndExit
  NumCues = 2
  Jumps <- NoJumps
  Actions = 1
  Mode = "SHOW"
  MayDisconnect = FALSE
  MayCrash = FALSE
INVARIANTS
  StopReachesEveryCue
