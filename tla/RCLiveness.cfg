\* Actions that may hang and clients that leave; STOP and a forced exit.
SPECIFICATION FairSpec
CONSTANTS
  Threads = {t1, t2}
  NoThread = NoThread
  g1 = g1
  g2 = g2
  x1 = x1
  x2 = x2
  x3 = x3
  Requests <- GoAndTwo
  NoRequest = NoRequest
  Ask <- StopAndForcedExit
  NumCues = 2
  Jumps <- FirstCue
  Actions = 1
  Mode = "SHOW"
  MayDisconnect = TRUE
  MayCrash = FALSE
PROPERTIES
  StoppingEnds
  AdvanceIsReleased
