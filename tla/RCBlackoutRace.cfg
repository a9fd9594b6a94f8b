\* A GO that read the latch before an Emergency Blackout set it.
SPECIFICATION Spec
CONSTANTS
  Threads = {t1, t2}
  NoThread = NoThread
  g1 = g1
  g2 = g2
  x1 = x1
  x2 = x2
  x3 = x3
  Requests <- GoesAndOne
  NoRequest = NoRequest
  Ask <- Blackout
  NumCues = 1
  Jumps <- NoJumps
  Actions = 1
  Mode = "SHOW"
  MayDisconnect = FALSE
  MayCrash = FALSE
PROPERTIES
  NoAdmissionUnderBlackout
