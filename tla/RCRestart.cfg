\* A Rehearsal: restarts, clients that leave, retries; GO, timecode, blackout, clear.
SPECIFICATION Spec
CONSTANTS
  Threads = {t1, t2}
  NoThread = NoThread
  g1 = g1
  g2 = g2
  x1 = x1
  x2 = x2
  x3 = x3
  Requests <- GoAndThree
  NoRequest = NoRequest
  Ask <- TimecodeAndBlackout
  NumCues = 1
  Jumps <- NoJumps
  Actions = 1
  Mode = "REHEARSAL"
  MayDisconnect = TRUE
  MayCrash = TRUE
SYMMETRY Interchangeable
INVARIANTS
  TypeOK
  OneExecutionPerRequest
