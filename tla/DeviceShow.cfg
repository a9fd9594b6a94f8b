\* A show with one laser: it arms, flashes, is blacked out, moves to another
\* Runtime Snapshot, and loses its connection, its power or the Hub once.
SPECIFICATION Spec
CONSTANTS
  a = a
  f = f
  s = s
  Commands = {a, f, s}
  NoCommand = NoCommand
  TypeOf <- ShowCommands
  SharedPower = FALSE
  Snapshots = {s1, s2}
  NoSnapshot = NoSnapshot
  MaxGeneration = 2
  MaxEpoch = 3
  MayRestart = TRUE
SYMMETRY SnapshotSymmetry
INVARIANTS
  TypeOK
  TrackedIsTrue
  EmergencyIsDark
  ScopeIsAssigned
  AcceptedHasOwner
PROPERTIES
  CommitIsSafe
\* The bounds end: every command is sent and every socket is used.
CHECK_DEADLOCK FALSE
