\* Every service, one at a time: its commands, its failures and its restarts.
SPECIFICATION Spec
CONSTANTS
  c1 = c1
  c2 = c2
  c3 = c3
  e1 = e1
  e2 = e2
  u1 = u1
  u2 = u2
  l1 = l1
  l2 = l2
  l3 = l3
  l4 = l4
  l5 = l5
  l6 = l6
  NoCommand = NoCommand
  Nobody = Nobody
  Parts = {"laser", "firmware", "extension", "hub", "companion", "timecode", "frames",
           "install", "plan", "cue", "simulation", "vault",
           "revisions"}
  SharedPower = TRUE
  MaxSocket = 2
  MaxAttempts = 2
  MaxGen = 3
  MaxProcess = 2
  MaxApply = 2
  MaxPowerLoss = 2
  Window = 1
  MaxWire = 2
  Bindings <- ThreeBindings
  LastCue = 2
  Kinds = {"INTERNAL", "MTC"}
  Modes = {"SHOW", "REHEARSAL"}
  JumpTolerance = 1
  MaxFrame = 4
  MaxSeek = 1
  MaxGo = 1
  MaxRestart = 1
  Rates <- SixRates
  Instants <- NearMinutes
  Span = 9
  Packages = {"lib1", "lib2", "app1", "app2"}
  NoPackage = "none"
  Ext <- PackageExt
  Needs <- PackageNeeds
  Permits <- PackagePermits
  MaxInstall = 3
  Libraries <- SmallLibraries
  NoRange <- Nothing
  MaxPending = 1
  MaxFault = 1
  ShowCues <- ThreeCues
  CueOn <- OnOff
  RootCue = 1
  Linking <- TwoLinked
  Actions <- ActionsOf
  MaxErrors = 1
  MaxTrouble = 1
  Operators = {"o1", "o2"}
  Duties <- TwoDuties
  CueNames <- ThreeNames
  FirstCues <- TwoCues
  MaxPlace = 3
  MaxRevision = 2
  MaxEdit = 1
  MaxMishap = 1
  Callers = {c1, c2, c3}
  Executions = {e1, e2}
  Asks <- ThreeCalls
  Updates = {u1, u2}
  Target <- SameArtifact
  Factory = "v1"
  Flows = {"f1", "f2", "f3"}
  Crews <- SmallCrews
  Tickets = {"k1"}
  TicketOf <- OneTicket
  Clients = {"o1", "o2"}
  NumCues = 2
  Ranges <- SingleCues
  MaxSessions = 2
  MaxRequests = 4
INVARIANTS
  TypeOK
  CompletedIsInstalled
  DeliveredHasTransport
  ReadyHasProcess
  ResultIsTrue
  
  
  
  BindingLaunchesOnce
  FrameNumbersAreExact
  InstallationsAreWhole
  PlanIsSound
  CueEndsWhole
  SimulationIsContained
  
  
  EditHitsItsCue

  
\* The bounds end: every socket, process, update and call is used.
CHECK_DEADLOCK FALSE
