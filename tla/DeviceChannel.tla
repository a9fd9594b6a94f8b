---------------------------- MODULE DeviceChannel ----------------------------
(***************************************************************************)
(* The Stage Device channel of the Hub (internal/devicechannel) with one   *)
(* protocol-v2 device behind it, a StageLaser: sockets and their           *)
(* generations, the scope a socket is trusted with, the commands of Cues,  *)
(* of the Emergency Blackout and of the operator, and the assignment of    *)
(* the laser to a Runtime Snapshot.                                        *)
(*                                                                         *)
(* A step is one critical section of Runtime.mu, one database statement,   *)
(* one message sent, or one thing that the device does.  A socket is named *)
(* by its connection generation.  A row of stage_device_commands stands    *)
(* for the goroutine that dispatches it too.                               *)
(***************************************************************************)
EXTENDS StageLaser, Sequences

CONSTANTS
  Snapshots,     \* published Runtime Snapshots that hold the laser as a target
  NoSnapshot,    \* of an UNASSIGNED device
  MaxGeneration, \* bound: the sockets the device opens
  MaxEpoch,      \* bound: the assignment epochs
  MayRestart     \* bound: whether the Hub may be killed and started again

Sockets == 1..MaxGeneration
NoSocket == 0

\* A Cue reaches the device through the forwarder, which waits for the end.
CueTypes == CommandTypes \ {"SAFE_OFF", "STATE_READ", "STATE_RESYNC"}

ASSUME DeviceChannelAssumption ==
  /\ MaxGeneration \in Nat /\ MaxEpoch \in Nat \ {0}
  /\ NoSnapshot \notin Snapshots
  /\ MayRestart \in BOOLEAN

VARIABLES
  \* The Hub's database.
  generation,  \* the last v2 connection generation
  assignment,  \* stage_device_assignments: epoch and snapshot of the device
  row,         \* stage_device_commands: status and snapshot
  \* Runtime, under mu.
  current,     \* connections
  scope,       \* what a socket is enabled for, Nothing when it is not
  bound,       \* inflight: the socket whose result ends a command
  assigner,    \* assignmentTransitions and pendingStageLaserAssignments
  \* Goroutines and wires.
  open,        \* the sockets that the Hub has not closed
  handler,     \* serveConnection of every socket
  replaced,    \* the socket that the one registered here has displaced
  cut,         \* unregister: the commands that a socket leaves behind
  dispatch,    \* Dispatch and what waits for it: step and socket
  down, up,    \* what was sent to the device, and by it, and not read yet
  link         \* the socket the device has, NoSocket when it has none

hubVars ==
  <<generation, assignment, row, current, scope, bound, assigner,
    open, handler, replaced, cut, dispatch>>
vars == <<hubVars, laserVars, down, up, link>>

Nothing == [epoch |-> 0, snapshot |-> NoSnapshot]
Unassigned == [epoch |-> 1, snapshot |-> NoSnapshot]
Scopes == [epoch : 0..MaxEpoch, snapshot : Snapshots \cup {NoSnapshot}]

\* REJECTED and CANCELLED are as FAILED.
Statuses == {"none", "ACCEPTED", "COMPLETED", "FAILED"}

Ended(result) == IF result = "COMPLETED" THEN "COMPLETED" ELSE "FAILED"

Message(kind, about) == [kind |-> kind, about |-> about]

\* Bound: nothing fails once the device cannot come back.
MayFail == generation < MaxGeneration

Idle == [step |-> "idle", socket |-> NoSocket, target |-> NoSnapshot]

\* A message to a device that has left the socket is never read, and neither is
\* a message to a Hub that has closed it.
ToDevice(g, message) ==
  down' = IF g = link THEN [down EXCEPT ![g] = Append(@, message)] ELSE down

ToHub(message) ==
  up' = IF link \in open THEN [up EXCEPT ![link] = Append(@, message)] ELSE up

Outstanding == {c \in Commands : row[c].status = "ACCEPTED"}

Init ==
  /\ LaserInit
  /\ generation = 0
  /\ assignment \in {Unassigned} \cup [epoch : {2} \cap 0..MaxEpoch, snapshot : Snapshots]
  /\ row = [c \in Commands |-> [status |-> "none", snapshot |-> NoSnapshot]]
  /\ current = NoSocket
  /\ scope = [g \in Sockets |-> Nothing]
  /\ bound = [c \in Commands |-> NoSocket]
  /\ assigner = Idle
  /\ open = {}
  /\ handler = [g \in Sockets |-> "none"]
  /\ replaced = [g \in Sockets |-> NoSocket]
  /\ cut = [g \in Sockets |-> {}]
  /\ dispatch = [c \in Commands |-> [step |-> "idle", socket |-> NoSocket]]
  /\ down = [g \in Sockets |-> <<>>]
  /\ up = [g \in Sockets |-> <<>>]
  /\ link = NoSocket

-----------------------------------------------------------------------------
\* Commands.

\* The first terminal status of a command is its last.
Complete(cs, status) ==
  row' = [c \in Commands |-> IF c \in cs \cap Outstanding
                             THEN [row[c] EXCEPT !.status = status] ELSE row[c]]

Step(c, step, g) == dispatch' = [dispatch EXCEPT ![c] = [step |-> step, socket |-> g]]

\* An operator's resync asks for the scope before it asks for the command.
MayAsk(c) ==
  TypeOf[c] = "STATE_RESYNC" =>
    /\ current \in open
    /\ scope[current] = assignment

CreateCommand(c) ==
  /\ dispatch[c].step = "idle"
  /\ assignment.snapshot # NoSnapshot
  /\ MayAsk(c)
  /\ row' = [row EXCEPT ![c] = [status |-> "ACCEPTED", snapshot |-> assignment.snapshot]]
  /\ Step(c, "created", NoSocket)
  /\ UNCHANGED <<generation, assignment, current, scope, bound, assigner, open,
                 handler, replaced, cut, laserVars, down, up, link>>

\* Faulty variant: a transition of the assignment does not keep commands back.
TrustedDuringAssignment(g, c) ==
  /\ g # NoSocket
  /\ scope[g] # Nothing
  /\ scope[g].snapshot = row[c].snapshot

\* Whether a socket may be given a command: CommandsEnabled for its snapshot.
Trusted(g, c) ==
  /\ g # NoSocket
  /\ assigner = Idle
  /\ scope[g] # Nothing
  /\ scope[g].snapshot = row[c].snapshot

Bind(c) ==
  /\ dispatch[c].step = "created"
  /\ IF Trusted(current, c)
     THEN bound' = [bound EXCEPT ![c] = current] /\ Step(c, "send", current)
     ELSE UNCHANGED bound /\ Step(c, "fail", NoSocket)
  /\ UNCHANGED <<generation, assignment, row, current, scope, assigner, open,
                 handler, replaced, cut, laserVars, down, up, link>>

Unbind(c, g) ==
  bound' = IF bound[c] = g THEN [bound EXCEPT ![c] = NoSocket] ELSE bound

Send(c) ==
  LET g == dispatch[c].socket
  IN  /\ dispatch[c].step = "send"
      /\ \/ /\ g \in open
            /\ ToDevice(g, Message("execute", c))
            /\ Step(c, "wait", NoSocket)
            /\ UNCHANGED <<bound, open>>
         \/ /\ g \notin open \/ g # link
            /\ Unbind(c, g)
            /\ open' = open \ {g}
            /\ Step(c, "fail", NoSocket)
            /\ UNCHANGED down
      /\ UNCHANGED <<generation, assignment, row, current, scope, assigner,
                     handler, replaced, cut, laserVars, up, link>>

\* failCommand writes with the context of the request: when the Cue has been
\* stopped or the client is gone by now, nothing is written.
FailCommand(c) ==
  /\ dispatch[c].step = "fail"
  /\ \/ Complete({c}, "FAILED") /\ Step(c, "done", NoSocket)
     \/ TypeOf[c] # "SAFE_OFF" /\ UNCHANGED row /\ Step(c, "lost", NoSocket)
  /\ UNCHANGED <<generation, assignment, current, scope, bound, assigner, open,
                 handler, replaced, cut, laserVars, down, up, link>>

\* A Cue that is stopped, or whose deadline passes, ends the command in its
\* row.  The device is not told.
InterruptCommand(c) ==
  /\ TypeOf[c] \in CueTypes
  /\ dispatch[c].step = "wait"
  /\ c \in Outstanding
  /\ Complete({c}, "FAILED")
  /\ Step(c, "done", NoSocket)
  /\ UNCHANGED <<generation, assignment, current, scope, bound, assigner, open,
                 handler, replaced, cut, laserVars, down, up, link>>

-----------------------------------------------------------------------------
\* Sockets.

Become(g, step) == handler' = [handler EXCEPT ![g] = step]

\* The device says hello on a new socket, and Runtime.register makes it the
\* current one.
Register ==
  LET g == generation + 1
  IN  /\ g \in Sockets
      /\ link = NoSocket
      /\ generation' = g
      /\ current' = g
      /\ open' = open \cup {g}
      /\ replaced' = [replaced EXCEPT ![g] = current]
      /\ Become(g, "registered")
      /\ link' = g
      /\ UNCHANGED <<assignment, row, scope, bound, assigner, cut, dispatch,
                     laserVars, down, up>>

Displace(g) ==
  /\ handler[g] = "registered"
  /\ open' = open \ {replaced[g]}
  /\ replaced' = [replaced EXCEPT ![g] = NoSocket]
  /\ Become(g, "displaced")
  /\ UNCHANGED <<generation, assignment, row, current, scope, bound, assigner,
                 cut, dispatch, laserVars, down, up, link>>

\* observeCurrentDevice, then assignment.state.
Announce(g) ==
  /\ handler[g] = "displaced"
  /\ IF current = g /\ g \in open
     THEN /\ Become(g, "serving")
          /\ IF assignment.snapshot = NoSnapshot THEN UNCHANGED down
             ELSE ToDevice(g, Message("scope", assignment))
     ELSE Become(g, "leaving") /\ UNCHANGED down
  /\ UNCHANGED <<generation, assignment, row, current, scope, bound, assigner,
                 open, replaced, cut, dispatch, laserVars, up, link>>

\* The first message that the handler of a socket has not read.
Arrived(g, kind) ==
  /\ handler[g] = "serving"
  /\ g \in open
  /\ up[g] # <<>>
  /\ Head(up[g]).kind = kind

Consume(g) == up' = [up EXCEPT ![g] = Tail(@)]

\* activateStageLaserScope compares the acknowledged scope with the database,
\* then takes mu.
ReadScopeAck(g) ==
  /\ Arrived(g, "scope")
  /\ Become(g, IF Head(up[g]).about = assignment THEN "activating" ELSE "leaving")
  /\ UNCHANGED <<generation, assignment, row, current, scope, bound, assigner,
                 open, replaced, cut, dispatch, laserVars, down, up, link>>

ActivateScope(g) ==
  /\ handler[g] = "activating"
  /\ Consume(g)
  /\ IF current = g /\ assigner = Idle /\ g \in open
     THEN scope' = [scope EXCEPT ![g] = Head(up[g]).about] /\ Become(g, "serving")
     ELSE UNCHANGED scope /\ Become(g, "leaving")
  /\ UNCHANGED <<generation, assignment, row, current, bound, assigner, open,
                 replaced, cut, dispatch, laserVars, down, link>>

DeliverSafeAck(g) ==
  /\ Arrived(g, "safe")
  /\ Consume(g)
  /\ IF assigner.step = "waiting" /\ assigner.socket = g
     THEN assigner' = [assigner EXCEPT !.step = "answered"] /\ UNCHANGED handler
     ELSE UNCHANGED assigner /\ Become(g, "leaving")
  /\ UNCHANGED <<generation, assignment, row, current, scope, bound, open,
                 replaced, cut, dispatch, laserVars, down, link>>

\* Faulty variant: the first result of a command ends it, whatever it says.
ReadAnyResult(g) ==
  LET c == Head(up[g]).about.command
      ends == bound[c] = g
  IN  /\ Arrived(g, "result")
      /\ Consume(g)
      /\ IF current = g /\ scope[g] # Nothing
         THEN /\ Complete(IF ends THEN {c} ELSE {}, "COMPLETED")
              /\ bound' = IF ends THEN [bound EXCEPT ![c] = NoSocket] ELSE bound
              /\ UNCHANGED handler
         ELSE Become(g, "leaving") /\ UNCHANGED <<row, bound>>
      /\ UNCHANGED <<generation, assignment, current, scope, assigner, open,
                     replaced, cut, dispatch, laserVars, down, link>>

\* command.result counts from the current enabled socket alone, for a command
\* that is bound to it, and when it is terminal.
ReadResult(g) ==
  LET c == Head(up[g]).about.command
      status == Head(up[g]).about.status
      ends == bound[c] = g /\ status # "ACCEPTED"
  IN  /\ Arrived(g, "result")
      /\ Consume(g)
      /\ IF current = g /\ scope[g] # Nothing
         THEN /\ Complete(IF ends THEN {c} ELSE {}, Ended(status))
              /\ bound' = IF ends THEN [bound EXCEPT ![c] = NoSocket] ELSE bound
              /\ UNCHANGED handler
         ELSE Become(g, "leaving") /\ UNCHANGED <<row, bound>>
      /\ UNCHANGED <<generation, assignment, current, scope, assigner, open,
                     replaced, cut, dispatch, laserVars, down, link>>

\* The monitor of a socket, when the credential is revoked or nothing is heard.
CloseSocket(g) ==
  /\ MayFail
  /\ handler[g] = "serving"
  /\ g \in open
  /\ open' = open \ {g}
  /\ UNCHANGED <<generation, assignment, row, current, scope, bound, assigner,
                 handler, replaced, cut, dispatch, laserVars, down, up, link>>

\* Receive fails: the Hub has closed the socket, or the device has and
\* everything it had sent is read.
Leave(g) ==
  /\ handler[g] = "serving"
  /\ g \notin open \/ (link # g /\ up[g] = <<>>)
  /\ Become(g, "leaving")
  /\ UNCHANGED <<generation, assignment, row, current, scope, bound, assigner,
                 open, replaced, cut, dispatch, laserVars, down, up, link>>

\* Faulty variant: what is bound to the socket is let go, not ended.
UnregisterForgets(g) ==
  /\ handler[g] = "leaving"
  /\ current' = IF current = g THEN NoSocket ELSE current
  /\ bound' = [c \in Commands |-> IF bound[c] = g THEN NoSocket ELSE bound[c]]
  /\ open' = open \ {g}
  /\ scope' = [scope EXCEPT ![g] = Nothing]
  /\ up' = [up EXCEPT ![g] = <<>>]
  /\ Become(g, "unregistered")
  /\ UNCHANGED <<generation, assignment, row, assigner, replaced, cut, dispatch,
                 laserVars, down, link>>

Unregister(g) ==
  /\ handler[g] = "leaving"
  /\ current' = IF current = g THEN NoSocket ELSE current
  /\ cut' = [cut EXCEPT ![g] = {c \in Commands : bound[c] = g}]
  /\ bound' = [c \in Commands |-> IF bound[c] = g THEN NoSocket ELSE bound[c]]
  /\ open' = open \ {g}
  /\ scope' = [scope EXCEPT ![g] = Nothing]
  /\ up' = [up EXCEPT ![g] = <<>>]
  /\ Become(g, "unregistered")
  /\ UNCHANGED <<generation, assignment, row, assigner, replaced, dispatch,
                 laserVars, down, link>>

FailInterrupted(g) ==
  /\ handler[g] = "unregistered"
  /\ Complete(cut[g], "FAILED")
  /\ cut' = [cut EXCEPT ![g] = {}]
  /\ Become(g, "ended")
  /\ UNCHANGED <<generation, assignment, current, scope, bound, assigner, open,
                 replaced, dispatch, laserVars, down, up, link>>

-----------------------------------------------------------------------------
\* The assignment of the laser to a Runtime Snapshot.  Only one can be under
\* way, and it holds its epoch: nothing else moves a laser's assignment.

\* PreflightStageLaserAssignment, the current socket, and the reservation.
BeginAssignment(target) ==
  /\ assigner = Idle
  /\ current \in open
  /\ Outstanding = {}
  /\ target # assignment.snapshot
  /\ assignment.epoch < MaxEpoch
  /\ assigner' = [step |-> "reserved", socket |-> current, target |-> target]
  /\ UNCHANGED <<generation, assignment, row, current, scope, bound, open,
                 handler, replaced, cut, dispatch, laserVars, down, up, link>>

\* The second preflight, which sees every command that was created before the
\* reservation, the operator's authority, and the prepare message.
SendPrepare ==
  LET g == assigner.socket
  IN  /\ assigner.step = "reserved"
      /\ \/ /\ Outstanding = {} /\ g \in open
            /\ assigner' = [assigner EXCEPT !.step = "waiting"]
            /\ ToDevice(g, Message("prepare", assignment))
            /\ UNCHANGED open
         \/ /\ assigner' = Idle
            /\ open' \in {open, open \ {g}}
            /\ UNCHANGED down
      /\ UNCHANGED <<generation, assignment, row, current, scope, bound,
                     handler, replaced, cut, dispatch, laserVars, up, link>>

\* No answer in time, or the socket is closed.
AbandonAssignment ==
  /\ assigner.step \in {"waiting", "answered"}
  /\ open' = open \ {assigner.socket}
  /\ assigner' = Idle
  /\ UNCHANGED <<generation, assignment, row, current, scope, bound, handler,
                 replaced, cut, dispatch, laserVars, down, up, link>>

\* Faulty variant: the socket of the old epoch stays.
CommitKeepsSocket ==
  /\ assigner.step = "answered"
  /\ assigner' = Idle
  /\ IF current = assigner.socket /\ current \in open /\ Outstanding = {}
     THEN assignment' = [epoch |-> assignment.epoch + 1, snapshot |-> assigner.target]
     ELSE UNCHANGED assignment
  /\ UNCHANGED <<generation, row, current, scope, bound, open, handler, replaced,
                 cut, dispatch, laserVars, down, up, link>>

\* CommitStageLaserSafeAssignment, under mu and in one transaction.
CommitAssignment ==
  LET g == assigner.socket
      same == current = g /\ g \in open
  IN  /\ assigner.step = "answered"
      /\ assigner' = Idle
      /\ IF same /\ Outstanding = {}
         THEN /\ assignment' = [epoch |-> assignment.epoch + 1, snapshot |-> assigner.target]
              /\ open' = open \ {g}
         ELSE UNCHANGED <<assignment, open>>
      /\ UNCHANGED <<generation, row, current, scope, bound, handler, replaced,
                     cut, dispatch, laserVars, down, up, link>>

-----------------------------------------------------------------------------
\* The device.  What the firmware does with a message is the contract of the
\* wire; what the relay does is the machine's.

\* What the Hub accepts as an acknowledgement: DISARMED and OFF, known, idle.
Safe == arm = "DISARMED" /\ logical = "OFF" /\ ~Pulsing

Reading(kind) ==
  /\ link # NoSocket
  /\ down[link] # <<>>
  /\ Head(down[link]).kind = kind

ReadOn == down' = [down EXCEPT ![link] = Tail(@)]

\* Both handshakes demand a safe output of the device before its answer.
MakeSafe ==
  /\ Reading("scope") \/ Reading("prepare")
  /\ ~Safe /\ ~Pulsing
  /\ arm' = "DISARMED"
  /\ TurnOff(NoCommand)
  /\ UNCHANGED <<hubVars, output, down, up, link>>

AckScope ==
  /\ Reading("scope") /\ Safe
  /\ ToHub(Message("scope", Head(down[link]).about))
  /\ ReadOn
  /\ UNCHANGED <<hubVars, laserVars, link>>

AckSafe ==
  /\ Reading("prepare") /\ Safe
  /\ ToHub(Message("safe", Head(down[link]).about))
  /\ ReadOn
  /\ UNCHANGED <<hubVars, laserVars, link>>

ExecuteCommand ==
  /\ Reading("execute")
  /\ LET c == Head(down[link]).about
     IN  /\ Execute(c)
         /\ ToHub(Message("result", [command |-> c, status |-> journal'[c]]))
  /\ ReadOn
  /\ UNCHANGED <<hubVars, link>>

\* The end of a pulse is reported for the command that began it.
ReleaseRelay ==
  /\ CompletePulse
  /\ IF pulse.command # NoCommand /\ link # NoSocket
     THEN ToHub(Message("result", [command |-> pulse.command, status |-> "COMPLETED"]))
     ELSE UNCHANGED up
  /\ UNCHANGED <<hubVars, down, link>>

FlashTimer ==
  /\ AdvanceFlashPhase \/ ExpireFlash
  /\ UNCHANGED <<hubVars, down, up, link>>

Unlink ==
  /\ link' = NoSocket
  /\ down' = [g \in Sockets |-> <<>>]

LoseLink ==
  /\ MayFail
  /\ link # NoSocket
  /\ Unlink
  /\ UNCHANGED <<hubVars, laserVars, up>>

RestartDevice ==
  /\ MayFail
  /\ \E reset \in ResetClasses : RestoreMachine(reset)
  /\ Unlink
  /\ UNCHANGED <<hubVars, up>>

-----------------------------------------------------------------------------

\* The Hub dies and starts again.  Nothing in its startup looks at the rows of
\* stage_device_commands.
RestartHub ==
  /\ MayRestart /\ MayFail
  /\ current' = NoSocket
  /\ scope' = [g \in Sockets |-> Nothing]
  /\ bound' = [c \in Commands |-> NoSocket]
  /\ assigner' = Idle
  /\ open' = {}
  /\ handler' = [g \in Sockets |-> IF handler[g] = "none" THEN "none" ELSE "ended"]
  /\ cut' = [g \in Sockets |-> {}]
  /\ dispatch' = [c \in Commands |->
       IF dispatch[c].step \in {"idle", "done"} THEN dispatch[c]
       ELSE [step |-> "lost", socket |-> NoSocket]]
  /\ up' = [g \in Sockets |-> <<>>]
  /\ UNCHANGED <<generation, assignment, row, replaced, laserVars, down, link>>

Dispatching(c) == Bind(c) \/ Send(c) \/ FailCommand(c)

Serving(g) ==
  \/ Displace(g) \/ Announce(g)
  \/ ReadScopeAck(g) \/ ActivateScope(g) \/ DeliverSafeAck(g) \/ ReadResult(g)
  \/ Leave(g) \/ Unregister(g) \/ FailInterrupted(g)

Assigning == SendPrepare \/ AbandonAssignment \/ CommitAssignment

Device == MakeSafe \/ AckScope \/ AckSafe \/ ExecuteCommand

Next ==
  \/ \E c \in Commands : CreateCommand(c) \/ Dispatching(c) \/ InterruptCommand(c)
  \/ Register
  \/ \E g \in Sockets : Serving(g) \/ CloseSocket(g)
  \/ \E target \in Snapshots : BeginAssignment(target)
  \/ Assigning
  \/ Device \/ ReleaseRelay \/ FlashTimer \/ LoseLink \/ RestartDevice
  \/ RestartHub

Spec == Init /\ [][Next]_vars

-----------------------------------------------------------------------------

Steps == {"idle", "created", "send", "fail", "wait", "done", "lost"}
HandlerSteps ==
  {"none", "registered", "displaced", "serving", "activating", "leaving",
   "unregistered", "ended"}

TypeOK ==
  /\ LaserTypeOK
  /\ generation \in 0..MaxGeneration
  /\ assignment \in Scopes
  /\ row \in [Commands -> [status : Statuses, snapshot : Snapshots \cup {NoSnapshot}]]
  /\ current \in Sockets \cup {NoSocket}
  /\ scope \in [Sockets -> Scopes]
  /\ bound \in [Commands -> Sockets \cup {NoSocket}]
  /\ assigner \in [step : {"idle", "reserved", "waiting", "answered"},
                   socket : Sockets \cup {NoSocket}, target : Snapshots \cup {NoSnapshot}]
  /\ open \subseteq Sockets
  /\ handler \in [Sockets -> HandlerSteps]
  /\ replaced \in [Sockets -> Sockets \cup {NoSocket}]
  /\ cut \in [Sockets -> SUBSET Commands]
  /\ dispatch \in [Commands -> [step : Steps, socket : Sockets \cup {NoSocket}]]
  /\ DOMAIN down = Sockets /\ DOMAIN up = Sockets
  /\ link \in Sockets \cup {NoSocket}

ToExecute == {i \in 1..Len(down[link]) : down[link][i].kind = "execute"}

(* A blackout whose SAFE_OFF the Hub has on record as COMPLETED left the    *)
(* laser dark, and it stays dark until somebody arms it again: through an   *)
(* acknowledgement that is no completion, the loss of the result, a new     *)
(* socket and restarts of either side (Runtime.serveConnection,             *)
(* setStageLaserSafeOff, Machine.disarm).                                   *)
EmergencyIsDark ==
  \A c \in Commands :
    TypeOf[c] = "SAFE_OFF" /\ row[c].status = "COMPLETED" /\ emergency[c] # "rearmed"
      => output = "OFF" /\ ~Pulsing

(* A laser changes its Runtime Snapshot only while it is dark and disarmed  *)
(* and no command of the old one can still reach it, whatever was cancelled *)
(* or cut off on the way (ExecuteStageLaserAssignmentAuthorized,            *)
(* CommitStageLaserSafeAssignment).                                         *)
CommitIsSafe ==
  [][assignment' # assignment =>
       /\ output = "OFF" /\ arm = "DISARMED" /\ ~Pulsing
       /\ link # NoSocket => ToExecute = {}]_vars

(* A socket that may still carry commands is enabled for the assignment of  *)
(* now and no earlier one, and so is every command that the device has not  *)
(* read yet (activateStageLaserScope, Dispatch, CommitAssignment).          *)
ScopeIsAssigned ==
  /\ current \in open => scope[current] \in {Nothing, assignment}
  /\ link # NoSocket =>
       \A i \in ToExecute : row[down[link][i].about].snapshot = assignment.snapshot

(* Somebody is left to end every ACCEPTED command: the goroutine that       *)
(* dispatches it, the socket it is bound to, or the one that was cut off    *)
(* with it (Dispatch, unregister).  The exceptions are commands that were   *)
(* under way when the Hub died, or whose request ended before its failure   *)
(* was written.                                                             *)
AcceptedHasOwner ==
  \A c \in Outstanding :
    \/ dispatch[c].step \in {"created", "send", "fail", "lost"}
    \/ bound[c] # NoSocket /\ handler[bound[c]] \notin {"none", "unregistered", "ended"}
    \/ \E g \in Sockets : c \in cut[g] /\ handler[g] = "unregistered"

=============================================================================
