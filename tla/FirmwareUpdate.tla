--------------------------- MODULE FirmwareUpdate ---------------------------
(***************************************************************************)
(* Firmware maintenance of one Stage Device over the air                   *)
(* (internal/deviceupdate/lifecycle.go, devicechannel/firmware_maintenance *)
(* .go, httpapi/operator_stage_device_firmware.go): a manifest is issued,  *)
(* sent on one exact socket, followed by the device's own reports, and     *)
(* judged by the version that the device has when it is back.              *)
(*                                                                         *)
(* A socket is named by its connection generation.  A step is one database *)
(* statement, one critical section of Runtime.mu, one message, or one      *)
(* thing that the device does.                                             *)
(***************************************************************************)
EXTENDS Integers, Sequences, FiniteSets

CONSTANTS
  Updates,     \* update ids
  Target,      \* the version that the artifact of every update holds
  Factory,     \* the version that the device has at first
  MaxSocket    \* bound: the sockets that the device opens

VARIABLES
  record,      \* stage_device_firmware_updates: state, socket and from-version
  expired,     \* the manifests whose expiry has passed
  known,       \* client_version in the device's row
  newest,      \* the last connection generation
  connection,  \* connections: the device's current socket
  shut,        \* the sockets that the Hub has closed
  server,      \* serveConnection of every socket, and the version it was told
  sender,      \* SendFirmwareMaintenance of every update
  request,     \* the request on its way to the device, as the update it is for
  reports,     \* reports of the device that the Hub has not read
  version,     \* what the device runs
  job,         \* what the device does about an update
  wire,        \* the socket that the device has
  installed    \* history: the updates whose target the device has booted into

updateVars ==
  <<record, expired, known, newest, connection, shut, server, sender,
    request, reports, version, job, wire, installed>>

NoUpdate == "none"

ASSUME UpdateAssumption == NoUpdate \notin Updates /\ MaxSocket \in Nat

NoJob == [update |-> NoUpdate, phase |-> "none"]
Sockets == 1..MaxSocket

Delivered == {"SENT", "ACCEPTED", "DOWNLOADING", "WRITING", "VERIFYING"}
ActiveStates == Delivered \cup {"REBOOTING"}
Terminal == {"COMPLETED", "REJECTED", "FAILED", "EXPIRED", "INTERRUPTED"}

\* validDeviceTransition.
Follows == [SENT |-> "ACCEPTED", ACCEPTED |-> "DOWNLOADING", DOWNLOADING |-> "WRITING",
            WRITING |-> "VERIFYING", VERIFYING |-> "REBOOTING"]

ValidTransition(state, next) ==
  \/ next = "REJECTED" /\ state = "SENT"
  \/ next = "FAILED" /\ state \in ActiveStates \ {"SENT"}
  \/ state \in DOMAIN Follows /\ next = Follows[state]

UpdateInit ==
  /\ record = [u \in Updates |-> [state |-> "none", socket |-> 0, from |-> Factory]]
  /\ expired = {}
  /\ known = Factory /\ version = Factory
  /\ newest = 0 /\ connection = 0 /\ wire = 0
  /\ shut = {}
  /\ server = [g \in Sockets |-> [step |-> "none", version |-> Factory]]
  /\ sender = [u \in Updates |-> [step |-> "idle", socket |-> 0]]
  /\ request = NoUpdate
  /\ reports = [g \in Sockets |-> <<>>]
  /\ job = NoJob
  /\ installed = {}

-----------------------------------------------------------------------------
\* The operator.

\* What the handlers ask for before they issue or send.  They also refuse while
\* a Session is active, once, before everything else.
MaintenanceReady == connection # 0

Issue(u) ==
  /\ record[u].state = "none"
  /\ MaintenanceReady
  /\ Target[u] # known
  /\ record' = [record EXCEPT ![u] = [state |-> "ISSUED", socket |-> 0, from |-> known]]
  /\ UNCHANGED <<expired, known, newest, connection, shut, server, sender,
                 request, reports, version, job, wire, installed>>

Expire(u) ==
  /\ record[u].state \in {"ISSUED", "SENT"} /\ u \notin expired
  /\ expired' = expired \cup {u}
  /\ UNCHANGED <<record, known, newest, connection, shut, server, sender,
                 request, reports, version, job, wire, installed>>

Sending(u, step, g) == sender' = [sender EXCEPT ![u] = [step |-> step, socket |-> g]]

SetState(u, state) == record' = [record EXCEPT ![u].state = state]

CheckSend(u) ==
  /\ sender[u].step = "idle"
  /\ MaintenanceReady
  /\ record[u].state = "ISSUED"
  /\ record[u].from = known
  /\ Sending(u, "checked", 0)
  /\ UNCHANGED <<record, expired, known, newest, connection, shut, server,
                 request, reports, version, job, wire, installed>>

BindSend(u) ==
  /\ sender[u].step = "checked"
  /\ IF connection # 0 /\ connection \notin shut
     THEN Sending(u, "bound", connection) ELSE Sending(u, "idle", 0)
  /\ UNCHANGED <<record, expired, known, newest, connection, shut, server,
                 request, reports, version, job, wire, installed>>

\* MarkSent: one transaction, under the unique index on active updates.
MarkSent(u) ==
  LET free == \A w \in Updates : record[w].state \notin ActiveStates
  IN  /\ sender[u].step = "bound"
      /\ IF record[u].state = "ISSUED" /\ u \notin expired /\ free
         THEN /\ record' = [record EXCEPT ![u].state = "SENT", ![u].socket = sender[u].socket]
              /\ Sending(u, "marked", sender[u].socket)
         ELSE /\ IF record[u].state = "ISSUED" /\ u \in expired
                 THEN SetState(u, "EXPIRED") ELSE UNCHANGED record
              /\ Sending(u, "idle", 0)
      /\ UNCHANGED <<expired, known, newest, connection, shut, server,
                     request, reports, version, job, wire, installed>>

\* The request leaves on the socket; one to a device that has left is lost.
SendRequest(u) ==
  LET g == sender[u].socket
  IN  /\ sender[u].step = "marked"
      /\ \/ /\ g \notin shut
            /\ request' = IF g = wire THEN u ELSE request
            /\ Sending(u, "idle", 0)
         \/ /\ g \in shut \/ g # wire
            /\ Sending(u, "failed", g)
            /\ UNCHANGED request
      /\ UNCHANGED <<record, expired, known, newest, connection, shut, server,
                     reports, version, job, wire, installed>>

\* MarkTransportFailed writes with the context of the operator's request, which
\* may be gone; the socket is closed either way.
MarkTransportFailed(u) ==
  LET g == sender[u].socket
  IN  /\ sender[u].step = "failed"
      /\ \/ /\ record[u].socket = g /\ record[u].state = "SENT"
            /\ SetState(u, "FAILED")
            /\ Sending(u, "idle", 0)
         \/ UNCHANGED record /\ Sending(u, "gone", g)
      /\ shut' = shut \cup {g}
      /\ UNCHANGED <<expired, known, newest, connection, server,
                     request, reports, version, job, wire, installed>>

-----------------------------------------------------------------------------
\* The sockets.

Becomes(g, step) == server' = [server EXCEPT ![g].step = step]

\* device.hello, register, and the end of the socket that was current.
Connect ==
  LET g == newest + 1
  IN  /\ wire = 0 /\ g \in Sockets
      /\ newest' = g /\ wire' = g /\ connection' = g
      /\ known' = version
      /\ shut' = shut \cup ({connection} \ {0})
      /\ server' = [server EXCEPT ![g] = [step |-> "confirming", version |-> version]]
      /\ UNCHANGED <<record, expired, sender, request, reports, version, job, installed>>

\* Faulty variant: a device that is back is a device that is updated.
ConfirmAnyVersion(g) ==
  /\ server[g].step = "confirming"
  /\ IF connection # g THEN Becomes(g, "leaving") /\ UNCHANGED record
     ELSE /\ Becomes(g, "serving")
          /\ record' = [u \in Updates |->
               IF record[u].state # "REBOOTING" THEN record[u]
               ELSE [record[u] EXCEPT !.state = "COMPLETED"]]
  /\ UNCHANGED <<expired, known, newest, connection, shut, sender, request,
                 reports, version, job, wire, installed>>

\* ConfirmPostReboot: the version of the hello against the manifest.
Confirm(g) ==
  /\ server[g].step = "confirming"
  /\ IF connection # g THEN Becomes(g, "leaving") /\ UNCHANGED record
     ELSE /\ Becomes(g, "serving")
          /\ record' = [u \in Updates |->
               IF record[u].state # "REBOOTING" \/ g <= record[u].socket THEN record[u]
               ELSE [record[u] EXCEPT !.state =
                       IF server[g].version = Target[u] THEN "COMPLETED" ELSE "FAILED"]]
  /\ UNCHANGED <<expired, known, newest, connection, shut, sender, request,
                 reports, version, job, wire, installed>>

\* deliverFirmwareMaintenanceResult and RecordDeviceState.
ReadReport(g) ==
  LET u == Head(reports[g]).update
      next == Head(reports[g]).state
      state == record[u].state
  IN  /\ server[g].step = "serving"
      /\ g \notin shut
      /\ reports[g] # <<>>
      /\ reports' = [reports EXCEPT ![g] = Tail(@)]
      /\ IF connection = g /\ record[u].socket = g
         THEN \/ state = next /\ UNCHANGED <<record, server>>
              \/ /\ state # next
                 /\ state = "SENT" /\ u \in expired
                 /\ SetState(u, "EXPIRED") /\ Becomes(g, "leaving")
              \/ /\ state # next
                 /\ ~(state = "SENT" /\ u \in expired)
                 /\ ValidTransition(state, next)
                 /\ SetState(u, next) /\ UNCHANGED server
              \/ /\ state # next
                 /\ ~(state = "SENT" /\ u \in expired)
                 /\ ~ValidTransition(state, next)
                 /\ Becomes(g, "leaving") /\ UNCHANGED record
         ELSE Becomes(g, "leaving") /\ UNCHANGED record
      /\ UNCHANGED <<expired, known, newest, connection, shut, sender,
                     request, version, job, wire, installed>>

\* The Hub has closed the socket, or everything the device had sent is read.
LeaveSocket(g) ==
  /\ server[g].step = "serving"
  /\ g \in shut \/ (wire # g /\ reports[g] = <<>>)
  /\ Becomes(g, "leaving")
  /\ UNCHANGED <<record, expired, known, newest, connection, shut, sender,
                 request, reports, version, job, wire, installed>>

\* unregister: an update is interrupted only with the current socket.
UnregisterSocket(g) ==
  /\ server[g].step = "leaving"
  /\ connection' = IF connection = g THEN 0 ELSE connection
  /\ Becomes(g, IF connection = g THEN "interrupting" ELSE "ended")
  /\ reports' = [reports EXCEPT ![g] = <<>>]
  /\ UNCHANGED <<record, expired, known, newest, shut, sender,
                 request, version, job, wire, installed>>

\* Faulty variant: an image that is being written is taken for one that reboots.
InterruptRowsUnlessWriting(rows, lost) ==
  [u \in Updates |-> IF rows[u].state \in Delivered \ {"WRITING"} /\ rows[u].socket \in lost
                     THEN [rows[u] EXCEPT !.state = "INTERRUPTED"] ELSE rows[u]]

InterruptRows(rows, lost) ==
  [u \in Updates |-> IF rows[u].state \in Delivered /\ rows[u].socket \in lost
                     THEN [rows[u] EXCEPT !.state = "INTERRUPTED"] ELSE rows[u]]

InterruptConnection(g) ==
  /\ server[g].step = "interrupting"
  /\ record' = InterruptRows(record, {g})
  /\ shut' = shut \cup {g}
  /\ Becomes(g, "ended")
  /\ UNCHANGED <<expired, known, newest, connection, sender,
                 request, reports, version, job, wire, installed>>

\* The Hub dies and starts again: ReconcileInterrupted.
RestartHubUpdates ==
  /\ newest < MaxSocket
  /\ record' = InterruptRows(record, Sockets)
  /\ connection' = 0
  /\ shut' = Sockets \cap 1..newest
  /\ server' = [g \in Sockets |-> IF g <= newest THEN [server[g] EXCEPT !.step = "ended"] ELSE server[g]]
  /\ sender' = [u \in Updates |-> [step |-> "idle", socket |-> 0]]
  /\ reports' = [g \in Sockets |-> <<>>]
  /\ UNCHANGED <<expired, known, newest, request, version, job, wire, installed>>

-----------------------------------------------------------------------------
\* The device.  Its firmware is not in the repository: the states that it may
\* report are.

Report(u, state) ==
  reports' = IF wire \in Sockets \ shut /\ server[wire].step \in {"confirming", "serving"}
             THEN [reports EXCEPT ![wire] = Append(@, [update |-> u, state |-> state])]
             ELSE reports

TakeRequest ==
  /\ request # NoUpdate
  /\ request' = NoUpdate
  /\ IF job = NoJob
     THEN \/ job' = [update |-> request, phase |-> "ACCEPTED"] /\ Report(request, "ACCEPTED")
          \/ UNCHANGED job /\ Report(request, "REJECTED")
     ELSE UNCHANGED job /\ Report(request, "REJECTED")
  /\ UNCHANGED <<record, expired, known, newest, connection, shut, server,
                 sender, version, wire, installed>>

Progress ==
  /\ job.phase \in DOMAIN Follows
  /\ \/ job' = [job EXCEPT !.phase = Follows[job.phase]] /\ Report(job.update, Follows[job.phase])
     \/ job' = NoJob /\ Report(job.update, "FAILED")
  /\ UNCHANGED <<record, expired, known, newest, connection, shut, server,
                 sender, request, version, wire, installed>>

\* The new image boots, or the bootloader rolls back to the old one.
Reboot ==
  /\ job.phase = "REBOOTING"
  /\ \/ version' = Target[job.update] /\ installed' = installed \cup {job.update}
     \/ UNCHANGED <<version, installed>>
  /\ job' = NoJob /\ wire' = 0 /\ request' = NoUpdate
  /\ UNCHANGED <<record, expired, known, newest, connection, shut, server,
                 sender, reports>>

\* The network drops, with or without the device's power.
LoseDevice ==
  /\ wire # 0 /\ newest < MaxSocket
  /\ wire' = 0 /\ request' = NoUpdate
  /\ job' \in {job, NoJob}
  /\ UNCHANGED <<record, expired, known, newest, connection, shut, server,
                 sender, reports, version, installed>>

UpdateNext ==
  \/ \E u \in Updates :
       \/ Issue(u) \/ Expire(u) \/ CheckSend(u) \/ BindSend(u)
       \/ MarkSent(u) \/ SendRequest(u) \/ MarkTransportFailed(u)
  \/ Connect
  \/ \E g \in Sockets :
       \/ Confirm(g) \/ ReadReport(g) \/ LeaveSocket(g)
       \/ UnregisterSocket(g) \/ InterruptConnection(g)
  \/ RestartHubUpdates
  \/ TakeRequest \/ Progress \/ Reboot \/ LoseDevice

UpdateSpec == UpdateInit /\ [][UpdateNext]_updateVars

-----------------------------------------------------------------------------

UpdateTypeOK ==
  /\ record \in [Updates -> [state : ActiveStates \cup Terminal \cup {"none", "ISSUED"},
                             socket : 0..MaxSocket,
                             from : {Factory} \cup {Target[u] : u \in Updates}]]
  /\ connection \in 0..newest /\ newest \in 0..MaxSocket /\ wire \in 0..newest
  /\ shut \subseteq Sockets

(* An update on record as COMPLETED is one whose version the device has      *)
(* booted from an update: neither another version, nor a report that arrives *)
(* late or on another socket, nor a restart of the Hub, can complete it      *)
(* (RecordDeviceState, ConfirmPostReboot, ReconcileInterrupted).  It need    *)
(* not have booted the image of this very update: the version of the device  *)
(* is read before the send and not again (CheckSend), so that another update *)
(* may bring it there first, and then a boot that failed looks like one that *)
(* did not.                                                                  *)
CompletedIsInstalled ==
  \A u \in Updates : record[u].state = "COMPLETED" =>
    \E w \in installed : Target[w] = Target[u]

(* An update that was delivered and has not reached its reboot ends with its *)
(* transport: its socket is served still, or is being ended, or the sender   *)
(* has the failure in its hands.  Two exceptions: a request that was gone    *)
(* before it wrote the failure, and a device that came back on a newer       *)
(* socket before the old one was unregistered, which then interrupts nothing *)
(* (unregister, InterruptConnection, MarkTransportFailed).                   *)
DeliveredHasTransport ==
  \A u \in Updates : record[u].state \in Delivered =>
    \/ server[record[u].socket].step \in {"confirming", "serving", "leaving", "interrupting"}
    \/ sender[u].step \in {"marked", "failed", "gone"}
    \/ record[u].socket < newest

(* What stage-device-v2-ota.md:101 says: a disconnect before REBOOTING       *)
(* becomes INTERRUPTED.  Nothing that was delivered on a socket is under way *)
(* when the socket has been unregistered (unregister).                       *)
DisconnectIsInterrupted ==
  \A u \in Updates :
    record[u].state \in Delivered /\ sender[u].step = "idle" =>
      server[record[u].socket].step # "ended"

=============================================================================
