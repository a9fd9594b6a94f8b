---------------------------- MODULE Updates_proofs ----------------------------
(***************************************************************************)
(* Proofs about the two ways software is replaced: FirmwareUpdate, for any *)
(* number of updates and sockets and whatever versions the artifacts hold, *)
(* and HubUpdate, for any number of updates and losses of power.  They     *)
(* share nothing but this module.                                          *)
(***************************************************************************)
EXTENDS FirmwareUpdate, HubUpdate, TLAPS

-----------------------------------------------------------------------------
(* The firmware of a device.                                               *)


Images == {Factory} \cup {Target[u] : u \in Updates}
Told == {"ACCEPTED", "DOWNLOADING", "WRITING", "VERIFYING", "REBOOTING", "REJECTED", "FAILED"}
Stages == {"ACCEPTED", "DOWNLOADING", "WRITING", "VERIFYING", "REBOOTING"}
Served == {"confirming", "serving", "leaving", "interrupting"}
SendSteps == {"idle", "checked", "bound", "marked", "failed", "gone"}

\* What a report makes of a delivered request.
Onward == Delivered \cup {"REBOOTING", "REJECTED", "FAILED", "EXPIRED"}

Row ==
  [state : ActiveStates \cup Terminal \cup {"none", "ISSUED"}, socket : 0..MaxSocket,
   from : Images]
RecordTyped == record \in [Updates -> Row]
SocketsTyped ==
  /\ connection \in 0..newest /\ newest \in 0..MaxSocket /\ wire \in 0..newest
  /\ shut \subseteq Sockets
  /\ known \in Images /\ version \in Images
  /\ server \in [Sockets -> [step : Served \cup {"none", "ended"}, version : Images]]
SendTyped ==
  /\ sender \in [Updates -> [step : SendSteps, socket : 0..MaxSocket]]
  /\ request \in Updates \cup {NoUpdate}
ReportsTyped == reports \in [Sockets -> Seq([update : Updates, state : Told])]
DeviceTyped ==
  /\ job \in {NoJob} \cup [update : Updates, phase : Stages]
  /\ installed \subseteq Updates
Typed == RecordTyped /\ SocketsTyped /\ SendTyped /\ ReportsTyped /\ DeviceTyped

(* The newest socket is the only one that may be current, it is served      *)
(* exactly as long as it is or is being interrupted, and once it has ended  *)
(* the Hub has shut it.                                                     *)
SocketsOK ==
  /\ connection \in {0, newest}
  /\ \A g \in Sockets : server[g].step = "none" <=> g > newest
  /\ newest # 0 =>
       /\ server[newest].step \in {"confirming", "serving", "leaving"} => connection = newest
       /\ server[newest].step = "ended" => newest \in shut
       /\ server[newest].version = known

(* A send that is on its way and the row name the same socket.              *)
SendOK ==
  \A u \in Updates :
    /\ sender[u].step # "idle" => record[u].state # "none"
    /\ sender[u].step = "bound" => sender[u].socket \in 1..newest
    /\ sender[u].step \in {"marked", "failed", "gone"} =>
         sender[u].socket \in 1..newest /\ record[u].socket = sender[u].socket
    /\ record[u].state \in Delivered => record[u].socket \in 1..newest

(* Where a version comes from: the factory, or an update that was booted.   *)
Booted(v) == \E w \in installed : Target[w] = v
ComesFrom(v) == v = Factory \/ Booted(v)
VersionsOK ==
  /\ ComesFrom(version) /\ ComesFrom(known)
  /\ version = Factory /\ installed # {} => Booted(Factory)
  /\ \A u \in Updates : record[u].state # "none" =>
       /\ Target[u] = known => Booted(known)
       /\ Target[u] = Factory => installed # {}

UpdateInv ==
  Typed /\ SocketsOK /\ SendOK /\ VersionsOK /\ DeliveredHasTransport /\ CompletedIsInstalled

-----------------------------------------------------------------------------
(* What the operators that the actions are built from do.                  *)

\* A send moves on, and no other.
LEMMA SendingMoves ==
  ASSUME SendTyped, NEW u \in Updates, NEW s \in SendSteps, NEW g \in 0..MaxSocket,
         Sending(u, s, g)
  PROVE  /\ sender' \in [Updates -> [step : SendSteps, socket : 0..MaxSocket]]
         /\ sender'[u].step = s /\ sender'[u].socket = g
         /\ \A w \in Updates \ {u} : sender'[w] = sender[w]
  BY DEF SendTyped, Sending

\* A row changes its state and keeps its socket, and no other changes.
LEMMA StateIsSet ==
  ASSUME RecordTyped, NEW u \in Updates,
         NEW s \in ActiveStates \cup Terminal \cup {"none", "ISSUED"}, SetState(u, s)
  PROVE  /\ RecordTyped'
         /\ record'[u].state = s /\ record'[u].socket = record[u].socket
         /\ \A w \in Updates \ {u} : record'[w] = record[w]
  BY DEF RecordTyped, Row, SetState

\* A connection's goroutine moves on, and no other.
LEMMA ServerBecomes ==
  ASSUME SocketsTyped, NEW g \in Sockets, NEW s \in Served \cup {"ended"}, Becomes(g, s)
  PROVE  /\ server' \in [Sockets -> [step : Served \cup {"none", "ended"}, version : Images]]
         /\ server'[g].step = s /\ server'[g].version = server[g].version
         /\ \A h \in Sockets \ {g} : server'[h] = server[h]
  BY DEF SocketsTyped, Becomes

\* An interruption ends what was delivered on a lost socket, and nothing else.
LEMMA RowsInterrupted ==
  ASSUME RecordTyped, NEW lost, record' = InterruptRows(record, lost)
  PROVE  /\ RecordTyped'
         /\ \A u \in Updates :
              /\ record'[u].socket = record[u].socket
              /\ \/ record'[u] = record[u] /\ ~(record[u].state \in Delivered /\ record[u].socket \in lost)
                 \/ record[u].state \in Delivered /\ record'[u].state = "INTERRUPTED"
  BY DEF RecordTyped, Row, InterruptRows, Terminal

\* A report is added to what the Hub has to read of the device's socket.
LEMMA ReportAdds ==
  ASSUME ReportsTyped, NEW u \in Updates, NEW s \in Told, Report(u, s)
  PROVE  ReportsTyped'
<1> DEFINE r == [update |-> u, state |-> s]
<1>1. CASE reports' = reports
  BY <1>1 DEF ReportsTyped
<1>2. CASE wire \in Sockets /\ reports' = [reports EXCEPT ![wire] = Append(@, r)]
  <2> DEFINE S == [update : Updates, state : Told]
  <2>1. reports[wire] \in Seq(S) /\ r \in S
    BY <1>2 DEF ReportsTyped
  <2> HIDE DEF S, r
  <2>2. Append(reports[wire], r) \in Seq(S)
    BY <2>1
  <2>3. [reports EXCEPT ![wire] = Append(@, r)] \in [Sockets -> Seq(S)]
    BY <2>2 DEF ReportsTyped, S
  <2> QED
    BY <1>2, <2>3 DEF ReportsTyped, S
<1> QED
  BY <1>1, <1>2 DEF Report

\* The device has the states that it reports from those that it is in.
LEMMA JobFollows ==
  ASSUME DeviceTyped, job.phase \in DOMAIN Follows
  PROVE  /\ job \in [update : Updates, phase : Stages]
         /\ Follows[job.phase] \in Stages
  BY DEF DeviceTyped, NoJob, Follows, Stages

\* A send marks its row as sent on its own socket, or is over.
LEMMA MarkSentMoves ==
  ASSUME UpdateInv, NEW u \in Updates, MarkSent(u)
  PROVE  /\ RecordTyped'
         /\ sender[u].socket \in 1..newest
         /\ \A w \in Updates \ {u} : record'[w] = record[w] /\ sender'[w] = sender[w]
         /\ \/ /\ record'[u].state = "SENT" /\ record'[u].socket = sender[u].socket
               /\ sender'[u].step = "marked" /\ sender'[u].socket = sender[u].socket
            \/ record'[u].state = "EXPIRED" /\ sender'[u].step = "idle"
            \/ record'[u] = record[u] /\ sender'[u].step = "idle"
<1>1. sender[u].socket \in 1..newest /\ sender[u].socket \in 0..MaxSocket /\ 0 \in 0..MaxSocket
  BY UpdateAssumption DEF UpdateInv, Typed, SendTyped, SendOK, MarkSent
<1>2. CASE record' = [record EXCEPT ![u].state = "SENT", ![u].socket = sender[u].socket]
             /\ Sending(u, "marked", sender[u].socket)
  <2>1. \A w \in Updates \ {u} : sender'[w] = sender[w]
    BY <1>1, <1>2, SendingMoves DEF UpdateInv, Typed, SendSteps
  <2>2. sender'[u].step = "marked" /\ sender'[u].socket = sender[u].socket
    BY <1>1, <1>2, SendingMoves DEF UpdateInv, Typed, SendSteps
  <2>3. /\ RecordTyped'
        /\ record'[u].state = "SENT" /\ record'[u].socket = sender[u].socket
        /\ \A w \in Updates \ {u} : record'[w] = record[w]
    BY <1>1, <1>2 DEF UpdateInv, Typed, RecordTyped, Row, ActiveStates, Delivered
  <2> QED
    BY <1>1, <2>1, <2>2, <2>3
<1>3. CASE SetState(u, "EXPIRED") /\ Sending(u, "idle", 0)
  BY <1>1, <1>3, SendingMoves, StateIsSet DEF UpdateInv, Typed, SendSteps, Terminal
<1>4. CASE UNCHANGED record /\ Sending(u, "idle", 0)
  BY <1>1, <1>4, SendingMoves DEF UpdateInv, Typed, SendSteps, RecordTyped
<1> QED
  BY <1>2, <1>3, <1>4 DEF MarkSent

\* A send whose transport failed fails its row, or leaves it behind.
LEMMA TransportFailedMoves ==
  ASSUME UpdateInv, NEW u \in Updates, MarkTransportFailed(u)
  PROVE  /\ RecordTyped'
         /\ sender[u].socket \in 1..newest
         /\ \A w \in Updates \ {u} : record'[w] = record[w] /\ sender'[w] = sender[w]
         /\ \/ record'[u].state = "FAILED" /\ sender'[u].step = "idle"
            \/ /\ record'[u] = record[u]
               /\ sender'[u].step = "gone" /\ sender'[u].socket = sender[u].socket
<1>1. sender[u].socket \in 1..newest /\ sender[u].socket \in 0..MaxSocket /\ 0 \in 0..MaxSocket
  BY UpdateAssumption DEF UpdateInv, Typed, SendTyped, SendOK, MarkTransportFailed
<1>2. CASE SetState(u, "FAILED") /\ Sending(u, "idle", 0)
  BY <1>1, <1>2, SendingMoves, StateIsSet DEF UpdateInv, Typed, SendSteps, Terminal
<1>3. CASE UNCHANGED record /\ Sending(u, "gone", sender[u].socket)
  BY <1>1, <1>3, SendingMoves DEF UpdateInv, Typed, SendSteps, RecordTyped
<1> QED
  BY <1>2, <1>3 DEF MarkTransportFailed

\* A hello ends the rows that reboot, as completed only at their own version.
LEMMA ConfirmMoves ==
  ASSUME UpdateInv, NEW g \in Sockets, Confirm(g)
  PROVE  /\ RecordTyped'
         /\ \A u \in Updates :
              /\ record'[u].socket = record[u].socket
              /\ \/ record'[u] = record[u]
                 \/ /\ record[u].state = "REBOOTING"
                    /\ \/ record'[u].state = "FAILED"
                       \/ /\ record'[u].state = "COMPLETED"
                          /\ connection = g /\ server[g].version = Target[u]
<1>1. CASE UNCHANGED record
  BY <1>1 DEF UpdateInv, Typed, RecordTyped
<1>2. CASE connection = g /\ record' = [u \in Updates |->
               IF record[u].state # "REBOOTING" \/ g <= record[u].socket THEN record[u]
               ELSE [record[u] EXCEPT !.state =
                       IF server[g].version = Target[u] THEN "COMPLETED" ELSE "FAILED"]]
  BY <1>2 DEF UpdateInv, Typed, RecordTyped, Row, Terminal
<1> QED
  BY <1>1, <1>2 DEF Confirm

\* A report moves the row that it is about, on the socket of that row, from one
\* active state to the next or to its end.
LEMMA ReportMoves ==
  ASSUME UpdateInv, NEW g \in Sockets, ReadReport(g)
  PROVE  /\ server[g].step = "serving"
         /\ RecordTyped' /\ ReportsTyped'
         /\ UNCHANGED server \/ Becomes(g, "leaving")
         /\ \A u \in Updates :
              /\ record'[u].socket = record[u].socket
              /\ \/ record'[u] = record[u]
                 \/ /\ record[u].state \in Delivered
                    /\ record'[u].state \in Onward
                 \/ record[u].state = "REBOOTING" /\ record'[u].state = "FAILED"
<1> DEFINE S == [update : Updates, state : Told]
           u == Head(reports[g]).update
           next == Head(reports[g]).state
<1>1. reports[g] \in Seq(S) /\ reports[g] # <<>>
  BY DEF UpdateInv, Typed, ReportsTyped, ReadReport
<1>2. Head(reports[g]) \in S /\ Tail(reports[g]) \in Seq(S)
  <2> HIDE DEF S
  <2> QED BY <1>1
<1>3. u \in Updates /\ next \in Told
  BY <1>2
<1>4. ReportsTyped'
  BY <1>2 DEF UpdateInv, Typed, ReportsTyped, ReadReport
<1>5. ASSUME NEW s \in Told \cup {"EXPIRED"}, SetState(u, s),
             \/ record[u].state \in Delivered /\ s \in Onward
             \/ record[u].state = "REBOOTING" /\ s = "FAILED"
      PROVE  /\ RecordTyped'
             /\ \A w \in Updates :
                  /\ record'[w].socket = record[w].socket
                  /\ \/ record'[w] = record[w]
                     \/ /\ record[w].state \in Delivered
                        /\ record'[w].state \in Onward
                     \/ record[w].state = "REBOOTING" /\ record'[w].state = "FAILED"
  <2> HIDE DEF u
  <2>1. s \in ActiveStates \cup Terminal \cup {"none", "ISSUED"}
    BY DEF Told, ActiveStates, Delivered, Terminal
  <2> QED
    BY <1>3, <1>5, <2>1, StateIsSet DEF UpdateInv, Typed
<1>6. CASE UNCHANGED record
  BY <1>4, <1>6 DEF UpdateInv, Typed, RecordTyped, ReadReport
<1>7. CASE record[u].state = "SENT" /\ SetState(u, "EXPIRED")
  BY <1>4, <1>5, <1>7 DEF Onward, Delivered, ReadReport
<1>8. CASE ValidTransition(record[u].state, next) /\ SetState(u, next)
  <2>1. \/ record[u].state \in Delivered /\ next \in Onward
        \/ record[u].state = "REBOOTING" /\ next = "FAILED"
    BY <1>8 DEF ValidTransition, Follows, ActiveStates, Onward, Delivered
  <2> QED
    BY <1>3, <1>4, <1>5, <1>8, <2>1 DEF ReadReport
<1> QED
  BY <1>6, <1>7, <1>8 DEF ReadReport

-----------------------------------------------------------------------------
(* The operator.                                                           *)

LEMMA IssueKeepsInv ==
  ASSUME UpdateInv, NEW u \in Updates, Issue(u)
  PROVE  UpdateInv'
<1>1. RecordTyped'
  <2>1. [state |-> "ISSUED", socket |-> 0, from |-> known] \in Row
    BY UpdateAssumption DEF UpdateInv, Typed, SocketsTyped, Row
  <2> QED
    BY <2>1 DEF UpdateInv, Typed, RecordTyped, Issue
<1>2. SendOK'
  BY DEF UpdateInv, SendOK, Delivered, Issue
<1>3. VersionsOK'
  BY DEF UpdateInv, VersionsOK, Booted, ComesFrom, Issue
<1>4. DeliveredHasTransport'
  BY DEF UpdateInv, DeliveredHasTransport, Delivered, Issue
<1>5. CompletedIsInstalled'
  BY DEF UpdateInv, CompletedIsInstalled, Issue
<1> QED
  BY <1>1, <1>2, <1>3, <1>4, <1>5 DEF UpdateInv, Typed, SocketsTyped, SendTyped,
     ReportsTyped, DeviceTyped, SocketsOK, Issue

LEMMA ExpireKeepsInv ==
  ASSUME UpdateInv, NEW u \in Updates, Expire(u)
  PROVE  UpdateInv'
<1> QED
  BY DEF UpdateInv, Typed, RecordTyped, SocketsTyped, SendTyped, ReportsTyped,
     DeviceTyped, SocketsOK, SendOK, VersionsOK, DeliveredHasTransport,
     CompletedIsInstalled, Booted, ComesFrom, Expire

LEMMA CheckSendKeepsInv ==
  ASSUME UpdateInv, NEW u \in Updates, CheckSend(u)
  PROVE  UpdateInv'
<1>1. SendTyped'
  BY UpdateAssumption DEF UpdateInv, Typed, SendTyped, SendSteps, Sending, CheckSend
<1>2. SendOK'
  BY DEF UpdateInv, SendOK, Sending, CheckSend
<1>3. DeliveredHasTransport'
  BY DEF UpdateInv, DeliveredHasTransport, Sending, CheckSend
<1> QED
  BY <1>1, <1>2, <1>3 DEF UpdateInv, Typed, RecordTyped, SocketsTyped, ReportsTyped,
     DeviceTyped, SocketsOK, VersionsOK, CompletedIsInstalled, Booted, ComesFrom,
     CheckSend

LEMMA BindSendKeepsInv ==
  ASSUME UpdateInv, NEW u \in Updates, BindSend(u)
  PROVE  UpdateInv'
<1>1. SendTyped'
  <2>1. connection \in 0..MaxSocket
    BY UpdateAssumption DEF UpdateInv, Typed, SocketsTyped
  <2> QED
    BY <2>1, UpdateAssumption, SendingMoves DEF UpdateInv, Typed, SendTyped, SendSteps,
       BindSend
<1>2. SendOK'
  <2>1. connection \in 0..MaxSocket /\ (connection # 0 => connection \in 1..newest)
    BY UpdateAssumption DEF UpdateInv, Typed, SocketsTyped
  <2>2. CASE Sending(u, "bound", connection) /\ connection # 0
    BY <2>1, <2>2, SendingMoves DEF UpdateInv, Typed, SendOK, SendSteps, BindSend
  <2>3. CASE Sending(u, "idle", 0)
    BY <2>3, UpdateAssumption, SendingMoves DEF UpdateInv, Typed, SendOK, SendSteps,
       BindSend
  <2> QED
    BY <2>2, <2>3 DEF BindSend
<1>3. DeliveredHasTransport'
  BY DEF UpdateInv, Typed, DeliveredHasTransport, SendTyped, Sending, BindSend
<1> QED
  BY <1>1, <1>2, <1>3 DEF UpdateInv, Typed, RecordTyped, SocketsTyped, ReportsTyped,
     DeviceTyped, SocketsOK, VersionsOK, CompletedIsInstalled, Booted, ComesFrom,
     BindSend

LEMMA MarkSentKeepsInv ==
  ASSUME UpdateInv, NEW u \in Updates, MarkSent(u)
  PROVE  UpdateInv'
<1>1. RecordTyped'
  BY MarkSentMoves
<1>2. SendTyped'
  <2>1. sender[u].socket \in 0..MaxSocket /\ 0 \in 0..MaxSocket
    BY UpdateAssumption DEF UpdateInv, Typed, SendTyped
  <2> QED
    BY <2>1, SendingMoves DEF UpdateInv, Typed, SendTyped, SendSteps, MarkSent
<1>3. SendOK'
  BY MarkSentMoves DEF UpdateInv, SendOK, Delivered, MarkSent
<1>4. VersionsOK'
  BY MarkSentMoves DEF UpdateInv, VersionsOK, Booted, ComesFrom, MarkSent
<1>5. DeliveredHasTransport'
  BY MarkSentMoves DEF UpdateInv, DeliveredHasTransport, Delivered, MarkSent
<1>6. CompletedIsInstalled'
  BY MarkSentMoves DEF UpdateInv, CompletedIsInstalled, MarkSent
<1> QED
  BY <1>1, <1>2, <1>3, <1>4, <1>5, <1>6 DEF UpdateInv, Typed, SocketsTyped,
     ReportsTyped, DeviceTyped, SocketsOK, MarkSent

LEMMA SendRequestKeepsInv ==
  ASSUME UpdateInv, NEW u \in Updates, SendRequest(u)
  PROVE  UpdateInv'
<1>1. SendTyped'
  <2>1. sender[u].socket \in 0..MaxSocket /\ 0 \in 0..MaxSocket
    BY UpdateAssumption DEF UpdateInv, Typed, SendTyped
  <2> QED
    BY <2>1, SendingMoves DEF UpdateInv, Typed, SendTyped, SendSteps, SendRequest
<1>2. SendOK'
  <2>1. sender[u].socket \in 0..MaxSocket /\ 0 \in 0..MaxSocket
    BY UpdateAssumption DEF UpdateInv, Typed, SendTyped
  <2> QED
    BY <2>1, SendingMoves DEF UpdateInv, Typed, SendOK, SendSteps, SendRequest
<1>3. DeliveredHasTransport'
  <2>1. sender[u].socket \in 1..newest /\ record[u].socket = sender[u].socket
    BY DEF UpdateInv, SendOK, SendRequest
  <2>2. CASE Sending(u, "idle", 0) /\ sender[u].socket \notin shut
    <3>1. sender[u].socket < newest \/ server[sender[u].socket].step \in Served
      BY <2>1, <2>2 DEF UpdateInv, Typed, SocketsTyped, SocketsOK, Sockets
    <3> QED
      BY <2>1, <2>2, <3>1, UpdateAssumption, SendingMoves DEF UpdateInv, Typed,
         SendSteps, DeliveredHasTransport, Served, SendRequest
  <2>3. CASE Sending(u, "failed", sender[u].socket)
    <3>1. sender[u].socket \in 0..MaxSocket
      BY DEF UpdateInv, Typed, SendTyped
    <3> QED
      BY <2>3, <3>1, SendingMoves DEF UpdateInv, Typed, SendSteps,
         DeliveredHasTransport, SendRequest
  <2> QED
    BY <2>2, <2>3 DEF SendRequest
<1> QED
  BY <1>1, <1>2, <1>3 DEF UpdateInv, Typed, RecordTyped, SocketsTyped, ReportsTyped,
     DeviceTyped, SocketsOK, VersionsOK, CompletedIsInstalled, Booted, ComesFrom,
     SendRequest

LEMMA MarkTransportFailedKeepsInv ==
  ASSUME UpdateInv, NEW u \in Updates, MarkTransportFailed(u)
  PROVE  UpdateInv'
<1>1. RecordTyped'
  BY TransportFailedMoves
<1>2. SocketsTyped'
  <2>1. sender[u].socket \in Sockets
    BY TransportFailedMoves, UpdateAssumption DEF UpdateInv, Typed, SocketsTyped,
       Sockets
  <2> QED
    BY <2>1 DEF UpdateInv, Typed, SocketsTyped, MarkTransportFailed
<1>3. SendTyped'
  <2>1. sender[u].socket \in 0..MaxSocket /\ 0 \in 0..MaxSocket
    BY UpdateAssumption DEF UpdateInv, Typed, SendTyped
  <2>2. Sending(u, "idle", 0) \/ Sending(u, "gone", sender[u].socket)
    BY DEF MarkTransportFailed
  <2> QED
    BY <2>1, <2>2 DEF UpdateInv, Typed, SendTyped, SendSteps, Sending, MarkTransportFailed
<1>4. SocketsOK'
  BY DEF UpdateInv, SocketsOK, MarkTransportFailed
<1>5. SendOK'
  BY TransportFailedMoves DEF UpdateInv, SendOK, Delivered, MarkTransportFailed
<1>6. VersionsOK'
  BY TransportFailedMoves DEF UpdateInv, VersionsOK, Booted, ComesFrom,
     MarkTransportFailed
<1>7. DeliveredHasTransport'
  BY TransportFailedMoves DEF UpdateInv, DeliveredHasTransport, Delivered,
     MarkTransportFailed
<1>8. CompletedIsInstalled'
  BY TransportFailedMoves DEF UpdateInv, CompletedIsInstalled, MarkTransportFailed
<1> QED
  BY <1>1, <1>2, <1>3, <1>4, <1>5, <1>6, <1>7, <1>8 DEF UpdateInv, Typed, ReportsTyped,
     DeviceTyped, MarkTransportFailed

-----------------------------------------------------------------------------
(* The sockets.                                                            *)

LEMMA ConnectKeepsInv ==
  ASSUME UpdateInv, Connect
  PROVE  UpdateInv'
<1>1. SocketsTyped'
  BY UpdateAssumption DEF UpdateInv, Typed, SocketsTyped, Sockets, Served, Connect
<1>2. SocketsOK'
  BY DEF UpdateInv, Typed, SocketsOK, SocketsTyped, Sockets, Connect
<1>3. SendOK'
  BY DEF UpdateInv, Typed, SendOK, SocketsTyped, Connect
<1>4. VersionsOK'
  BY DEF UpdateInv, VersionsOK, Booted, ComesFrom, Connect
<1>5. DeliveredHasTransport'
  BY DEF UpdateInv, Typed, DeliveredHasTransport, RecordTyped, SocketsTyped, Row,
     Connect
<1> QED
  BY <1>1, <1>2, <1>3, <1>4, <1>5 DEF UpdateInv, Typed, RecordTyped, SendTyped,
     ReportsTyped, DeviceTyped, CompletedIsInstalled, Connect

LEMMA ConfirmKeepsInv ==
  ASSUME UpdateInv, NEW g \in Sockets, Confirm(g)
  PROVE  UpdateInv'
<1>1. RecordTyped'
  BY ConfirmMoves
<1>2. SocketsTyped'
  BY ServerBecomes DEF UpdateInv, Typed, SocketsTyped, Served, Confirm
<1>3. SocketsOK'
  BY UpdateAssumption DEF UpdateInv, Typed, SocketsOK, SocketsTyped, Sockets, Served,
     Becomes, Confirm
<1>4. SendOK'
  BY ConfirmMoves DEF UpdateInv, SendOK, Delivered, Confirm
<1>5. VersionsOK'
  BY DEF UpdateInv, VersionsOK, Booted, ComesFrom, Confirm
<1>6. DeliveredHasTransport'
  <2>1. \A h \in Sockets : server[h].step \in Served => server'[h].step \in Served
    BY ServerBecomes DEF UpdateInv, Typed, Served, Confirm
  <2>2. \A w \in Updates : record[w].state \in Delivered => record[w].socket \in Sockets
    BY UpdateAssumption DEF UpdateInv, Typed, SocketsTyped, SendOK, Sockets
  <2> QED
    BY <2>1, <2>2, ConfirmMoves DEF UpdateInv, DeliveredHasTransport, Delivered, Served,
       Confirm
<1>7. CompletedIsInstalled'
  BY DEF UpdateInv, Typed, CompletedIsInstalled, VersionsOK, SocketsOK, RecordTyped,
     Row, Booted, Confirm
<1> QED
  BY <1>1, <1>2, <1>3, <1>4, <1>5, <1>6, <1>7 DEF UpdateInv, Typed, SendTyped,
     ReportsTyped, DeviceTyped, Confirm

LEMMA ReadReportKeepsInv ==
  ASSUME UpdateInv, NEW g \in Sockets, ReadReport(g)
  PROVE  UpdateInv'
<1>1. RecordTyped'
  BY ReportMoves
<1>2. SocketsTyped'
  BY ReportMoves, ServerBecomes DEF UpdateInv, Typed, SocketsTyped, Served, ReadReport
<1>3. ReportsTyped'
  BY ReportMoves
<1>4. SocketsOK'
  <2>1. CASE UNCHANGED server
    BY <2>1 DEF UpdateInv, SocketsOK, ReadReport
  <2>2. CASE Becomes(g, "leaving")
    <3>1. newest # 0 => newest \in Sockets
      BY DEF UpdateInv, Typed, SocketsTyped, Sockets
    <3>2. server[g].step = "serving"
      BY ReportMoves
    <3>3. \A h \in Sockets :
            /\ server'[h].version = server[h].version
            /\ \/ server'[h].step = server[h].step
               \/ server[h].step = "serving" /\ server'[h].step = "leaving"
      BY <2>2, <3>2, ServerBecomes DEF UpdateInv, Typed, Served
    <3> QED
      BY <3>1, <3>3 DEF UpdateInv, SocketsOK, ReadReport
  <2> QED
    BY <2>1, <2>2, ReportMoves
<1>5. SendOK'
  <2>1. \A w \in Updates :
          /\ record'[w].socket = record[w].socket
          /\ record'[w].state \in Delivered => record[w].state \in Delivered
          /\ record'[w].state = "none" => record[w].state = "none"
    BY ReportMoves DEF Onward, Delivered
  <2> QED
    BY <2>1 DEF UpdateInv, SendOK, ReadReport
<1>6. VersionsOK'
  BY ReportMoves DEF Onward, UpdateInv, VersionsOK, Booted, ComesFrom, Delivered, ReadReport
<1>7. DeliveredHasTransport'
  <2>1. \A h \in Sockets : server[h].step \in Served => server'[h].step \in Served
    BY ReportMoves, ServerBecomes DEF UpdateInv, Typed, Served
  <2>2. \A w \in Updates : record[w].state \in Delivered => record[w].socket \in Sockets
    BY UpdateAssumption DEF UpdateInv, Typed, SocketsTyped, SendOK, Sockets
  <2> QED
    BY <2>1, <2>2, ReportMoves DEF Onward, UpdateInv, DeliveredHasTransport, Delivered,
       Served, ReadReport
<1>8. CompletedIsInstalled'
  BY ReportMoves DEF Onward, UpdateInv, CompletedIsInstalled, Delivered, ReadReport
<1> QED
  BY <1>1, <1>2, <1>3, <1>4, <1>5, <1>6, <1>7, <1>8 DEF UpdateInv, Typed, SendTyped,
     DeviceTyped, ReadReport

LEMMA LeaveSocketKeepsInv ==
  ASSUME UpdateInv, NEW g \in Sockets, LeaveSocket(g)
  PROVE  UpdateInv'
<1>1. SocketsTyped'
  BY UpdateAssumption DEF UpdateInv, Typed, SocketsTyped, SendTyped, DeviceTyped,
     Sockets, Images, Served, NoJob, Sending, Becomes, LeaveSocket
<1>2. SocketsOK'
  BY DEF UpdateInv, SocketsOK, Becomes, LeaveSocket
<1>3. DeliveredHasTransport'
  BY DEF UpdateInv, DeliveredHasTransport, Becomes, LeaveSocket
<1> QED
  BY <1>1, <1>2, <1>3 DEF UpdateInv, Typed, RecordTyped, SendTyped, ReportsTyped,
     DeviceTyped, SendOK, VersionsOK, CompletedIsInstalled, Booted, ComesFrom,
     LeaveSocket

LEMMA UnregisterSocketKeepsInv ==
  ASSUME UpdateInv, NEW g \in Sockets, UnregisterSocket(g)
  PROVE  UpdateInv'
<1>1. SocketsTyped'
  <2>1. connection' \in 0..newest
    BY DEF UpdateInv, Typed, SocketsTyped, UnregisterSocket
  <2> QED
    BY ServerBecomes DEF UpdateInv, Typed, SocketsTyped, Served, UnregisterSocket
<1>2. ReportsTyped'
  <2>1. <<>> \in Seq([update : Updates, state : Told])
    OBVIOUS
  <2> QED
    BY <2>1 DEF UpdateInv, Typed, ReportsTyped, UnregisterSocket
<1>3. SocketsOK'
  BY DEF UpdateInv, Typed, SocketsOK, SocketsTyped, Becomes, UnregisterSocket
<1>4. DeliveredHasTransport'
  BY DEF UpdateInv, Typed, DeliveredHasTransport, SocketsOK, SocketsTyped, Sockets,
     Becomes, UnregisterSocket
<1> QED
  BY <1>1, <1>2, <1>3, <1>4 DEF UpdateInv, Typed, RecordTyped, SendTyped, DeviceTyped,
     SendOK, VersionsOK, CompletedIsInstalled, Booted, ComesFrom, UnregisterSocket

LEMMA InterruptConnectionKeepsInv ==
  ASSUME UpdateInv, NEW g \in Sockets, InterruptConnection(g)
  PROVE  UpdateInv'
<1>1. RecordTyped'
  BY RowsInterrupted DEF UpdateInv, Typed, InterruptConnection
<1>2. SocketsTyped'
  BY UpdateAssumption DEF UpdateInv, Typed, SocketsTyped, SendTyped, DeviceTyped,
     Sockets, Images, Served, NoJob, Sending, Becomes, InterruptConnection
<1>3. SocketsOK'
  BY DEF UpdateInv, SocketsOK, Becomes, InterruptConnection
<1>4. SendOK'
  BY DEF UpdateInv, SendOK, InterruptRows, InterruptConnection
<1>5. VersionsOK'
  BY DEF UpdateInv, VersionsOK, Booted, ComesFrom, InterruptRows, Delivered,
     InterruptConnection
<1>6. DeliveredHasTransport'
  BY DEF UpdateInv, DeliveredHasTransport, InterruptRows, Delivered, Becomes,
     InterruptConnection
<1>7. CompletedIsInstalled'
  BY DEF UpdateInv, CompletedIsInstalled, InterruptRows, InterruptConnection
<1> QED
  BY <1>1, <1>2, <1>3, <1>4, <1>5, <1>6, <1>7 DEF UpdateInv, Typed, SendTyped,
     ReportsTyped, DeviceTyped, InterruptConnection

LEMMA RestartHubUpdatesKeepsInv ==
  ASSUME UpdateInv, RestartHubUpdates
  PROVE  UpdateInv'
<1>1. RecordTyped'
  BY RowsInterrupted DEF UpdateInv, Typed, RestartHubUpdates
<1>2. SocketsTyped'
  <2>1. server' \in [Sockets -> [step : Served \cup {"none", "ended"}, version : Images]]
    BY DEF UpdateInv, Typed, SocketsTyped, RestartHubUpdates
  <2> QED
    BY DEF UpdateInv, Typed, SocketsTyped, RestartHubUpdates
<1>3. SendTyped'
  BY UpdateAssumption DEF UpdateInv, Typed, SendTyped, SendSteps, RestartHubUpdates
<1>4. ReportsTyped'
  BY DEF ReportsTyped, RestartHubUpdates
<1>5. SocketsOK'
  BY DEF UpdateInv, Typed, SocketsOK, SocketsTyped, Sockets, RestartHubUpdates
<1>6. SendOK'
  BY DEF UpdateInv, SendOK, InterruptRows, RestartHubUpdates
<1>7. VersionsOK'
  BY DEF UpdateInv, VersionsOK, Booted, ComesFrom, InterruptRows, Delivered,
     RestartHubUpdates
<1>8. DeliveredHasTransport'
  BY DEF UpdateInv, Typed, DeliveredHasTransport, SendOK, SocketsTyped, Sockets,
     InterruptRows, Delivered, RestartHubUpdates
<1>9. CompletedIsInstalled'
  BY DEF UpdateInv, CompletedIsInstalled, InterruptRows, RestartHubUpdates
<1> QED
  BY <1>1, <1>2, <1>3, <1>4, <1>5, <1>6, <1>7, <1>8, <1>9 DEF UpdateInv, Typed,
     DeviceTyped, RestartHubUpdates

-----------------------------------------------------------------------------
(* The device.                                                             *)

LEMMA TakeRequestKeepsInv ==
  ASSUME UpdateInv, TakeRequest
  PROVE  UpdateInv'
<1>1. SendTyped'
  BY DEF UpdateInv, Typed, SendTyped, TakeRequest
<1>2. ReportsTyped'
  BY ReportAdds DEF UpdateInv, Typed, SendTyped, Told, TakeRequest
<1>3. DeviceTyped'
  BY DEF UpdateInv, Typed, DeviceTyped, SendTyped, Stages, TakeRequest
<1> QED
  BY <1>1, <1>2, <1>3 DEF UpdateInv, Typed, RecordTyped, SocketsTyped, SocketsOK,
     SendOK, VersionsOK, DeliveredHasTransport, CompletedIsInstalled, Booted, ComesFrom,
     TakeRequest

LEMMA ProgressKeepsInv ==
  ASSUME UpdateInv, Progress
  PROVE  UpdateInv'
<1>1. ReportsTyped'
  BY ReportAdds, JobFollows DEF UpdateInv, Typed, Stages, Told, Progress
<1>2. DeviceTyped'
  BY DEF UpdateInv, Typed, DeviceTyped, Stages, Follows, NoJob, Progress
<1> QED
  BY <1>1, <1>2 DEF UpdateInv, Typed, RecordTyped, SocketsTyped, SendTyped, SocketsOK,
     SendOK, VersionsOK, DeliveredHasTransport, CompletedIsInstalled, Booted, ComesFrom,
     Progress

LEMMA RebootKeepsInv ==
  ASSUME UpdateInv, Reboot
  PROVE  UpdateInv'
<1>1. SocketsTyped'
  BY DEF UpdateInv, Typed, SocketsTyped, DeviceTyped, Images, NoJob, Reboot
<1>2. SendTyped'
  BY DEF UpdateInv, Typed, SendTyped, Reboot
<1>3. DeviceTyped'
  BY DEF UpdateInv, Typed, DeviceTyped, NoJob, Reboot
<1>4. VersionsOK'
  BY DEF UpdateInv, VersionsOK, Booted, ComesFrom, Reboot
<1>5. CompletedIsInstalled'
  BY DEF UpdateInv, CompletedIsInstalled, Reboot
<1> QED
  BY <1>1, <1>2, <1>3, <1>4, <1>5 DEF UpdateInv, Typed, RecordTyped, ReportsTyped,
     SocketsOK, SendOK, DeliveredHasTransport, Reboot

LEMMA LoseDeviceKeepsInv ==
  ASSUME UpdateInv, LoseDevice
  PROVE  UpdateInv'
<1>1. SocketsTyped'
  BY DEF UpdateInv, Typed, SocketsTyped, LoseDevice
<1>2. SendTyped'
  BY DEF UpdateInv, Typed, SendTyped, LoseDevice
<1>3. DeviceTyped'
  BY DEF UpdateInv, Typed, DeviceTyped, LoseDevice
<1> QED
  BY <1>1, <1>2, <1>3 DEF UpdateInv, Typed, RecordTyped, ReportsTyped, SocketsOK,
     SendOK, VersionsOK, DeliveredHasTransport, CompletedIsInstalled, Booted, ComesFrom,
     LoseDevice

-----------------------------------------------------------------------------
(* The specification.                                                      *)

LEMMA InitInv == UpdateInit => UpdateInv
<1> SUFFICES ASSUME UpdateInit PROVE UpdateInv
  OBVIOUS
<1>1. RecordTyped
  <2>1. [state |-> "none", socket |-> 0, from |-> Factory] \in Row
    BY UpdateAssumption DEF Row, Images
  <2> QED
    BY <2>1 DEF UpdateInit, RecordTyped
<1>2. SocketsTyped
  BY UpdateAssumption DEF UpdateInit, SocketsTyped, Images
<1>3. SendTyped
  BY UpdateAssumption DEF UpdateInit, SendTyped, SendSteps
<1>4. ReportsTyped
  <2>1. <<>> \in Seq([update : Updates, state : Told])
    OBVIOUS
  <2> QED
    BY DEF UpdateInit, ReportsTyped
<1>5. DeviceTyped
  BY DEF UpdateInit, DeviceTyped
<1>6. SocketsOK
  BY DEF UpdateInit, SocketsOK, Sockets
<1>7. SendOK /\ VersionsOK /\ DeliveredHasTransport /\ CompletedIsInstalled
  BY DEF UpdateInit, SendOK, VersionsOK, ComesFrom, DeliveredHasTransport, Delivered,
     CompletedIsInstalled
<1> QED
  BY <1>1, <1>2, <1>3, <1>4, <1>5, <1>6, <1>7 DEF UpdateInv, Typed

LEMMA NextKeepsInv == UpdateInv /\ [UpdateNext]_updateVars => UpdateInv'
<1> SUFFICES ASSUME UpdateInv, [UpdateNext]_updateVars PROVE UpdateInv'
  OBVIOUS
<1>1. CASE UNCHANGED updateVars
  BY <1>1 DEF updateVars, UpdateInv, Typed, RecordTyped, SocketsTyped, SendTyped,
     ReportsTyped,
     DeviceTyped, SocketsOK, SendOK, VersionsOK, Booted, ComesFrom, DeliveredHasTransport,
     CompletedIsInstalled
<1>2. ASSUME NEW u \in Updates,
             \/ Issue(u) \/ Expire(u) \/ CheckSend(u) \/ BindSend(u)
             \/ MarkSent(u) \/ SendRequest(u) \/ MarkTransportFailed(u)
      PROVE  UpdateInv'
  BY <1>2, IssueKeepsInv, ExpireKeepsInv, CheckSendKeepsInv, BindSendKeepsInv,
     MarkSentKeepsInv, SendRequestKeepsInv, MarkTransportFailedKeepsInv
<1>3. ASSUME NEW g \in Sockets,
             \/ Confirm(g) \/ ReadReport(g) \/ LeaveSocket(g)
             \/ UnregisterSocket(g) \/ InterruptConnection(g)
      PROVE  UpdateInv'
  BY <1>3, ConfirmKeepsInv, ReadReportKeepsInv, LeaveSocketKeepsInv,
     UnregisterSocketKeepsInv, InterruptConnectionKeepsInv
<1> QED
  BY <1>1, <1>2, <1>3, ConnectKeepsInv, RestartHubUpdatesKeepsInv, TakeRequestKeepsInv,
     ProgressKeepsInv, RebootKeepsInv, LoseDeviceKeepsInv DEF UpdateNext

(* The invariant of every send, socket, report, reboot and restart.        *)
THEOREM UpdateInvariant == UpdateSpec => []UpdateInv
<1> QED
  BY InitInv, NextKeepsInv, PTL DEF UpdateSpec

(* Every row, socket and version is of its type, and the sockets of the    *)
(* device are numbered as they were opened (UpdateTypeOK).                 *)
THEOREM UpdateTypes == UpdateSpec => []UpdateTypeOK
<1>1. UpdateInv => UpdateTypeOK
  BY DEF UpdateInv, Typed, RecordTyped, SocketsTyped, Row, Images, UpdateTypeOK
<1> QED
  BY <1>1, UpdateInvariant, PTL

(* An update is completed only when the device has booted an update to its *)
(* version, whatever arrives late, on another socket or after a restart    *)
(* (RecordDeviceState, ConfirmPostReboot, ReconcileInterrupted).           *)
THEOREM CompletedInstalled == UpdateSpec => []CompletedIsInstalled
<1> QED
  BY UpdateInvariant DEF UpdateInv

(* An update that was delivered and has not reached its reboot is not left *)
(* behind by its transport (unregister, InterruptConnection,               *)
(* MarkTransportFailed), with the two exceptions of the property.          *)
THEOREM DeliveredTransport == UpdateSpec => []DeliveredHasTransport
<1> QED
  BY UpdateInvariant DEF UpdateInv

-----------------------------------------------------------------------------
(* The Hub's own update.                                                   *)


\* The steps at which the unit is stopped, and those that have a snapshot.
StoppedSteps ==
  {"saving", "unsaved", "first", "rest", "config", "unit", "restart", "restoring", "removed"}
SavedSteps ==
  {"first", "rest", "config", "unit", "restart", "readiness", "rollback", "restoring", "removed"}
Steps == {"idle", "guarding", "stopping"} \cup StoppedSteps \cup SavedSteps

\* What is left of the manifest.
Lefts ==
  {Manifest, <<"config", "data", "unit">>, <<"data", "unit">>, <<"unit">>, <<>>}
Restored(left) ==
  CASE left = Manifest -> {}
    [] left = <<"config", "data", "unit">> -> {"binaries"}
    [] left = <<"data", "unit">> -> {"binaries", "config"}
    [] left = <<"unit">> -> {"binaries", "config", "data"}
    [] OTHER -> Paths

FilesTyped ==
  /\ files \in [Paths -> Versions] /\ before \in [Paths -> Versions]
  /\ saved \subseteq [Paths -> Versions]
StateTyped ==
  /\ hub \in {"down", "old", "new"}
  /\ result \in {"none", "refused", "stranded", "updated", "rolled back", "rollback failed"}
FlagsTyped == wanted \in BOOLEAN /\ show \in BOOLEAN /\ updated \in BOOLEAN
BoundsTyped == applied \in 0..MaxApply /\ losses \in 0..MaxPowerLoss
Tool == [step : Steps, snapshot : [Paths -> Versions], show : BOOLEAN, left : Lefts]
ToolTyped ==
  /\ tool \in Tool
  /\ tool.step = "removed" => tool.left # <<>>

(* The binaries of a site that ran have the database that they run on.  A  *)
(* loss of power within a rollback may leave them one of a later Hub.      *)
Consistent(site) ==
  /\ site["binaries"] # "old" => site["data"] = "new"
  /\ site["binaries"] = "old" /\ losses = 0 => site["data"] = "old"

(* What is up is what was installed, and systemd has it up.  Whatever       *)
(* systemd may start finds its own database.                               *)
HubOK ==
  /\ hub # "down" => wanted
  /\ hub = "old" => files["binaries"] = "old"
  /\ hub = "new" => files["binaries"] # "old" /\ files["data"] = "new"
  /\ wanted /\ losses = 0 /\ files["binaries"] = "old" => files["data"] = "old"

(* Apply changes the paths while the unit is stopped, from a snapshot of    *)
(* what it found, and asks for readiness when all of them are new.         *)
ToolOK ==
  /\ tool.step # "idle" => result = "none"
  /\ tool.step \in {"guarding", "stopping"} => hub # "down" /\ files = before
  /\ tool.step \in StoppedSteps => hub = "down" /\ ~wanted
  /\ tool.step \in {"saving", "unsaved"} => files = before /\ Consistent(files)
  /\ tool.step \in SavedSteps =>
       /\ tool.snapshot = before /\ Consistent(before)
       /\ updated \/ Untouched \in saved
  /\ tool.step \in {"config", "unit", "restart", "readiness"} => files["binaries"] = "new"
  /\ tool.step \in {"restart", "readiness"} => files["unit"] = "new"
  /\ tool.step \in {"restoring", "removed"} =>
       \A p \in Restored(tool.left) : files[p] = tool.snapshot[p]

HubTyped == FilesTyped /\ StateTyped /\ FlagsTyped /\ BoundsTyped /\ ToolTyped
HubUpdateInv ==
  HubTyped /\ HubOK /\ ToolOK /\ ResultIsTrue /\ OldSiteIsKept

-----------------------------------------------------------------------------
(* The operators of the update.                                            *)

LEMMA BootsMoves ==
  ASSUME FilesTyped, Boots
  PROVE  /\ wanted' = TRUE /\ hub' \in {"down", "old", "new"} /\ files' \in [Paths -> Versions]
         /\ \A p \in Paths \ {"data"} : files'[p] = files[p]
         /\ files["binaries"] = "old" => files' = files
         /\ files["data"] = "new" => files' = files
         /\ hub' = "old" => files["binaries"] = "old"
         /\ hub' = "new" => files["binaries"] # "old" /\ files'["data"] = "new"
  BY DEF FilesTyped, Boots, Paths, Versions

LEMMA EnterMoves ==
  ASSUME ToolTyped, NEW step \in Steps, step # "removed" \/ tool.left # <<>>, Enter(step)
  PROVE  /\ ToolTyped'
         /\ tool'.step = step /\ tool'.snapshot = tool.snapshot
         /\ tool'.show = tool.show /\ tool'.left = tool.left
  BY DEF ToolTyped, Tool, Enter

LEMMA ReturnMoves ==
  ASSUME NEW what, Return(what)
  PROVE  /\ ToolTyped' /\ tool'.step = "idle" /\ result' = what
<1>1. Untouched \in [Paths -> Versions]
  BY DEF Untouched, Versions
<1>2. <<>> \in Lefts /\ "idle" \in Steps
  BY DEF Lefts, Steps
<1>3. NoTool \in Tool
  BY <1>1, <1>2 DEF NoTool, Tool
<1> QED
  BY <1>3 DEF Return, ToolTyped, NoTool

LEMMA ManifestSteps ==
  ASSUME NEW left \in Lefts, left # <<>>
  PROVE  /\ Head(left) \in Paths /\ Tail(left) \in Lefts
         /\ Restored(Tail(left)) = Restored(left) \cup {Head(left)}
         /\ Restored(left) \subseteq Paths /\ Head(left) \notin Restored(left)
<1>1. CASE left = Manifest
  BY <1>1 DEF Lefts, Manifest, Restored, Paths
<1>2. CASE left = <<"config", "data", "unit">>
  BY <1>2 DEF Lefts, Restored, Paths
<1>3. CASE left = <<"data", "unit">>
  BY <1>3 DEF Lefts, Restored, Paths
<1>4. CASE left = <<"unit">>
  BY <1>4 DEF Lefts, Manifest, Restored, Paths
<1> QED
  BY <1>1, <1>2, <1>3, <1>4 DEF Lefts

LEMMA ManifestEnds == Restored(<<>>) = Paths /\ Restored(Manifest) = {} /\ Manifest \in Lefts
  BY DEF Restored, Manifest, Lefts

-----------------------------------------------------------------------------
(* Apply.                                                                  *)

LEMMA BeginApplyKeepsInv ==
  ASSUME HubUpdateInv, BeginApply
  PROVE  HubUpdateInv'
<1>1. FilesTyped'
  BY DEF HubUpdateInv, HubTyped, FilesTyped, BeginApply
<1>2. StateTyped'
  BY EnterMoves, ReturnMoves, BootsMoves DEF HubUpdateInv, HubTyped, FilesTyped,
     StateTyped, Steps, StoppedSteps, SavedSteps, BeginApply
<1>3. BoundsTyped'
  BY HubUpdateAssumption DEF HubUpdateInv, HubTyped, BoundsTyped, BeginApply
<1>4. ToolTyped'
  BY EnterMoves, ReturnMoves DEF HubUpdateInv, HubTyped, Steps, BeginApply
<1>5. ToolOK'
  BY EnterMoves, ReturnMoves DEF HubUpdateInv, HubTyped, Steps, StoppedSteps, SavedSteps,
     ToolOK, BeginApply
<1>6. ResultIsTrue'
  <2>1. result' \in {"refused", "none"} /\ files' = files /\ before' = files
    BY ReturnMoves DEF BeginApply
  <2> QED
    BY <2>1 DEF ResultIsTrue
<1> QED
  BY <1>1, <1>2, <1>3, <1>4, <1>5, <1>6 DEF HubUpdateInv, HubTyped, FlagsTyped, HubOK,
     OldSiteIsKept, BeginApply

LEMMA GuardShowKeepsInv ==
  ASSUME HubUpdateInv, GuardShow
  PROVE  HubUpdateInv'
<1>1. StateTyped'
  BY EnterMoves, ReturnMoves, BootsMoves DEF HubUpdateInv, HubTyped, FilesTyped,
     StateTyped, Steps, StoppedSteps, SavedSteps, GuardShow
<1>2. ToolTyped'
  BY EnterMoves, ReturnMoves DEF HubUpdateInv, HubTyped, Steps, GuardShow
<1>3. ToolOK'
  BY EnterMoves, ReturnMoves DEF HubUpdateInv, HubTyped, Steps, StoppedSteps, SavedSteps,
     ToolOK, GuardShow
<1>4. ResultIsTrue'
  <2>1. result' \in {"refused", "none"} /\ files' = files /\ before' = files
    BY ReturnMoves DEF HubUpdateInv, ToolOK, GuardShow
  <2> QED
    BY <2>1 DEF ResultIsTrue
<1> QED
  BY <1>1, <1>2, <1>3, <1>4 DEF HubUpdateInv, HubTyped, FilesTyped, FlagsTyped,
     BoundsTyped, HubOK, OldSiteIsKept, GuardShow

LEMMA StopForSnapshotKeepsInv ==
  ASSUME HubUpdateInv, StopForSnapshot
  PROVE  HubUpdateInv'
<1>1. StateTyped'
  BY EnterMoves, ReturnMoves, BootsMoves DEF HubUpdateInv, HubTyped, FilesTyped,
     StateTyped, Steps, StoppedSteps, SavedSteps, StopForSnapshot
<1>2. FlagsTyped'
  BY DEF HubUpdateInv, HubTyped, FlagsTyped, StopForSnapshot
<1>3. ToolTyped'
  BY EnterMoves, ReturnMoves DEF HubUpdateInv, HubTyped, Steps, StoppedSteps,
     StopForSnapshot
<1>4. HubOK'
  BY DEF HubUpdateInv, HubOK, StopForSnapshot
<1>5. ToolOK'
  <2>1. CASE Enter("saving")
    <3>1. tool'.step = "saving"
      BY <2>1, EnterMoves DEF HubUpdateInv, HubTyped, Steps, StoppedSteps
    <3>2. hub' = "down" /\ wanted' = FALSE /\ UNCHANGED result
      BY <3>1, ReturnMoves DEF StopForSnapshot
    <3>3. Consistent(files)
      BY DEF HubUpdateInv, HubTyped, StateTyped, HubOK, ToolOK, Consistent, StopForSnapshot
    <3> QED
      BY <3>1, <3>2, <3>3 DEF HubUpdateInv, ToolOK, SavedSteps, Consistent,
         StopForSnapshot
  <2>2. CASE Return("refused")
    BY <2>2, ReturnMoves DEF ToolOK, StoppedSteps, SavedSteps
  <2> QED
    BY <2>1, <2>2 DEF StopForSnapshot
<1>6. ResultIsTrue'
  <2>1. result' \in {"refused", "none"} /\ files' = files /\ before' = files
    BY ReturnMoves DEF HubUpdateInv, ToolOK, StopForSnapshot
  <2> QED
    BY <2>1 DEF ResultIsTrue
<1>7. OldSiteIsKept'
  BY DEF HubUpdateInv, OldSiteIsKept, StopForSnapshot
<1> QED
  BY <1>1, <1>2, <1>3, <1>4, <1>5, <1>6, <1>7 DEF HubUpdateInv, HubTyped, FilesTyped,
     BoundsTyped, StopForSnapshot

LEMMA CreateSnapshotKeepsInv ==
  ASSUME HubUpdateInv, CreateSnapshot
  PROVE  HubUpdateInv'
<1>1. FilesTyped'
  BY DEF HubUpdateInv, HubTyped, FilesTyped, CreateSnapshot
<1>2. ToolTyped'
  <2>1. "unsaved" \in Steps /\ "first" \in Steps
    BY DEF Steps, StoppedSteps
  <2>2. tool \in Tool /\ files \in [Paths -> Versions] /\ show \in BOOLEAN
    BY DEF HubUpdateInv, HubTyped, ToolTyped, FilesTyped, FlagsTyped
  <2>3. [tool EXCEPT !.step = "first", !.snapshot = files, !.show = show] \in Tool
    BY <2>1, <2>2 DEF Tool
  <2>4. [tool EXCEPT !.step = "first", !.snapshot = files, !.show = show].step = "first"
    BY DEF Tool
  <2> QED
    BY <2>1, <2>3, <2>4, EnterMoves DEF HubUpdateInv, HubTyped, ToolTyped, CreateSnapshot
<1>3. ToolOK'
  <2>1. CASE Enter("unsaved") /\ UNCHANGED saved
    <3>1. tool'.step = "unsaved" /\ tool'.snapshot = tool.snapshot
      BY <2>1, EnterMoves DEF HubUpdateInv, HubTyped, Steps, StoppedSteps
    <3> QED
      BY <3>1 DEF HubUpdateInv, ToolOK, StoppedSteps, SavedSteps, Consistent,
         CreateSnapshot
  <2>2. CASE /\ saved' = saved \cup {files}
             /\ tool' = [tool EXCEPT !.step = "first", !.snapshot = files, !.show = show]
    <3>1. tool'.step = "first" /\ tool'.snapshot = files
      BY <2>2
    <3>2. updated \/ Untouched \in saved'
      BY <2>2 DEF HubUpdateInv, OldSiteIsKept
    <3>3. files = before /\ Consistent(before)
      BY DEF HubUpdateInv, ToolOK, CreateSnapshot
    <3> QED
      BY <3>1, <3>2 DEF HubUpdateInv, ToolOK, StoppedSteps, Consistent, CreateSnapshot
  <2> QED
    BY <2>1, <2>2 DEF CreateSnapshot
<1>4. OldSiteIsKept'
  BY DEF HubUpdateInv, OldSiteIsKept, CreateSnapshot
<1> QED
  BY <1>1, <1>2, <1>3, <1>4 DEF HubUpdateInv, HubTyped, StateTyped, FlagsTyped,
     BoundsTyped, HubOK, ResultIsTrue, CreateSnapshot

LEMMA StartUnchangedKeepsInv ==
  ASSUME HubUpdateInv, StartUnchanged
  PROVE  HubUpdateInv'
<1>1. FilesTyped'
  BY BootsMoves DEF HubUpdateInv, HubTyped, FilesTyped, StartUnchanged
<1>2. StateTyped'
  BY EnterMoves, ReturnMoves, BootsMoves DEF HubUpdateInv, HubTyped, FilesTyped,
     StateTyped, Steps, StoppedSteps, SavedSteps, StartUnchanged
<1>3. FlagsTyped'
  BY BootsMoves DEF HubUpdateInv, HubTyped, FlagsTyped, StartUnchanged
<1>4. ToolTyped'
  BY ReturnMoves DEF StartUnchanged
<1>5. HubOK'
  BY BootsMoves DEF HubUpdateInv, HubTyped, HubOK, ToolOK, Consistent, StartUnchanged
<1>6. ToolOK'
  BY ReturnMoves DEF StoppedSteps, SavedSteps, ToolOK, StartUnchanged
<1>7. ResultIsTrue'
  <2>1. result' \in {"stranded", "refused"} /\ before' = files
    BY ReturnMoves DEF HubUpdateInv, ToolOK, StartUnchanged
  <2> QED
    BY <2>1, BootsMoves DEF HubUpdateInv, HubTyped, ResultIsTrue, Paths, StartUnchanged
<1>8. OldSiteIsKept'
  <2>1. files = Untouched => files' = files
    BY BootsMoves DEF HubUpdateInv, HubTyped, Untouched, Paths, StartUnchanged
  <2>2. hub' = "old" /\ losses' = 0 => files'["data"] = "old"
    BY BootsMoves DEF HubUpdateInv, HubTyped, ToolOK, Consistent, StartUnchanged
  <2> QED
    BY <2>1, <2>2 DEF HubUpdateInv, OldSiteIsKept, StartUnchanged
<1> QED
  BY <1>1, <1>2, <1>3, <1>4, <1>5, <1>6, <1>7, <1>8 DEF HubUpdateInv, HubTyped,
     BoundsTyped, StartUnchanged

LEMMA InstallFirstKeepsInv ==
  ASSUME HubUpdateInv, InstallFirst
  PROVE  HubUpdateInv'
<1>1. FilesTyped'
  BY DEF HubUpdateInv, HubTyped, FilesTyped, Versions, InstallFirst, Installs
<1>2. ToolTyped'
  BY EnterMoves DEF HubUpdateInv, HubTyped, Steps, SavedSteps, InstallFirst, Installs
<1>3. HubOK'
  BY DEF HubUpdateInv, StoppedSteps, HubOK, ToolOK, InstallFirst, Installs
<1>4. ToolOK'
  BY EnterMoves DEF HubUpdateInv, HubTyped, Steps, StoppedSteps, SavedSteps, ToolOK,
     Consistent, InstallFirst, Installs
<1>5. ResultIsTrue'
  BY DEF HubUpdateInv, ToolOK, ResultIsTrue, InstallFirst, Installs
<1>6. OldSiteIsKept'
  BY DEF HubUpdateInv, StoppedSteps, SavedSteps, ToolOK, OldSiteIsKept, InstallFirst,
     Installs
<1> QED
  BY <1>1, <1>2, <1>3, <1>4, <1>5, <1>6 DEF HubUpdateInv, HubTyped, StateTyped,
     FlagsTyped, BoundsTyped, InstallFirst, Installs

LEMMA InstallRestKeepsInv ==
  ASSUME HubUpdateInv, InstallRest
  PROVE  HubUpdateInv'
<1>1. FilesTyped'
  BY DEF HubUpdateInv, HubTyped, FilesTyped, Versions, InstallRest, Installs
<1>2. ToolTyped'
  BY EnterMoves DEF HubUpdateInv, HubTyped, Steps, SavedSteps, InstallRest, Installs
<1>3. HubOK'
  BY DEF HubUpdateInv, StoppedSteps, HubOK, ToolOK, InstallRest, Installs
<1>4. ToolOK'
  BY EnterMoves DEF HubUpdateInv, HubTyped, Steps, StoppedSteps, SavedSteps, FilesTyped,
     ToolOK, Consistent, Paths, InstallRest, Installs
<1>5. ResultIsTrue'
  BY DEF HubUpdateInv, ToolOK, ResultIsTrue, InstallRest, Installs
<1>6. OldSiteIsKept'
  BY DEF HubUpdateInv, StoppedSteps, SavedSteps, ToolOK, OldSiteIsKept, InstallRest,
     Installs
<1> QED
  BY <1>1, <1>2, <1>3, <1>4, <1>5, <1>6 DEF HubUpdateInv, HubTyped, StateTyped,
     FlagsTyped, BoundsTyped, InstallRest, Installs

LEMMA InstallConfigKeepsInv ==
  ASSUME HubUpdateInv, InstallConfig
  PROVE  HubUpdateInv'
<1>1. FilesTyped'
  BY DEF HubUpdateInv, HubTyped, FilesTyped, Versions, InstallConfig, Installs
<1>2. ToolTyped'
  BY EnterMoves DEF HubUpdateInv, HubTyped, Steps, SavedSteps, InstallConfig, Installs
<1>3. HubOK'
  BY DEF HubUpdateInv, StoppedSteps, HubOK, ToolOK, InstallConfig, Installs
<1>4. ToolOK'
  BY EnterMoves DEF HubUpdateInv, HubTyped, Steps, StoppedSteps, SavedSteps, FilesTyped,
     ToolOK, Consistent, Paths, InstallConfig, Installs
<1>5. ResultIsTrue'
  BY DEF HubUpdateInv, ToolOK, ResultIsTrue, InstallConfig, Installs
<1>6. OldSiteIsKept'
  BY DEF HubUpdateInv, ToolOK, HubOK, OldSiteIsKept, Paths, Untouched, InstallConfig,
     Installs
<1> QED
  BY <1>1, <1>2, <1>3, <1>4, <1>5, <1>6 DEF HubUpdateInv, HubTyped, StateTyped,
     FlagsTyped, BoundsTyped, InstallConfig, Installs

LEMMA InstallUnitKeepsInv ==
  ASSUME HubUpdateInv, InstallUnit
  PROVE  HubUpdateInv'
<1>1. FilesTyped'
  BY DEF HubUpdateInv, HubTyped, FilesTyped, Versions, InstallUnit, Installs
<1>2. ToolTyped'
  BY EnterMoves DEF HubUpdateInv, HubTyped, Steps, SavedSteps, InstallUnit, Installs
<1>3. HubOK'
  BY DEF HubUpdateInv, StoppedSteps, HubOK, ToolOK, InstallUnit, Installs
<1>4. ToolOK'
  BY EnterMoves DEF HubUpdateInv, HubTyped, Steps, StoppedSteps, SavedSteps, FilesTyped,
     ToolOK, Consistent, Paths, InstallUnit, Installs
<1>5. ResultIsTrue'
  BY DEF HubUpdateInv, ToolOK, ResultIsTrue, InstallUnit, Installs
<1>6. OldSiteIsKept'
  BY DEF HubUpdateInv, ToolOK, HubOK, OldSiteIsKept, Paths, Untouched, InstallUnit,
     Installs
<1> QED
  BY <1>1, <1>2, <1>3, <1>4, <1>5, <1>6 DEF HubUpdateInv, HubTyped, StateTyped,
     FlagsTyped, BoundsTyped, InstallUnit, Installs

LEMMA RestartCandidateKeepsInv ==
  ASSUME HubUpdateInv, RestartCandidate
  PROVE  HubUpdateInv'
<1>1. FilesTyped'
  BY BootsMoves DEF HubUpdateInv, HubTyped, FilesTyped, RestartCandidate
<1>2. StateTyped'
  BY EnterMoves, ReturnMoves, BootsMoves DEF HubUpdateInv, HubTyped, FilesTyped,
     StateTyped, Steps, StoppedSteps, SavedSteps, RestartCandidate
<1>3. FlagsTyped'
  BY BootsMoves DEF HubUpdateInv, HubTyped, FlagsTyped, RestartCandidate
<1>4. ToolTyped'
  BY EnterMoves DEF HubUpdateInv, HubTyped, Steps, SavedSteps, RestartCandidate
<1>5. HubOK'
  BY BootsMoves DEF HubUpdateInv, HubTyped, HubOK, ToolOK, Paths, RestartCandidate
<1>6. ToolOK'
  <2>1. tool'.step \in {"readiness", "rollback"} /\ tool'.snapshot = tool.snapshot
    BY EnterMoves DEF HubUpdateInv, HubTyped, Steps, SavedSteps, RestartCandidate
  <2>2. files'["binaries"] = files["binaries"] /\ files'["unit"] = files["unit"]
    BY BootsMoves DEF HubUpdateInv, HubTyped, Paths, RestartCandidate
  <2> QED
    BY <2>1, <2>2 DEF HubUpdateInv, ToolOK, StoppedSteps, SavedSteps, Consistent,
       RestartCandidate
<1>7. ResultIsTrue'
  BY DEF HubUpdateInv, ToolOK, ResultIsTrue, RestartCandidate
<1>8. OldSiteIsKept'
  BY BootsMoves DEF HubUpdateInv, HubTyped, ToolOK, OldSiteIsKept, Paths, Untouched,
     RestartCandidate
<1> QED
  BY <1>1, <1>2, <1>3, <1>4, <1>5, <1>6, <1>7, <1>8 DEF HubUpdateInv, HubTyped,
     BoundsTyped, RestartCandidate

LEMMA JudgeKeepsInv ==
  ASSUME HubUpdateInv, Judge
  PROVE  HubUpdateInv'
<1>1. StateTyped'
  BY EnterMoves, ReturnMoves, BootsMoves DEF HubUpdateInv, HubTyped, FilesTyped,
     StateTyped, Steps, StoppedSteps, SavedSteps, Judge
<1>2. FlagsTyped'
  BY DEF HubUpdateInv, HubTyped, FlagsTyped, Judge
<1>3. ToolTyped'
  BY EnterMoves, ReturnMoves DEF HubUpdateInv, HubTyped, Steps, SavedSteps, Judge
<1>4. ToolOK'
  BY EnterMoves, ReturnMoves DEF HubUpdateInv, HubTyped, Steps, StoppedSteps, SavedSteps,
     ToolOK, Consistent, Judge
<1>5. ResultIsTrue'
  <2>1. result' = "updated" => hub # "down"
    BY DEF HubUpdateInv, ToolOK, Judge
  <2>2. hub # "down" => hub = "new" /\ files["data"] = "new"
    BY DEF HubUpdateInv, HubTyped, StateTyped, HubOK, ToolOK, Judge
  <2>3. files["binaries"] = "new" /\ files["unit"] = "new"
    BY DEF HubUpdateInv, ToolOK, Judge
  <2>4. result' \in {"updated", "none"} /\ UNCHANGED <<hub, files>>
    BY ReturnMoves DEF HubUpdateInv, ToolOK, Judge
  <2> QED
    BY <2>1, <2>2, <2>3, <2>4 DEF ResultIsTrue, Paths
<1>6. OldSiteIsKept'
  BY DEF HubUpdateInv, OldSiteIsKept, Judge
<1> QED
  BY <1>1, <1>2, <1>3, <1>4, <1>5, <1>6 DEF HubUpdateInv, HubTyped, FilesTyped,
     BoundsTyped, HubOK, Judge

-----------------------------------------------------------------------------
(* The rollback.                                                           *)

LEMMA StopCandidateKeepsInv ==
  ASSUME HubUpdateInv, StopCandidate
  PROVE  HubUpdateInv'
<1>1. StateTyped'
  BY EnterMoves, ReturnMoves, BootsMoves DEF HubUpdateInv, HubTyped, FilesTyped,
     StateTyped, Steps, StoppedSteps, SavedSteps, StopCandidate
<1>2. FlagsTyped'
  BY EnterMoves, ReturnMoves, BootsMoves DEF HubUpdateInv, HubTyped, FlagsTyped,
     FilesTyped, ToolTyped, Tool, Steps, StoppedSteps, SavedSteps, StopCandidate
<1>3. ToolTyped'
  <2>1. "restoring" \in Steps
    BY DEF Steps, StoppedSteps
  <2>2. [tool EXCEPT !.step = "restoring", !.left = Manifest] \in Tool
    BY <2>1, ManifestEnds DEF HubUpdateInv, HubTyped, ToolTyped, Tool
  <2>3. [tool EXCEPT !.step = "restoring", !.left = Manifest].step # "removed"
    BY DEF Tool
  <2> QED
    BY <2>2, <2>3, ReturnMoves DEF ToolTyped, StopCandidate
<1>4. HubOK'
  <2>1. CASE hub' = "down" /\ wanted' = FALSE
    BY <2>1 DEF HubOK
  <2>2. CASE UNCHANGED <<hub, wanted>>
    BY <2>2 DEF HubUpdateInv, HubOK, StopCandidate
  <2> QED
    BY <2>1, <2>2 DEF StopCandidate
<1>5. ToolOK'
  <2>1. CASE Return("rollback failed")
    BY <2>1, ReturnMoves DEF ToolOK, StoppedSteps, SavedSteps
  <2>2. CASE /\ hub' = "down" /\ wanted' = FALSE /\ UNCHANGED result
             /\ tool' = [tool EXCEPT !.step = "restoring", !.left = Manifest]
    <3>1. tool'.step = "restoring" /\ tool'.left = Manifest /\ tool'.snapshot = tool.snapshot
      BY <2>2
    <3> QED
      BY <2>2, <3>1, ManifestEnds DEF HubUpdateInv, ToolOK, StoppedSteps, SavedSteps,
         Consistent,
         StopCandidate
  <2> QED
    BY <2>1, <2>2 DEF StopCandidate
<1>6. ResultIsTrue'
  <2>1. result' \in {"rollback failed", "none"}
    BY ReturnMoves DEF HubUpdateInv, ToolOK, StopCandidate
  <2> QED
    BY <2>1 DEF ResultIsTrue
<1>7. OldSiteIsKept'
  BY EnterMoves, ReturnMoves, BootsMoves DEF HubUpdateInv, HubTyped, Steps, StoppedSteps,
     SavedSteps, FilesTyped, ToolOK, HubOK, OldSiteIsKept, Paths, Untouched,
     StopCandidate
<1> QED
  BY <1>1, <1>2, <1>3, <1>4, <1>5, <1>6, <1>7 DEF HubUpdateInv, HubTyped, FilesTyped,
     BoundsTyped, StopCandidate

LEMMA RemovePathKeepsInv ==
  ASSUME HubUpdateInv, RemovePath
  PROVE  HubUpdateInv'
<1>1. FilesTyped'
  BY DEF HubUpdateInv, HubTyped, FilesTyped, Versions, RemovePath
<1>2. StateTyped'
  BY EnterMoves, ReturnMoves, BootsMoves DEF HubUpdateInv, HubTyped, FilesTyped,
     StateTyped, Steps, StoppedSteps, SavedSteps, RemovePath
<1>3. ToolTyped'
  BY EnterMoves, ReturnMoves, BootsMoves DEF HubUpdateInv, HubTyped, Steps, StoppedSteps,
     SavedSteps, RemovePath
<1>4. HubOK'
  BY EnterMoves, ReturnMoves, BootsMoves DEF HubUpdateInv, HubTyped, Steps, StoppedSteps,
     SavedSteps, FilesTyped, StateTyped, HubOK, ToolOK, Consistent, Paths, RemovePath
<1>5. ToolOK'
  <2>1. CASE Return("rollback failed")
    BY <2>1, ReturnMoves DEF ToolOK, StoppedSteps, SavedSteps
  <2>2. CASE /\ files' = [files EXCEPT ![Head(tool.left)] = "missing"]
             /\ Enter("removed") /\ UNCHANGED result
    <3>1. tool.left \in Lefts /\ tool.left # <<>>
      BY DEF HubUpdateInv, HubTyped, ToolTyped, Tool, RemovePath
    <3>2. tool'.step = "removed" /\ tool'.left = tool.left /\ tool'.snapshot = tool.snapshot
      BY <2>2, <3>1, EnterMoves DEF HubUpdateInv, HubTyped, Steps, StoppedSteps
    <3>3. \A p \in Restored(tool.left) : files'[p] = files[p]
      BY <2>2, <3>1, ManifestSteps
    <3> QED
      BY <2>2, <3>2, <3>3 DEF HubUpdateInv, ToolOK, StoppedSteps, SavedSteps, Consistent,
         RemovePath
  <2> QED
    BY <2>1, <2>2 DEF RemovePath
<1>6. ResultIsTrue'
  <2>1. result' \in {"rollback failed", "none"}
    BY ReturnMoves DEF HubUpdateInv, ToolOK, RemovePath
  <2> QED
    BY <2>1 DEF ResultIsTrue
<1>7. OldSiteIsKept'
  BY EnterMoves, ReturnMoves, BootsMoves DEF HubUpdateInv, HubTyped, Steps, StoppedSteps,
     SavedSteps, FilesTyped, ToolOK, HubOK, OldSiteIsKept, Paths, Untouched,
     RemovePath
<1> QED
  BY <1>1, <1>2, <1>3, <1>4, <1>5, <1>6, <1>7 DEF HubUpdateInv, HubTyped, FlagsTyped,
     BoundsTyped, RemovePath

LEMMA PromotePathKeepsInv ==
  ASSUME HubUpdateInv, PromotePath
  PROVE  HubUpdateInv'
<1>1. FilesTyped'
  <2>1. tool.left \in Lefts /\ tool.left # <<>> /\ tool.snapshot \in [Paths -> Versions]
    BY DEF HubUpdateInv, HubTyped, ToolTyped, Tool, PromotePath
  <2>2. tool.snapshot[Head(tool.left)] \in Versions
    BY <2>1, ManifestSteps
  <2> QED
    BY <2>2 DEF HubUpdateInv, HubTyped, FilesTyped, PromotePath
<1>2. StateTyped'
  BY EnterMoves, ReturnMoves, BootsMoves DEF HubUpdateInv, HubTyped, FilesTyped,
     StateTyped, Steps, StoppedSteps, SavedSteps, PromotePath
<1>3. FlagsTyped'
  BY EnterMoves, ReturnMoves, BootsMoves DEF HubUpdateInv, HubTyped, FlagsTyped,
     FilesTyped, ToolTyped, Tool, Steps, StoppedSteps, SavedSteps, PromotePath
<1>4. ToolTyped'
  <2>1. tool.left \in Lefts /\ tool.left # <<>> /\ tool \in Tool
    BY DEF HubUpdateInv, HubTyped, ToolTyped, Tool, PromotePath
  <2>2. Tail(tool.left) \in Lefts /\ "restoring" \in Steps
    BY <2>1, ManifestSteps DEF Steps, StoppedSteps
  <2>3. [tool EXCEPT !.step = "restoring", !.left = Tail(@)] \in Tool
    BY <2>1, <2>2 DEF Tool
  <2>4. [tool EXCEPT !.step = "restoring", !.left = Tail(@)].step = "restoring"
    BY DEF Tool
  <2> QED
    BY <2>3, <2>4, ReturnMoves DEF ToolTyped, PromotePath
<1>5. HubOK'
  BY EnterMoves, ReturnMoves, BootsMoves DEF HubUpdateInv, HubTyped, Steps, StoppedSteps,
     SavedSteps, FilesTyped, StateTyped, HubOK, ToolOK, Consistent, Paths, PromotePath
<1>6. ToolOK'
  <2>1. CASE Return("rollback failed")
    BY <2>1, ReturnMoves DEF ToolOK, StoppedSteps, SavedSteps
  <2>2. CASE /\ files' = [files EXCEPT ![Head(tool.left)] = tool.snapshot[Head(tool.left)]]
             /\ tool' = [tool EXCEPT !.step = "restoring", !.left = Tail(@)]
             /\ UNCHANGED result
    <3>1. tool.left \in Lefts /\ tool.left # <<>> /\ tool \in Tool
      BY DEF HubUpdateInv, HubTyped, ToolTyped, Tool, PromotePath
    <3>2. /\ tool'.step = "restoring" /\ tool'.left = Tail(tool.left)
          /\ tool'.snapshot = tool.snapshot
      BY <2>2
    <3>3. \A p \in Restored(tool.left) : files[p] = tool.snapshot[p]
      BY DEF HubUpdateInv, ToolOK, PromotePath
    <3>4. \A p \in Restored(tool'.left) : files'[p] = tool'.snapshot[p]
      BY <2>2, <3>1, <3>3, ManifestSteps DEF HubUpdateInv, HubTyped, FilesTyped
    <3> QED
      BY <2>2, <3>2, <3>4 DEF HubUpdateInv, ToolOK, StoppedSteps, SavedSteps, Consistent,
         PromotePath
  <2> QED
    BY <2>1, <2>2 DEF PromotePath
<1>7. ResultIsTrue'
  <2>1. result' \in {"rollback failed", "none"}
    BY ReturnMoves DEF HubUpdateInv, ToolOK, PromotePath
  <2> QED
    BY <2>1 DEF ResultIsTrue
<1>8. OldSiteIsKept'
  BY EnterMoves, ReturnMoves, BootsMoves DEF HubUpdateInv, HubTyped, Steps, StoppedSteps,
     SavedSteps, FilesTyped, ToolOK, HubOK, OldSiteIsKept, Paths, Untouched,
     PromotePath
<1> QED
  BY <1>1, <1>2, <1>3, <1>4, <1>5, <1>6, <1>7, <1>8 DEF HubUpdateInv, HubTyped,
     BoundsTyped, PromotePath

LEMMA StartRestoredKeepsInv ==
  ASSUME HubUpdateInv, StartRestored
  PROVE  HubUpdateInv'
<1>1. FilesTyped'
  BY EnterMoves, ReturnMoves, BootsMoves DEF HubUpdateInv, HubTyped, FilesTyped,
     ToolTyped, Tool, Paths, Versions, Steps, StoppedSteps, SavedSteps, StartRestored
<1>2. StateTyped'
  BY EnterMoves, ReturnMoves, BootsMoves DEF HubUpdateInv, HubTyped, FilesTyped,
     StateTyped, Steps, StoppedSteps, SavedSteps, StartRestored
<1>3. FlagsTyped'
  BY EnterMoves, ReturnMoves, BootsMoves DEF HubUpdateInv, HubTyped, FlagsTyped,
     FilesTyped, ToolTyped, Tool, Steps, StoppedSteps, SavedSteps, StartRestored
<1>4. ToolTyped'
  BY EnterMoves, ReturnMoves, BootsMoves DEF HubUpdateInv, HubTyped, Steps, StoppedSteps,
     SavedSteps, StartRestored
<1>5. HubOK'
  <2>1. files = before /\ Consistent(files)
    <3>1. /\ tool.snapshot = before /\ Consistent(before)
          /\ \A p \in Restored(tool.left) : files[p] = tool.snapshot[p]
      BY DEF HubUpdateInv, ToolOK, SavedSteps, StartRestored
    <3>2. \A p \in Paths : files[p] = before[p]
      BY <3>1, ManifestEnds DEF StartRestored
    <3> QED
      BY <3>1, <3>2 DEF HubUpdateInv, HubTyped, FilesTyped
  <2> QED
    BY <2>1, BootsMoves DEF HubUpdateInv, HubTyped, Consistent, HubOK, Paths, StartRestored
<1>6. ToolOK'
  BY EnterMoves, ReturnMoves, BootsMoves DEF HubUpdateInv, HubTyped, Steps, StoppedSteps,
     SavedSteps, FilesTyped, HubOK, ToolOK, Consistent, Paths, StartRestored
<1>7. ResultIsTrue'
  <2>1. files = before /\ Consistent(files)
    <3>1. /\ tool.snapshot = before /\ Consistent(before)
          /\ \A p \in Restored(tool.left) : files[p] = tool.snapshot[p]
      BY DEF HubUpdateInv, ToolOK, SavedSteps, StartRestored
    <3>2. \A p \in Paths : files[p] = before[p]
      BY <3>1, ManifestEnds DEF StartRestored
    <3> QED
      BY <3>1, <3>2 DEF HubUpdateInv, HubTyped, FilesTyped
  <2>2. files' = files /\ before' = before
    BY <2>1, BootsMoves DEF HubUpdateInv, HubTyped, Consistent, StartRestored
  <2>3. result' = "rollback failed" \/ (result' = "rolled back" /\ hub' # "down")
    BY ReturnMoves DEF StartRestored
  <2> QED
    BY <2>1, <2>2, <2>3 DEF ResultIsTrue
<1>8. OldSiteIsKept'
  <2>1. files = before /\ Consistent(files)
    <3>1. /\ tool.snapshot = before /\ Consistent(before)
          /\ \A p \in Restored(tool.left) : files[p] = tool.snapshot[p]
      BY DEF HubUpdateInv, ToolOK, SavedSteps, StartRestored
    <3>2. \A p \in Paths : files[p] = before[p]
      BY <3>1, ManifestEnds DEF StartRestored
    <3> QED
      BY <3>1, <3>2 DEF HubUpdateInv, HubTyped, FilesTyped
  <2>2. files' = files
    BY <2>1, BootsMoves DEF HubUpdateInv, HubTyped, Consistent, StartRestored
  <2>3. hub' = "old" /\ losses' = 0 => files'["data"] = "old"
    BY <2>1, BootsMoves DEF HubUpdateInv, HubTyped, Consistent, StartRestored
  <2> QED
    BY <2>2, <2>3 DEF HubUpdateInv, OldSiteIsKept, StartRestored
<1> QED
  BY <1>1, <1>2, <1>3, <1>4, <1>5, <1>6, <1>7, <1>8 DEF HubUpdateInv, HubTyped,
     BoundsTyped, StartRestored

-----------------------------------------------------------------------------
(* Around the tool.                                                        *)

LEMMA ToggleActiveShowKeepsInv ==
  ASSUME HubUpdateInv, ToggleActiveShow
  PROVE  HubUpdateInv'
<1>1. FlagsTyped'
  BY DEF HubUpdateInv, HubTyped, FlagsTyped, ToggleActiveShow
<1> QED
  BY <1>1 DEF HubUpdateInv, HubTyped, FilesTyped, StateTyped, BoundsTyped, ToolTyped,
     HubOK, ToolOK, ResultIsTrue, OldSiteIsKept, Consistent, ToggleActiveShow

LEMMA LosePowerKeepsInv ==
  ASSUME HubUpdateInv, LosePower
  PROVE  HubUpdateInv'
<1>1. FilesTyped'
  BY BootsMoves DEF HubUpdateInv, HubTyped, FilesTyped, LosePower
<1>2. StateTyped'
  BY EnterMoves, ReturnMoves, BootsMoves DEF HubUpdateInv, HubTyped, FilesTyped,
     StateTyped, Steps, StoppedSteps, SavedSteps, LosePower
<1>3. FlagsTyped'
  BY BootsMoves DEF HubUpdateInv, HubTyped, FlagsTyped, LosePower
<1>4. BoundsTyped'
  BY HubUpdateAssumption DEF HubUpdateInv, HubTyped, BoundsTyped, LosePower
<1>5. ToolTyped'
  BY ReturnMoves DEF LosePower
<1>6. HubOK'
  <2>1. losses' # 0
    BY DEF HubUpdateInv, HubTyped, BoundsTyped, LosePower
  <2> QED
    BY <2>1, BootsMoves DEF HubUpdateInv, HubTyped, HubOK, Paths, LosePower
<1>7. ToolOK'
  BY ReturnMoves DEF StoppedSteps, SavedSteps, ToolOK, LosePower
<1>8. ResultIsTrue'
  <2>1. result' = "none"
    BY ReturnMoves DEF LosePower
  <2> QED
    BY <2>1 DEF ResultIsTrue
<1>9. OldSiteIsKept'
  <2>1. losses' # 0
    BY DEF HubUpdateInv, HubTyped, BoundsTyped, LosePower
  <2>2. files = Untouched => files' = files
    BY BootsMoves DEF HubUpdateInv, HubTyped, Untouched, Paths, LosePower
  <2> QED
    BY <2>1, <2>2 DEF HubUpdateInv, OldSiteIsKept, LosePower
<1> QED
  BY <1>1, <1>2, <1>3, <1>4, <1>5, <1>6, <1>7, <1>8, <1>9 DEF HubUpdateInv, HubTyped

LEMMA AutoRestartKeepsInv ==
  ASSUME HubUpdateInv, AutoRestart
  PROVE  HubUpdateInv'
<1>1. FilesTyped'
  BY BootsMoves DEF HubUpdateInv, HubTyped, FilesTyped, AutoRestart
<1>2. StateTyped'
  BY EnterMoves, ReturnMoves, BootsMoves DEF HubUpdateInv, HubTyped, FilesTyped,
     StateTyped, Steps, StoppedSteps, SavedSteps, AutoRestart
<1>3. FlagsTyped'
  BY BootsMoves DEF HubUpdateInv, HubTyped, FlagsTyped, AutoRestart
<1>4. HubOK'
  BY EnterMoves, ReturnMoves, BootsMoves DEF HubUpdateInv, HubTyped, Steps, StoppedSteps,
     SavedSteps, FilesTyped, StateTyped, HubOK, ToolOK, Consistent, Paths, AutoRestart
<1>5. ToolOK'
  BY BootsMoves DEF HubUpdateInv, HubTyped, StoppedSteps, ToolOK, Consistent, Paths,
     AutoRestart
<1>6. ResultIsTrue'
  BY EnterMoves, ReturnMoves, BootsMoves DEF HubUpdateInv, HubTyped, Steps, StoppedSteps,
     SavedSteps, FilesTyped, StateTyped, ToolOK, HubOK, ResultIsTrue, Paths,
     Consistent, AutoRestart
<1>7. OldSiteIsKept'
  BY BootsMoves DEF HubUpdateInv, HubTyped, HubOK, OldSiteIsKept, Paths, Untouched,
     AutoRestart
<1> QED
  BY <1>1, <1>2, <1>3, <1>4, <1>5, <1>6, <1>7 DEF HubUpdateInv, HubTyped, BoundsTyped,
     ToolTyped, AutoRestart

-----------------------------------------------------------------------------
(* The specification.                                                      *)

LEMMA HubUpdateInvInitially == HubUpdateInit => HubUpdateInv
<1> SUFFICES ASSUME HubUpdateInit PROVE HubUpdateInv
  OBVIOUS
<1>1. FilesTyped /\ StateTyped
  BY DEF HubUpdateInit, FilesTyped, StateTyped, Untouched, Versions
<1>2. FlagsTyped
  BY DEF HubUpdateInit, FlagsTyped
<1>3. BoundsTyped
  BY HubUpdateAssumption DEF HubUpdateInit, BoundsTyped
<1>4. ToolTyped /\ tool.step = "idle"
  <2>1. "idle" \in Steps /\ <<>> \in Lefts /\ Untouched \in [Paths -> Versions]
    BY DEF Steps, Lefts, Untouched, Versions
  <2> QED
    BY <2>1 DEF HubUpdateInit, NoTool, ToolTyped, Tool
<1>5. HubOK
  BY DEF HubUpdateInit, HubOK, Untouched, Paths
<1>6. ToolOK
  BY <1>4 DEF ToolOK, StoppedSteps, SavedSteps
<1>7. ResultIsTrue /\ OldSiteIsKept
  BY DEF HubUpdateInit, ResultIsTrue, OldSiteIsKept, Untouched, Paths
<1> QED
  BY <1>1, <1>2, <1>3, <1>4, <1>5, <1>6, <1>7 DEF HubUpdateInv, HubTyped

LEMMA HubUpdateInvStep == HubUpdateInv /\ [HubUpdateNext]_hubUpdateVars => HubUpdateInv'
<1> SUFFICES ASSUME HubUpdateInv, [HubUpdateNext]_hubUpdateVars PROVE HubUpdateInv'
  OBVIOUS
<1>1. CASE BeginApply \/ GuardShow \/ StopForSnapshot \/ CreateSnapshot \/ StartUnchanged
  BY <1>1, BeginApplyKeepsInv, GuardShowKeepsInv, StopForSnapshotKeepsInv,
     CreateSnapshotKeepsInv, StartUnchangedKeepsInv
<1>2. CASE InstallFirst \/ InstallRest \/ InstallConfig \/ InstallUnit
  BY <1>2, InstallFirstKeepsInv, InstallRestKeepsInv, InstallConfigKeepsInv,
     InstallUnitKeepsInv
<1>3. CASE RestartCandidate \/ Judge
  BY <1>3, RestartCandidateKeepsInv, JudgeKeepsInv
<1>4. CASE StopCandidate \/ RemovePath \/ PromotePath \/ StartRestored
  BY <1>4, StopCandidateKeepsInv, RemovePathKeepsInv, PromotePathKeepsInv,
     StartRestoredKeepsInv
<1>5. CASE ToggleActiveShow \/ LosePower \/ AutoRestart
  BY <1>5, ToggleActiveShowKeepsInv, LosePowerKeepsInv, AutoRestartKeepsInv
<1>6. CASE UNCHANGED hubUpdateVars
  <2>1. HubTyped'
    BY <1>6 DEF hubUpdateVars, HubUpdateInv, HubTyped, FilesTyped, StateTyped, FlagsTyped,
       BoundsTyped, ToolTyped
  <2>2. HubOK' /\ ResultIsTrue' /\ OldSiteIsKept'
    BY <1>6 DEF hubUpdateVars, HubUpdateInv, HubOK, ResultIsTrue, OldSiteIsKept
  <2>3. ToolOK'
    BY <1>6 DEF hubUpdateVars, HubUpdateInv, ToolOK, Consistent
  <2> QED
    BY <2>1, <2>2, <2>3 DEF HubUpdateInv
<1> QED
  BY <1>1, <1>2, <1>3, <1>4, <1>5, <1>6 DEF HubUpdateNext

(* Every reachable state of an update satisfies the invariant.             *)
THEOREM HubUpdateInvariant == HubUpdateSpec => []HubUpdateInv
  BY HubUpdateInvInitially, HubUpdateInvStep, PTL DEF HubUpdateSpec

(* The paths, the Hub and the tool stay in their ranges.                   *)
THEOREM HubUpdateTypes == HubUpdateSpec => []HubUpdateTypeOK
<1>1. HubUpdateInv => HubUpdateTypeOK
  BY DEF HubUpdateInv, HubTyped, FilesTyped, StateTyped, FlagsTyped, BoundsTyped,
     HubUpdateTypeOK
<1> QED
  BY <1>1, HubUpdateInvariant, PTL

(* What Apply returns is what it has done, whichever step failed (Apply,    *)
(* rollback, Restore).                                                     *)
THEOREM ResultTrue == HubUpdateSpec => []ResultIsTrue
<1>1. HubUpdateInv => ResultIsTrue
  BY DEF HubUpdateInv
<1> QED
  BY <1>1, HubUpdateInvariant, PTL

(* What the site had is in place or in a complete snapshot until an update *)
(* succeeds, and a Hub runs on a database of its own (Create, Restore).    *)
THEOREM OldSiteKept == HubUpdateSpec => []OldSiteIsKept
<1>1. HubUpdateInv => OldSiteIsKept
  BY DEF HubUpdateInv
<1> QED
  BY <1>1, HubUpdateInvariant, PTL
=============================================================================
