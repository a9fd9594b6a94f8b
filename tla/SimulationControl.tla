--------------------------- MODULE SimulationControl ---------------------------
(***************************************************************************)
(* Simulations of a Project (internal/simulationcontrol, simulator,        *)
(* simulationinput; store/simulation_*.go and session_foundation.go): they *)
(* start at the beginning, for a range of Cues or from a checkpoint, and   *)
(* their work reaches the Digital Twin where that of a SHOW reaches the    *)
(* devices.  The handlers hold no lock in common, so their reads and       *)
(* writes interleave, and a direct output of a Route finds the Session it  *)
(* belongs to when it is executed.                                         *)
(*                                                                         *)
(* The twin of a Session is the set of Cues that acted on it; its faults   *)
(* only choose a result.  Of a SHOW there are the start, the Cues and the  *)
(* exit, without what RuntimeControl has.  One snapshot is published.      *)
(***************************************************************************)
EXTENDS Integers, Sequences, FiniteSets

CONSTANTS
  Clients,        \* who start, capture and restore
  NumCues,        \* of the snapshot, in order
  Ranges,         \* of Cues that clients ask for
  MaxSessions,    \* bounds: rows;
  MaxRequests     \*   and starts, captures, restores, restarts, GOs and inputs

\* A snapshot that is started has a Cue, and ranges are of its Cues.
ASSUME SimulationAssumption ==
  /\ NumCues \in Nat \ {0} /\ MaxSessions \in Nat
  /\ Ranges \subseteq (1..NumCues) \X (1..NumCues)

VARIABLES
  sessions,     \* rows
  checkpoints,  \* rows
  twin,         \* Session -> the Cues that acted on its twin
  client,       \* client -> its request
  goes,         \* GO requests
  inputs,       \* simulated inputs whose Route has a direct output
  asked         \* how many requests and restarts there were

simulationVars == <<sessions, checkpoints, twin, client, goes, inputs, asked>>

Cues == 1..NumCues
None == 0   \* no Cue, no checkpoint
Ids == DOMAIN sessions
Active == {s \in Ids : sessions[s].status = "ACTIVE"}
Simulated == {s \in Ids : sessions[s].type = "SIMULATION"}
Idle == [pc |-> "idle"]

SimulationInit ==
  /\ sessions = <<>> /\ checkpoints = <<>> /\ goes = <<>> /\ inputs = <<>>
  /\ twin = [s \in 1..MaxSessions |-> {}]
  /\ client = [c \in Clients |-> Idle]
  /\ asked = 0

Ask == asked < MaxRequests /\ asked' = asked + 1

-----------------------------------------------------------------------------
(* Starts.                                                                 *)

\* The start positions a client may ask for.
Positions ==
  {[kind |-> "BEGINNING", from |-> None, to |-> None, checkpoint |-> None]}
    \cup {[kind |-> "RANGE", from |-> r[1], to |-> r[2], checkpoint |-> None] : r \in Ranges}
    \cup {[kind |-> "CHECKPOINT", from |-> None, to |-> None, checkpoint |-> k] :
            k \in DOMAIN checkpoints}

\* No Session is active when it is looked up.
BeginStart(c, type, p) ==
  /\ client[c].pc = "idle" /\ Ask /\ Active = {}
  /\ type = "SHOW" => p.kind = "BEGINNING"
  /\ client' = [client EXCEPT ![c] = [pc |-> "create", type |-> type, at |-> p]]
  /\ UNCHANGED <<sessions, checkpoints, twin, goes, inputs>>

NewSession(type, p) ==
  LET k == p.checkpoint IN
  [type |-> type, status |-> "ACTIVE", kind |-> p.kind, from |-> p.from, to |-> p.to,
   current |-> IF k = None THEN None ELSE checkpoints[k].current,
   next |-> CASE p.kind = "BEGINNING" -> 1 [] p.kind = "RANGE" -> p.from
              [] p.kind = "CHECKPOINT" -> checkpoints[k].next,
   desired |-> k, verified |-> None,
   confirm |-> p.kind = "RANGE" /\ p.from # 1]

\* The row, and the binding of its twin; a start from a checkpoint restores it
\* before it answers.
CreateSession(c) ==
  LET j == client[c]
      s == Len(sessions) + 1
  IN  /\ j.pc = "create" /\ s <= MaxSessions
      /\ sessions' = Append(sessions, NewSession(j.type, j.at))
      /\ client' = [client EXCEPT ![c] =
           IF j.at.kind = "CHECKPOINT"
           THEN [pc |-> "restore", session |-> s, checkpoint |-> j.at.checkpoint]
           ELSE Idle]
      /\ UNCHANGED <<checkpoints, twin, goes, inputs, asked>>

\* An operator ends it, or the exit of a Show; or its start, which could not
\* write its event, aborts it: that write may come at any time.
EndSession(s, status) ==
  /\ s \in Active /\ sessions' = [sessions EXCEPT ![s].status = status]
  /\ UNCHANGED <<checkpoints, twin, client, goes, inputs, asked>>

ConfirmStartState(s) ==
  /\ s \in Active \cap Simulated /\ sessions[s].confirm
  /\ sessions' = [sessions EXCEPT ![s].confirm = FALSE, ![s].desired = None,
                                  ![s].verified = None]
  /\ UNCHANGED <<checkpoints, twin, client, goes, inputs, asked>>

ResetTwin(s) ==
  /\ s \in Active \cap Simulated /\ twin[s] # {}
  /\ twin' = [twin EXCEPT ![s] = {}]
  /\ UNCHANGED <<sessions, checkpoints, client, goes, inputs, asked>>

-----------------------------------------------------------------------------
(* Checkpoints.                                                            *)

\* The Session is read, and its twin copied.
BeginCapture(c, s) ==
  /\ client[c].pc = "idle" /\ Ask /\ s \in Active \cap Simulated
  /\ client' = [client EXCEPT ![c] = [pc |-> "capture", session |-> s, twin |-> twin[s]]]
  /\ UNCHANGED <<sessions, checkpoints, twin, goes, inputs>>

\* The Session is read again, for its position, and the checkpoint written.
CreateCheckpoint(c) ==
  LET j == client[c] IN
  /\ j.pc = "capture"
  /\ checkpoints' = IF j.session \notin Active THEN checkpoints
                    ELSE Append(checkpoints, [source |-> j.session, twin |-> j.twin,
                                              current |-> sessions[j.session].current,
                                              next |-> sessions[j.session].next])
  /\ client' = [client EXCEPT ![c] = Idle]
  /\ UNCHANGED <<sessions, twin, goes, inputs, asked>>

\* The Session and the checkpoint are read, and the twin for a rollback.
Restoring(s, k, start) ==
  IF s \notin Active THEN Idle
  ELSE [pc |-> "install", session |-> s, checkpoint |-> k, start |-> start, previous |-> twin[s]]

BeginRestore(c, s, k) ==
  /\ client[c].pc = "idle" /\ Ask /\ s \in Active \cap Simulated
  /\ client' = [client EXCEPT ![c] = Restoring(s, k, FALSE)]
  /\ UNCHANGED <<sessions, checkpoints, twin, goes, inputs>>

RestoreAtStart(c) ==
  /\ client[c].pc = "restore"
  /\ client' = [client EXCEPT ![c] = Restoring(client[c].session, client[c].checkpoint, TRUE)]
  /\ UNCHANGED <<sessions, checkpoints, twin, goes, inputs, asked>>

InstallTwin(c) ==
  LET j == client[c] IN
  /\ j.pc = "install"
  /\ twin' = [twin EXCEPT ![j.session] = checkpoints[j.checkpoint].twin]
  /\ client' = [client EXCEPT ![c].pc = "mark"]
  /\ UNCHANGED <<sessions, checkpoints, goes, inputs, asked>>

\* The row takes the position of the checkpoint.
MarkRestored(c) ==
  LET j == client[c]
      k == checkpoints[j.checkpoint]
  IN  /\ j.pc = "mark" /\ j.session \in Active
      /\ sessions' = [sessions EXCEPT ![j.session] =
           [@ EXCEPT !.current = k.current, !.next = k.next, !.desired = j.checkpoint,
                     !.verified = j.checkpoint, !.confirm = FALSE]]
      /\ client' = [client EXCEPT ![c] = Idle]
      /\ UNCHANGED <<checkpoints, twin, goes, inputs, asked>>

\* The Session has ended, or the write fails: the twin is put back, and a start
\* aborted.
RollBackTwin(c) ==
  LET j == client[c] IN
  /\ j.pc = "mark"
  /\ twin' = [twin EXCEPT ![j.session] = j.previous]
  /\ sessions' = IF j.start /\ j.session \in Active
                 THEN [sessions EXCEPT ![j.session].status = "ABORTED"] ELSE sessions
  /\ client' = [client EXCEPT ![c] = Idle]
  /\ UNCHANGED <<checkpoints, goes, inputs, asked>>

-----------------------------------------------------------------------------
(* GO.                                                                     *)

MayGo(s) ==
  sessions[s].type = "SIMULATION" =>
    /\ ~sessions[s].confirm
    /\ sessions[s].kind = "CHECKPOINT" =>
         sessions[s].verified # None /\ sessions[s].verified = sessions[s].desired

\* A request for the next Cue, or for one by name.
Go(s, wanted) ==
  /\ Ask /\ s \in Active /\ MayGo(s)
  /\ goes' = Append(goes,
       [session |-> s, pc |-> "admitted", cue |-> None, row |-> 0, to |-> "none",
        wanted |-> IF wanted = None /\ sessions[s].current = None
                   THEN sessions[s].next ELSE wanted])
  /\ UNCHANGED <<sessions, checkpoints, twin, client, inputs>>

\* The rows of a Session's Cues, in the order of their insertion, and those that run.
Inserted(s) == {h \in DOMAIN goes : goes[h].session = s /\ goes[h].row # 0}
Running(s) == {h \in Inserted(s) : goes[h].pc \notin {"ended", "finished"}}

\* The engine has one launch at a time, and reads the Session again; a
\* simulation runs one Cue at a time.
LaunchBegins(g) ==
  LET s == goes[g].session
      cue == IF goes[g].wanted # None THEN goes[g].wanted ELSE sessions[s].current + 1
      accepted == s \in Active /\ (s \in Simulated => Running(s) = {}) /\ cue \in Cues
  IN  /\ goes[g].pc = "admitted" /\ \A h \in DOMAIN goes : goes[h].pc \notin {"read", "inserted"}
      /\ goes' = [goes EXCEPT ![g].pc = IF accepted THEN "read" ELSE "ended",
                              ![g].cue = IF accepted THEN cue ELSE None, ![g].wanted = None]
      /\ UNCHANGED <<sessions, checkpoints, twin, client, inputs, asked>>

Within(s, cue) ==
  sessions[s].kind = "RANGE" => sessions[s].from <= cue /\ cue <= sessions[s].to

\* A range refuses the Cues outside.
InsertCue(g) ==
  LET s == goes[g].session IN
  /\ goes[g].pc = "read"
  /\ goes' = [goes EXCEPT ![g] =
       IF Within(s, goes[g].cue) THEN [@ EXCEPT !.pc = "inserted", !.row = Cardinality(Inserted(s)) + 1]
       ELSE [@ EXCEPT !.pc = "ended", !.cue = None]]
  /\ UNCHANGED <<sessions, checkpoints, twin, client, inputs, asked>>

\* What the triggers make of the row when Cue g ends: the Cue launched last takes
\* the Session on, and the last Cue of a range completes it.
Newest(g) == \A h \in Inserted(goes[g].session) : goes[h].row <= goes[g].row
Progressed(g) ==
  LET cue == goes[g].cue
      row == sessions[goes[g].session]
      over == row.kind = "RANGE" /\ row.status = "ACTIVE" /\ row.to = cue
      status == IF over THEN "COMPLETED" ELSE row.status
      next == IF row.kind = "RANGE" /\ status = "COMPLETED" THEN None
              ELSE IF Newest(g) THEN (IF cue < NumCues THEN cue + 1 ELSE None) ELSE row.next
  IN  [row EXCEPT !.status = status, !.next = next, !.current = IF Newest(g) THEN cue ELSE @]

\* The Session takes the Cue, or has ended: the Cue fails.
SelectCue(g) ==
  LET s == goes[g].session IN
  /\ goes[g].pc = "inserted"
  /\ IF s \in Active
     THEN /\ sessions' = [sessions EXCEPT ![s].current = goes[g].cue]
          /\ goes' = [goes EXCEPT ![g].pc = "launched"]
     ELSE /\ sessions' = [sessions EXCEPT ![s] = Progressed(g)]
          /\ goes' = [goes EXCEPT ![g].pc = "finished"]
  /\ UNCHANGED <<checkpoints, twin, client, inputs, asked>>

\* The executor of Session s.
Executor(s) ==
  IF s \notin Active THEN "none" ELSE IF s \in Simulated THEN "twin" ELSE "devices"

\* An Action belongs to the Session of its Cue.
ExecuteAction(g) ==
  /\ goes[g].pc = "launched"
  /\ LET s == goes[g].session IN
     /\ twin' = IF Executor(s) = "twin" THEN [twin EXCEPT ![s] = @ \cup {goes[g].cue}] ELSE twin
     /\ goes' = [goes EXCEPT ![g].pc = "done", ![g].to = Executor(s)]
  /\ UNCHANGED <<sessions, checkpoints, client, inputs, asked>>

\* The Cue ends, cancelled or not.
FinishCue(g, cancelled) ==
  /\ goes[g].pc = "done"
  /\ goes' = [goes EXCEPT ![g].pc = IF cancelled THEN "ended" ELSE "finished"]
  /\ sessions' = IF cancelled THEN sessions
                 ELSE [sessions EXCEPT ![goes[g].session] = Progressed(g)]
  /\ UNCHANGED <<checkpoints, twin, client, inputs, asked>>

-----------------------------------------------------------------------------
(* A simulated input whose Route has a direct output.                      *)

Inject(s) ==
  /\ Ask /\ s \in Active \cap Simulated
  /\ inputs' = Append(inputs, [pc |-> "delayed", owner |-> None, simulating |-> FALSE, to |-> "none"])
  /\ UNCHANGED <<sessions, checkpoints, twin, client, goes>>

\* Faulty variant: the oldest active Session is taken for the owner.
FirstOwner == CHOOSE s \in Active : \A r \in Active : s <= r
OwnersGuessed == IF Active = {} THEN {} ELSE {FirstOwner}

\* The active Sessions of the snapshot that may own the output.
Owners == Active

\* The delay of the Route is over: the output belongs to the one Session that is
\* active now, and to none if there are more.
ResolveOwner(i) ==
  /\ inputs[i].pc = "delayed"
  /\ inputs' = [inputs EXCEPT ![i] =
       IF Cardinality(Owners) = 1
       THEN [@ EXCEPT !.pc = "owned", !.owner = CHOOSE s \in Owners : TRUE,
                      !.simulating = Active \cap Simulated # {}]
       ELSE [@ EXCEPT !.pc = "ended"]]
  /\ UNCHANGED <<sessions, checkpoints, twin, client, goes, asked>>

ExecuteOutput(i) ==
  /\ inputs[i].pc = "owned"
  /\ inputs' = [inputs EXCEPT ![i].pc = "ended", ![i].owner = None,
                                ![i].to = Executor(inputs[i].owner)]
  /\ UNCHANGED <<sessions, checkpoints, twin, client, goes, asked>>

-----------------------------------------------------------------------------

\* The newest checkpoint that was taken of s.
Newer(s) ==
  LET own == {k \in DOMAIN checkpoints : checkpoints[k].source = s} IN
  IF own = {} THEN None ELSE CHOOSE k \in own : \A j \in own : j <= k

\* Every Session ends, and a simulation names the checkpoint to start again from.
RestartSimulations ==
  /\ Ask
  /\ sessions' = [s \in Ids |->
       LET k == IF s \in Simulated THEN Newer(s) ELSE None IN
       IF s \notin Active THEN sessions[s]
       ELSE [sessions[s] EXCEPT !.status = "ABORTED", !.desired = k, !.verified = None,
                                !.confirm = k # None]]
  /\ twin' = [s \in DOMAIN twin |-> {}]
  /\ client' = [c \in Clients |-> Idle]
  /\ goes' = [g \in DOMAIN goes |-> [goes[g] EXCEPT !.pc = "ended"]]
  /\ inputs' = [i \in DOMAIN inputs |-> [inputs[i] EXCEPT !.pc = "ended"]]
  /\ UNCHANGED checkpoints

SimulationNext ==
  \/ \E c \in Clients :
       \/ \E type \in {"SIMULATION", "SHOW"}, p \in Positions : BeginStart(c, type, p)
       \/ CreateSession(c)
       \/ \E s \in Ids : BeginCapture(c, s) \/ \E k \in DOMAIN checkpoints : BeginRestore(c, s, k)
       \/ CreateCheckpoint(c) \/ RestoreAtStart(c) \/ InstallTwin(c) \/ MarkRestored(c)
       \/ RollBackTwin(c)
  \/ \E s \in Ids :
       \/ \E status \in {"COMPLETED", "ABORTED"} : EndSession(s, status)
       \/ ConfirmStartState(s) \/ ResetTwin(s) \/ Inject(s)
       \/ \E wanted \in Cues \cup {None} : Go(s, wanted)
  \/ \E g \in DOMAIN goes :
       \/ LaunchBegins(g) \/ InsertCue(g) \/ SelectCue(g) \/ ExecuteAction(g)
       \/ \E cancelled \in BOOLEAN : FinishCue(g, cancelled)
  \/ \E i \in DOMAIN inputs : ResolveOwner(i) \/ ExecuteOutput(i)
  \/ RestartSimulations

SimulationSpec == SimulationInit /\ [][SimulationNext]_simulationVars

-----------------------------------------------------------------------------

SimulationTypeOK ==
  /\ \A s \in Ids : /\ sessions[s].status \in {"ACTIVE", "COMPLETED", "ABORTED"}
                    /\ sessions[s].current \in Cues \cup {None}
                    /\ sessions[s].next \in Cues \cup {None}
  /\ \A g \in DOMAIN goes :
       goes[g].pc \in {"admitted", "read", "inserted", "launched", "done", "ended", "finished"}
  /\ \A c \in Clients : client[c].pc \in
       {"idle", "create", "capture", "restore", "install", "mark"}

(* A simulation stays within itself, whatever starts, ends and is restored   *)
(* beside it: an Action of its Cues never reaches a device, nor does a       *)
(* direct output whose Session was looked up while a simulation was active,  *)
(* not even when a racing start had made two Sessions active; a range lets   *)
(* no Cue outside it act, and is over for good once its last has ended,      *)
(* although a restore may have moved the Session elsewhere; and no GO is     *)
(* under way in a simulation whose start position was not confirmed, or not  *)
(* restored (SessionExecutor, the range triggers, simulationcontrol.Go).     *)
SimulationIsContained ==
  /\ \A g \in DOMAIN goes :
       /\ goes[g].to = "devices" => goes[g].session \notin Simulated
       /\ goes[g].to # "none" => Within(goes[g].session, goes[g].cue)
  /\ \A i \in DOMAIN inputs : inputs[i].to = "devices" => ~inputs[i].simulating
  /\ \A g \in DOMAIN goes :
       LET row == sessions[goes[g].session] IN
       goes[g].pc = "finished" /\ row.kind = "RANGE" /\ goes[g].cue = row.to =>
         row.status # "ACTIVE" /\ (row.status = "COMPLETED" => row.next = None)
  /\ \A g \in DOMAIN goes : goes[g].session \in Active /\ goes[g].pc # "ended" => MayGo(goes[g].session)
=============================================================================
