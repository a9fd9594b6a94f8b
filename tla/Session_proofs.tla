---------------------------- MODULE Session_proofs ----------------------------
(***************************************************************************)
(* Proofs about what advances a Session: SimulationControl, for any number *)
(* of clients, Cues, Sessions and requests; Timecode, for any bindings,    *)
(* frames, seeks, operators and restarts; CueActions, for any linked Cues, *)
(* Actions and failed writes; TimecodeFrames, for any rate and instant.    *)
(***************************************************************************)
EXTENDS SimulationControl, Timecode, TimecodeFrames, CueActions, FiniteSetTheorems,
        NaturalsInduction, WellFoundedInduction, TLAPS

(* SimulationControl. *)

Place == 0..NumCues
Types == {"SIMULATION", "SHOW"}
StartKinds == {"BEGINNING", "RANGE", "CHECKPOINT"}
Where == {"none", "twin", "devices"}
Row ==
  [type : Types, status : {"ACTIVE", "COMPLETED", "ABORTED"}, kind : StartKinds,
   from : Place, to : Place, current : Place, next : Place,
   desired : Nat, verified : Nat, confirm : BOOLEAN]
Checkpoint == [source : Nat, twin : SUBSET Cues, current : Place, next : Place]
Position == [kind : StartKinds, from : Place, to : Place, checkpoint : Nat]
Job ==
  [pc : {"idle"}]
    \cup [pc : {"create"}, type : Types, at : Position]
    \cup [pc : {"capture"}, session : Nat, twin : SUBSET Cues]
    \cup [pc : {"restore"}, session : Nat, checkpoint : Nat]
    \cup [pc : {"install", "mark"}, session : Nat, checkpoint : Nat, start : BOOLEAN,
          previous : SUBSET Cues]
GoRow ==
  [session : Nat, cue : Place, row : Nat, to : Where, wanted : Place,
   pc : {"admitted", "read", "inserted", "launched", "done", "ended", "finished"}]
Input ==
  [pc : {"delayed", "owned", "ended"}, owner : Nat, simulating : BOOLEAN, to : Where]

Typed ==
  /\ sessions \in Seq(Row) /\ Len(sessions) <= MaxSessions
  /\ checkpoints \in Seq(Checkpoint)
  /\ twin \in [1..MaxSessions -> SUBSET Cues]
  /\ client \in [Clients -> Job]
  /\ goes \in Seq(GoRow)
  /\ inputs \in Seq(Input)

(* What a client works on exists, and a start names a checkpoint exactly     *)
(* when it is from one.                                                      *)
JobOK(c) ==
  /\ client[c].pc \in {"capture", "restore", "install", "mark"} => client[c].session \in Ids
  /\ client[c].pc \in {"restore", "install", "mark"} => client[c].checkpoint \in DOMAIN checkpoints
  /\ client[c].pc = "create" =>
       LET p == client[c].at IN
       IF p.kind = "CHECKPOINT" THEN p.checkpoint \in DOMAIN checkpoints ELSE p.checkpoint = None

(* An active Session waits for a confirmation only if it runs a range.       *)
RowOK(s) == s \in Active /\ sessions[s].confirm => sessions[s].kind = "RANGE"

(* The last Cue of the range of s has ended.                                 *)
RangeOver(s) ==
  /\ sessions[s].status # "ACTIVE"
  /\ sessions[s].status = "COMPLETED" => sessions[s].next = None

(* A Cue is chosen before it is inserted and within its range from then on,  *)
(* nothing of it is executed before it is launched, and it acts where its    *)
(* Session does.                                                             *)
GoOK(g) ==
  LET s == goes[g].session
      pc == goes[g].pc
  IN  /\ s \in Ids
      /\ pc \in {"read", "inserted", "launched"} => goes[g].cue \in Cues
      /\ pc \in {"admitted", "read", "inserted", "launched"} => goes[g].to = "none"
      /\ pc \in {"inserted", "launched", "done", "finished"} \/ goes[g].to # "none" =>
           Within(s, goes[g].cue)
      /\ goes[g].to = "devices" => sessions[s].type # "SIMULATION"
      /\ pc = "finished" /\ sessions[s].kind = "RANGE" /\ goes[g].cue = sessions[s].to =>
           RangeOver(s)
      /\ s \in Active /\ pc # "ended" => MayGo(s)

(* The owner of an output is known to be a simulation or not.                *)
InputOK(i) ==
  /\ inputs[i].pc = "delayed" => inputs[i].to = "none"
  /\ inputs[i].pc = "owned" =>
       /\ inputs[i].owner \in Ids
       /\ inputs[i].simulating <=> sessions[inputs[i].owner].type = "SIMULATION"
  /\ inputs[i].to = "devices" => ~inputs[i].simulating

SimulationInv ==
  /\ Typed
  /\ \A c \in Clients : JobOK(c)
  /\ \A s \in Ids : RowOK(s)
  /\ \A g \in DOMAIN goes : GoOK(g)
  /\ \A i \in DOMAIN inputs : InputOK(i)

(* What no step but a start or a restart does to a row.                      *)
RowKept(s) ==
  /\ sessions'[s].type = sessions[s].type /\ sessions'[s].kind = sessions[s].kind
  /\ sessions'[s].from = sessions[s].from /\ sessions'[s].to = sessions[s].to
  /\ sessions'[s].status = "ACTIVE" => sessions[s].status = "ACTIVE"
  /\ sessions'[s].status = "ACTIVE" /\ MayGo(s) => MayGo(s)'
  /\ sessions[s].kind = "RANGE" /\ RangeOver(s) => RangeOver(s)'
  /\ RowOK(s) => RowOK(s)'

Grows ==
  /\ Ids \subseteq Ids' /\ DOMAIN checkpoints \subseteq DOMAIN checkpoints'
  /\ \A s \in Ids : RowKept(s)
  /\ \A s \in Ids' \ Ids : RowOK(s)'

USE DEF Place, Types, StartKinds, Where, None, Cues, Ids

-----------------------------------------------------------------------------
(* Rows that are kept, keep what is known of the others.                   *)

LEMMA GoKept ==
  ASSUME Grows, NEW g \in DOMAIN goes, GoOK(g), g \in DOMAIN goes', goes'[g] = goes[g]
  PROVE  GoOK(g)'
<1>1. goes[g].session \in Ids /\ goes'[g].session \in Ids'
  BY DEF Grows, GoOK
<1> DEFINE s == goes[g].session
<1>2. RowKept(s)
  BY <1>1 DEF Grows
<1>3. /\ Within(s, goes[g].cue) => Within(s, goes[g].cue)'
      /\ s \in Active' => s \in Active
  BY <1>1, <1>2 DEF RowKept, Within, Active
<1>4. s \in Active' /\ MayGo(s) => MayGo(s)'
  BY <1>1, <1>2 DEF RowKept, Active
<1> QED BY <1>1, <1>2, <1>3, <1>4 DEF GoOK, RowKept, Within

LEMMA InputKept ==
  ASSUME Grows, NEW i \in DOMAIN inputs, InputOK(i), i \in DOMAIN inputs',
         inputs'[i] = inputs[i]
  PROVE  InputOK(i)'
  BY DEF Grows, RowKept, InputOK

LEMMA JobKept ==
  ASSUME Grows, NEW c \in Clients, JobOK(c), client'[c] = client[c]
  PROVE  JobOK(c)'
  BY DEF Grows, JobOK

LEMMA SameRows ==
  ASSUME UNCHANGED <<sessions, checkpoints>>
  PROVE  Grows
  BY DEF Grows, RowKept, RowOK, RangeOver, MayGo, Active

\* A step that is about the job of one client.
LEMMA JobStep ==
  ASSUME SimulationInv, Grows, Typed', NEW c \in Clients, JobOK(c)',
         \A d \in Clients \ {c} : client'[d] = client[d],
         UNCHANGED <<goes, inputs>>
  PROVE  SimulationInv'
<1>1. \A d \in Clients : JobOK(d)'
  BY JobKept DEF SimulationInv
<1>2. \A s \in Ids' : RowOK(s)'
  BY DEF SimulationInv, Grows, RowKept
<1>3. \A g \in DOMAIN goes' : GoOK(g)'
  BY GoKept DEF SimulationInv
<1>4. \A i \in DOMAIN inputs' : InputOK(i)'
  BY InputKept DEF SimulationInv
<1> QED BY <1>1, <1>2, <1>3, <1>4 DEF SimulationInv

\* A step that is about one GO, which it may have begun.
LEMMA GoStep ==
  ASSUME SimulationInv, Grows, Typed', NEW g \in DOMAIN goes', GoOK(g)',
         \A h \in DOMAIN goes' \ {g} : h \in DOMAIN goes /\ goes'[h] = goes[h],
         UNCHANGED <<client, inputs>>
  PROVE  SimulationInv'
<1>1. \A d \in Clients : JobOK(d)'
  BY JobKept DEF SimulationInv
<1>2. \A s \in Ids' : RowOK(s)'
  BY DEF SimulationInv, Grows, RowKept
<1>3. \A h \in DOMAIN goes' : GoOK(h)'
  BY GoKept DEF SimulationInv
<1>4. \A i \in DOMAIN inputs' : InputOK(i)'
  BY InputKept DEF SimulationInv
<1> QED BY <1>1, <1>2, <1>3, <1>4 DEF SimulationInv

\* A step that is about one input, which it may have made.
LEMMA InputStep ==
  ASSUME SimulationInv, Typed', NEW i \in DOMAIN inputs', InputOK(i)',
         \A j \in DOMAIN inputs' \ {i} : j \in DOMAIN inputs /\ inputs'[j] = inputs[j],
         UNCHANGED <<sessions, checkpoints, client, goes>>
  PROVE  SimulationInv'
<1>1. Grows
  BY SameRows
<1>2. \A d \in Clients : JobOK(d)'
  BY <1>1, JobKept DEF SimulationInv
<1>3. \A s \in Ids' : RowOK(s)'
  BY <1>1 DEF SimulationInv, Grows, RowKept
<1>4. \A h \in DOMAIN goes' : GoOK(h)'
  BY <1>1, GoKept DEF SimulationInv
<1>5. \A j \in DOMAIN inputs' : InputOK(j)'
  BY <1>1, InputKept DEF SimulationInv
<1> QED BY <1>2, <1>3, <1>4, <1>5 DEF SimulationInv

-----------------------------------------------------------------------------
(* The newest checkpoint of a Session.                                     *)

LEMMA LeastExists ==
  ASSUME NEW T, T \subseteq Nat, T # {}
  PROVE  \E x \in T : \A y \in T : x <= y
<1>1. IsWellFoundedOn(OpToRel(<, Nat), Nat)
  BY NatLessThanWellFounded
<1>2. PICK x \in T : \A y \in T : <<y, x>> \notin OpToRel(<, Nat)
  BY <1>1, WFMin
<1>3. \A y \in T : x \in Nat /\ y \in Nat /\ ~(y < x)
  BY <1>2 DEF OpToRel
<1> QED BY <1>3

LEMMA GreatestExists ==
  ASSUME NEW n \in Nat, NEW T, T \subseteq 1..n, T # {}
  PROVE  \E x \in T : \A y \in T : y <= x
<1> DEFINE D == {n - k : k \in T}
<1>1. \A k \in T : k \in Nat /\ n - k \in Nat
  OBVIOUS
<1>2. D \subseteq Nat /\ D # {}
  BY <1>1
<1>3. \A k \in T : n - k \in D
  OBVIOUS
<1> HIDE DEF D
<1>4. PICK d \in D : \A e \in D : d <= e
  BY <1>2, LeastExists
<1>5. PICK x \in T : d = n - x
  BY <1>4 DEF D
<1>6. \A y \in T : d <= n - y
  BY <1>3, <1>4
<1> QED BY <1>1, <1>5, <1>6

LEMMA NewerType ==
  ASSUME Typed, NEW s
  PROVE  Newer(s) \in Nat
<1> DEFINE own == {k \in DOMAIN checkpoints : checkpoints[k].source = s}
<1>1. Len(checkpoints) \in Nat /\ own \subseteq 1..Len(checkpoints)
  BY DEF Typed
<1>2. CASE own = {}
  BY <1>2 DEF Newer
<1>3. CASE own # {}
  <2>1. \E k \in own : \A j \in own : j <= k
    BY <1>1, <1>3, GreatestExists
  <2>2. (CHOOSE k \in own : \A j \in own : j <= k) \in own
    BY <2>1
  <2> QED BY <1>1, <1>3, <2>2 DEF Newer
<1> QED BY <1>2, <1>3

-----------------------------------------------------------------------------
(* Types.                                                                  *)

\* A change of one row.
LEMMA RowChanged ==
  ASSUME Typed, NEW s \in Ids, NEW row \in Row, sessions' = [sessions EXCEPT ![s] = row]
  PROVE  /\ sessions' \in Seq(Row) /\ Len(sessions') <= MaxSessions
         /\ Ids' = Ids /\ sessions'[s] = row
         /\ \A r \in Ids \ {s} : sessions'[r] = sessions[r]
  BY DEF Typed

\* If its row is kept, so is what is known of the others.
LEMMA RowChangedGrows ==
  ASSUME Typed, NEW s \in Ids, NEW row \in Row, sessions' = [sessions EXCEPT ![s] = row],
         RowKept(s), UNCHANGED checkpoints
  PROVE  Grows
<1>1. /\ Ids' = Ids
      /\ \A r \in Ids \ {s} : sessions'[r] = sessions[r]
  BY RowChanged
<1>2. \A r \in Ids \ {s} : RowKept(r)
  BY <1>1 DEF RowKept, RowOK, RangeOver, MayGo, Active
<1> QED BY <1>1, <1>2 DEF Grows

LEMMA GoChanged ==
  ASSUME Typed, NEW g \in DOMAIN goes, NEW row \in GoRow, goes' = [goes EXCEPT ![g] = row]
  PROVE  /\ goes' \in Seq(GoRow) /\ DOMAIN goes' = DOMAIN goes /\ goes'[g] = row
         /\ \A h \in DOMAIN goes \ {g} : goes'[h] = goes[h]
  BY DEF Typed

LEMMA JobChanged ==
  ASSUME Typed, NEW c \in Clients, NEW job \in Job, client' = [client EXCEPT ![c] = job]
  PROVE  /\ client' \in [Clients -> Job] /\ client'[c] = job
         /\ \A d \in Clients \ {c} : client'[d] = client[d]
  BY DEF Typed

LEMMA IdleJob == Idle \in Job /\ Idle.pc = "idle"
  BY DEF Idle, Job

\* What a job holds.
LEMMA JobFields ==
  ASSUME Typed, NEW c \in Clients
  PROVE  /\ client[c].pc = "create" => client[c].type \in Types /\ client[c].at \in Position
         /\ client[c].pc = "capture" => client[c].twin \in SUBSET Cues
         /\ client[c].pc \in {"restore", "install", "mark"} => client[c].checkpoint \in Nat
         /\ client[c].pc \in {"install", "mark"} =>
              client[c] \in [pc : {"install", "mark"}, session : Nat, checkpoint : Nat,
                             start : BOOLEAN, previous : SUBSET Cues]
  BY DEF Typed, Job

-----------------------------------------------------------------------------
(* Starts and the lifecycle of a row.                                      *)

LEMMA BeginStartStep ==
  ASSUME SimulationInv, NEW c \in Clients, NEW type \in Types,
         NEW p \in Positions, BeginStart(c, type, p)
  PROVE  SimulationInv'
<1> DEFINE job == [pc |-> "create", type |-> type, at |-> p]
<1>1. /\ p \in Position
      /\ IF p.kind = "CHECKPOINT" THEN p.checkpoint \in DOMAIN checkpoints ELSE p.checkpoint = None
  BY SimulationAssumption DEF Positions, Position, SimulationInv, Typed, Cues
<1>2. job \in Job
  BY <1>1 DEF Job
<1>3. client' = [client EXCEPT ![c] = job] /\ UNCHANGED <<sessions, checkpoints, twin, goes, inputs>>
  BY DEF BeginStart
<1> HIDE DEF job
<1>4. /\ client' \in [Clients -> Job] /\ client'[c] = job
      /\ \A d \in Clients \ {c} : client'[d] = client[d]
  BY <1>2, <1>3, JobChanged DEF SimulationInv
<1>5. Typed'
  BY <1>3, <1>4 DEF SimulationInv, Typed
<1>6. JobOK(c)'
  BY <1>1, <1>3, <1>4 DEF JobOK, job
<1> QED BY <1>3, <1>4, <1>5, <1>6, SameRows, JobStep

LEMMA NewSessionType ==
  ASSUME Typed, NEW type \in Types, NEW p \in Position,
         IF p.kind = "CHECKPOINT" THEN p.checkpoint \in DOMAIN checkpoints ELSE p.checkpoint = None
  PROVE  /\ NewSession(type, p) \in Row
         /\ NewSession(type, p).confirm => p.kind = "RANGE"
         /\ NewSession(type, p).kind = p.kind
<1>1. /\ p.kind \in StartKinds /\ p.from \in Place /\ p.to \in Place /\ p.checkpoint \in Nat
  BY DEF Position
<1>2. p.kind = "CHECKPOINT" => checkpoints[p.checkpoint] \in Checkpoint /\ p.checkpoint # None
  BY DEF Typed
<1>3. CASE p.kind = "BEGINNING"
  <2>1. 1 \in Place /\ p.checkpoint = None
    BY <1>3, SimulationAssumption DEF Cues
  <2>2. NewSession(type, p) =
          [type |-> type, status |-> "ACTIVE", kind |-> p.kind, from |-> p.from, to |-> p.to,
           current |-> None, next |-> 1, desired |-> p.checkpoint, verified |-> None,
           confirm |-> FALSE]
    BY <1>3, <2>1 DEF NewSession
  <2> QED BY <1>1, <2>1, <2>2, SimulationAssumption DEF Row, Cues
<1>4. CASE p.kind = "RANGE"
  BY <1>1, <1>4, SimulationAssumption DEF NewSession, Row, Cues
<1>5. CASE p.kind = "CHECKPOINT"
  BY <1>1, <1>2, <1>5 DEF NewSession, Row, Checkpoint
<1> QED BY <1>1, <1>3, <1>4, <1>5

LEMMA CreateSessionStep ==
  ASSUME SimulationInv, NEW c \in Clients, CreateSession(c)
  PROVE  SimulationInv'
<1> PICK n : n = Len(sessions) + 1
  OBVIOUS
<1> DEFINE j == client[c]
           row == NewSession(j.type, j.at)
           job == IF j.at.kind = "CHECKPOINT"
                  THEN [pc |-> "restore", session |-> n, checkpoint |-> j.at.checkpoint]
                  ELSE Idle
<1>1. /\ j.type \in Types /\ j.at \in Position
      /\ IF j.at.kind = "CHECKPOINT" THEN j.at.checkpoint \in DOMAIN checkpoints
         ELSE j.at.checkpoint = None
  BY JobFields DEF SimulationInv, JobOK, CreateSession
<1>2. row \in Row /\ (row.confirm => row.kind = "RANGE")
  BY <1>1, NewSessionType DEF SimulationInv
<1>3. job \in Job
  BY <1>1, IdleJob DEF Job, SimulationInv, Typed
<1>4. /\ n <= MaxSessions /\ sessions' = Append(sessions, row)
      /\ client' = [client EXCEPT ![c] = job]
      /\ UNCHANGED <<checkpoints, twin, goes, inputs>>
  BY DEF CreateSession
<1> HIDE DEF row
<1>5. /\ sessions' \in Seq(Row) /\ Len(sessions') = n /\ Ids' = Ids \cup {n} /\ n \notin Ids
      /\ sessions'[n] = row /\ \A s \in Ids : sessions'[s] = sessions[s]
  BY <1>2, <1>4 DEF SimulationInv, Typed
<1>6. \A s \in Ids : RowKept(s)
  BY <1>5 DEF RowKept, RowOK, RangeOver, MayGo, Active
<1>7. RowOK(n)'
  BY <1>2, <1>5 DEF RowOK
<1>8. Grows
  BY <1>4, <1>5, <1>6, <1>7 DEF Grows
<1> HIDE DEF job
<1>9. /\ client' \in [Clients -> Job] /\ client'[c] = job
      /\ \A d \in Clients \ {c} : client'[d] = client[d]
  BY <1>3, <1>4, JobChanged DEF SimulationInv
<1>10. Typed'
  BY <1>4, <1>5, <1>9 DEF SimulationInv, Typed
<1>11. JobOK(c)'
  BY <1>1, <1>4, <1>5, <1>9, IdleJob DEF JobOK, job
<1> QED BY <1>4, <1>8, <1>9, <1>10, <1>11, JobStep

\* A step that changes the row of one Session only.
LEMMA RowStep ==
  ASSUME SimulationInv, NEW s \in Ids, NEW row \in Row, RowKept(s),
         sessions' = [sessions EXCEPT ![s] = row],
         UNCHANGED <<checkpoints, twin, client, goes, inputs>>
  PROVE  SimulationInv'
<1>1. Grows
  BY RowChangedGrows DEF SimulationInv
<1>2. Typed'
  BY RowChanged DEF SimulationInv, Typed
<1>3. \A d \in Clients : JobOK(d)'
  BY <1>1, JobKept DEF SimulationInv
<1>4. \A r \in Ids' : RowOK(r)'
  BY <1>1 DEF SimulationInv, Grows, RowKept
<1>5. \A h \in DOMAIN goes' : GoOK(h)'
  BY <1>1, GoKept DEF SimulationInv
<1>6. \A i \in DOMAIN inputs' : InputOK(i)'
  BY <1>1, InputKept DEF SimulationInv
<1> QED BY <1>2, <1>3, <1>4, <1>5, <1>6 DEF SimulationInv

LEMMA EndSessionStep ==
  ASSUME SimulationInv, NEW s \in Ids, NEW status \in {"COMPLETED", "ABORTED"},
         EndSession(s, status)
  PROVE  SimulationInv'
<1> DEFINE row == [sessions[s] EXCEPT !.status = status]
<1>1. sessions[s] \in Row /\ sessions[s].status = "ACTIVE"
  BY DEF SimulationInv, Typed, EndSession, Active
<1>2. row \in Row
  BY <1>1 DEF Row
<1>3. sessions' = [sessions EXCEPT ![s] = row]
  BY DEF EndSession
<1>4. sessions'[s] = row
  BY <1>2, <1>3, RowChanged DEF SimulationInv
<1>5. RowKept(s)
  BY <1>1, <1>4 DEF RowKept, RowOK, RangeOver, Active, Row
<1>6. UNCHANGED <<checkpoints, twin, client, goes, inputs>>
  BY DEF EndSession
<1> HIDE DEF row
<1> QED BY <1>2, <1>3, <1>5, <1>6, RowStep

\* Only a range waits for a confirmation, and it may go once it has it.
LEMMA ConfirmStartStateStep ==
  ASSUME SimulationInv, NEW s \in Ids, ConfirmStartState(s)
  PROVE  SimulationInv'
<1> DEFINE row == [sessions[s] EXCEPT !.confirm = FALSE, !.desired = None, !.verified = None]
<1>1. sessions[s] \in Row /\ s \in Active /\ sessions[s].status = "ACTIVE"
  BY DEF SimulationInv, Typed, ConfirmStartState, Active
<1>2. row \in Row
  BY <1>1 DEF Row
<1>3. sessions' = [sessions EXCEPT ![s] = row]
  BY DEF ConfirmStartState
<1>4. sessions'[s] = row
  BY <1>2, <1>3, RowChanged DEF SimulationInv
<1>5. sessions[s].kind = "RANGE"
  BY <1>1 DEF SimulationInv, RowOK, ConfirmStartState
<1>6. /\ row.type = sessions[s].type /\ row.kind = sessions[s].kind /\ row.from = sessions[s].from
      /\ row.to = sessions[s].to /\ row.status = "ACTIVE" /\ row.confirm = FALSE
  BY <1>1 DEF Row
<1> HIDE DEF row
<1>7. MayGo(s)' /\ RowOK(s)'
  BY <1>4, <1>5, <1>6 DEF MayGo, RowOK
<1>8. RowKept(s)
  BY <1>1, <1>4, <1>6, <1>7 DEF RowKept, RangeOver
<1>9. UNCHANGED <<checkpoints, twin, client, goes, inputs>>
  BY DEF ConfirmStartState
<1> QED BY <1>2, <1>3, <1>8, <1>9, RowStep

LEMMA ResetTwinStep ==
  ASSUME SimulationInv, NEW s \in Ids, ResetTwin(s)
  PROVE  SimulationInv'
<1>1. UNCHANGED <<sessions, checkpoints, client, goes, inputs>>
  BY DEF ResetTwin
<1>2. Typed'
  BY <1>1 DEF SimulationInv, Typed, ResetTwin
<1>3. Grows
  BY <1>1, SameRows
<1>4. \A d \in Clients : JobOK(d)'
  BY <1>1, <1>3, JobKept DEF SimulationInv
<1>5. \A r \in Ids' : RowOK(r)'
  BY <1>1, <1>3 DEF SimulationInv, Grows, RowKept
<1>6. \A h \in DOMAIN goes' : GoOK(h)'
  BY <1>1, <1>3, GoKept DEF SimulationInv
<1>7. \A i \in DOMAIN inputs' : InputOK(i)'
  BY <1>1, <1>3, InputKept DEF SimulationInv
<1> QED BY <1>2, <1>4, <1>5, <1>6, <1>7 DEF SimulationInv

-----------------------------------------------------------------------------
(* Checkpoints.                                                            *)

\* A step that changes a twin, or nothing, and the job of one client.
LEMMA TwinStep ==
  ASSUME SimulationInv, NEW c \in Clients, NEW job \in Job, client' = [client EXCEPT ![c] = job],
         twin' \in [1..MaxSessions -> SUBSET Cues], JobOK(c)',
         UNCHANGED <<sessions, checkpoints, goes, inputs>>
  PROVE  SimulationInv'
<1>1. /\ client' \in [Clients -> Job]
      /\ \A d \in Clients \ {c} : client'[d] = client[d]
  BY JobChanged DEF SimulationInv
<1>2. Typed'
  BY <1>1 DEF SimulationInv, Typed
<1> QED BY <1>1, <1>2, SameRows, JobStep

LEMMA TwinsType ==
  ASSUME SimulationInv, NEW s \in Ids
  PROVE  twin[s] \in SUBSET Cues /\ s \in 1..MaxSessions /\ s \in Nat
<1>1. /\ Len(sessions) \in Nat /\ Len(sessions) <= MaxSessions /\ s \in 1..Len(sessions)
      /\ MaxSessions \in Nat
  BY SimulationAssumption DEF SimulationInv, Typed, Cues
<1>2. s \in 1..MaxSessions
  BY <1>1
<1> QED BY <1>1, <1>2 DEF SimulationInv, Typed

LEMMA BeginCaptureStep ==
  ASSUME SimulationInv, NEW c \in Clients, NEW s \in Ids, BeginCapture(c, s)
  PROVE  SimulationInv'
<1> PICK job : job = [pc |-> "capture", session |-> s, twin |-> twin[s]]
  OBVIOUS
<1>1. job \in Job
  BY TwinsType DEF Job
<1>2. client' = [client EXCEPT ![c] = job] /\ UNCHANGED <<sessions, checkpoints, twin, goes, inputs>>
  BY DEF BeginCapture
<1>3. client'[c] = job
  BY <1>1, <1>2, JobChanged DEF SimulationInv
<1>4. JobOK(c)'
  BY <1>2, <1>3 DEF JobOK
<1> QED BY <1>1, <1>2, <1>4, TwinStep DEF SimulationInv, Typed

LEMMA CreateCheckpointStep ==
  ASSUME SimulationInv, NEW c \in Clients, CreateCheckpoint(c)
  PROVE  SimulationInv'
<1> DEFINE j == client[c]
           new == [source |-> j.session, twin |-> j.twin, current |-> sessions[j.session].current,
                   next |-> sessions[j.session].next]
<1>1. j.session \in Ids /\ j.twin \in SUBSET Cues
  BY JobFields DEF SimulationInv, JobOK, CreateCheckpoint
<1>2. sessions[j.session] \in Row /\ j.session \in Nat
  BY <1>1, TwinsType DEF SimulationInv, Typed
<1>3. new \in Checkpoint
  BY <1>1, <1>2 DEF Checkpoint, Row
<1>4. /\ checkpoints' = checkpoints \/ checkpoints' = Append(checkpoints, new)
      /\ client' = [client EXCEPT ![c] = Idle] /\ UNCHANGED <<sessions, twin, goes, inputs>>
  BY DEF CreateCheckpoint
<1> HIDE DEF new
<1>5. checkpoints' \in Seq(Checkpoint) /\ DOMAIN checkpoints \subseteq DOMAIN checkpoints'
  <2>1. checkpoints \in Seq(Checkpoint)
    BY DEF SimulationInv, Typed
  <2>2. CASE checkpoints' = checkpoints
    BY <2>1, <2>2
  <2>3. CASE checkpoints' = Append(checkpoints, new)
    <3>1. checkpoints' \in Seq(Checkpoint) /\ Len(checkpoints') = Len(checkpoints) + 1
      BY <1>3, <2>1, <2>3
    <3>2. DOMAIN checkpoints = 1..Len(checkpoints) /\ DOMAIN checkpoints' = 1..Len(checkpoints')
      BY <2>1, <3>1
    <3> QED BY <2>1, <3>1, <3>2
  <2> QED BY <1>4, <2>2, <2>3
<1>6. /\ client' \in [Clients -> Job] /\ client'[c] = Idle
      /\ \A d \in Clients \ {c} : client'[d] = client[d]
  BY <1>4, IdleJob, JobChanged DEF SimulationInv
<1>7. Typed'
  BY <1>4, <1>5, <1>6 DEF SimulationInv, Typed
<1>8. JobOK(c)'
  BY <1>6, IdleJob DEF JobOK
<1>9. \A s \in Ids : RowKept(s)
  BY <1>4 DEF RowKept, RowOK, RangeOver, MayGo, Active
<1>10. Grows
  BY <1>4, <1>5, <1>9 DEF Grows
<1> QED BY <1>4, <1>6, <1>7, <1>8, <1>10, JobStep

\* The job of a restore of checkpoint k into s.
LEMMA RestoringStep ==
  ASSUME SimulationInv, NEW c \in Clients, NEW s \in Ids,
         NEW k \in DOMAIN checkpoints, NEW begins \in BOOLEAN,
         client' = [client EXCEPT ![c] = Restoring(s, k, begins)],
         UNCHANGED <<sessions, checkpoints, twin, goes, inputs>>
  PROVE  SimulationInv'
<1> PICK job : job = Restoring(s, k, begins)
  OBVIOUS
<1>1. \/ job = Idle
      \/ job = [pc |-> "install", session |-> s, checkpoint |-> k, start |-> begins,
                previous |-> twin[s]]
  BY DEF Restoring
<1>2. k \in Nat /\ s \in Nat /\ twin[s] \in SUBSET Cues
  BY TwinsType DEF SimulationInv, Typed
<1>3. job \in Job
  BY <1>1, <1>2, IdleJob DEF Job
<1>4. client'[c] = job
  BY <1>3, JobChanged DEF SimulationInv
<1>5. JobOK(c)'
  BY <1>1, <1>4, IdleJob DEF JobOK
<1> QED BY <1>3, <1>5, TwinStep DEF SimulationInv, Typed

LEMMA BeginRestoreStep ==
  ASSUME SimulationInv, NEW c \in Clients, NEW s \in Ids,
         NEW k \in DOMAIN checkpoints, BeginRestore(c, s, k)
  PROVE  SimulationInv'
  BY RestoringStep DEF BeginRestore

LEMMA RestoreAtStartStep ==
  ASSUME SimulationInv, NEW c \in Clients, RestoreAtStart(c)
  PROVE  SimulationInv'
<1>1. client[c].session \in Ids /\ client[c].checkpoint \in DOMAIN checkpoints
  BY DEF RestoreAtStart, SimulationInv, JobOK
<1> QED BY <1>1, RestoringStep DEF RestoreAtStart

LEMMA InstallTwinStep ==
  ASSUME SimulationInv, NEW c \in Clients, InstallTwin(c)
  PROVE  SimulationInv'
<1> PICK j : j = client[c]
  OBVIOUS
<1> PICK job : job = [j EXCEPT !.pc = "mark"]
  OBVIOUS
<1>1. /\ j \in [pc : {"install", "mark"}, session : Nat, checkpoint : Nat, start : BOOLEAN,
               previous : SUBSET Cues]
      /\ j.session \in Ids /\ j.checkpoint \in DOMAIN checkpoints
  BY JobFields DEF InstallTwin, SimulationInv, JobOK
<1>2. job \in [pc : {"install", "mark"}, session : Nat, checkpoint : Nat, start : BOOLEAN,
               previous : SUBSET Cues]
  BY <1>1
<1>3. job \in Job /\ job.pc = "mark" /\ job.session = j.session /\ job.checkpoint = j.checkpoint
  BY <1>1, <1>2 DEF Job
<1>4. /\ client' = [client EXCEPT ![c] = job] /\ UNCHANGED <<sessions, checkpoints, goes, inputs>>
      /\ twin' = [twin EXCEPT ![j.session] = checkpoints[j.checkpoint].twin]
  BY DEF InstallTwin
<1>5. checkpoints[j.checkpoint].twin \in SUBSET Cues
  <2>1. checkpoints[j.checkpoint] \in Checkpoint
    BY <1>1 DEF SimulationInv, Typed
  <2> QED BY <2>1 DEF Checkpoint
<1>6. twin' \in [1..MaxSessions -> SUBSET Cues]
  BY <1>4, <1>5 DEF SimulationInv, Typed
<1>7. client'[c] = job
  BY <1>3, <1>4, JobChanged DEF SimulationInv
<1>8. JobOK(c)'
  BY <1>1, <1>3, <1>4, <1>7 DEF JobOK
<1> QED BY <1>3, <1>4, <1>6, <1>8, TwinStep

\* What is restored is verified, so a GO that is under way may go on.
LEMMA MarkRestoredStep ==
  ASSUME SimulationInv, NEW c \in Clients, MarkRestored(c)
  PROVE  SimulationInv'
<1> PICK s : s = client[c].session
  OBVIOUS
<1> PICK n : n = client[c].checkpoint
  OBVIOUS
<1> PICK row : row = [sessions[s] EXCEPT !.current = checkpoints[n].current,
                        !.next = checkpoints[n].next, !.desired = n, !.verified = n,
                        !.confirm = FALSE]
  OBVIOUS
<1>1. s \in Ids /\ n \in DOMAIN checkpoints /\ s \in Active
  BY DEF MarkRestored, SimulationInv, JobOK
<1>2. /\ sessions[s] \in Row /\ sessions[s].status = "ACTIVE"
      /\ checkpoints[n] \in Checkpoint /\ n \in Nat /\ n # None
  BY <1>1 DEF SimulationInv, Typed, Active
<1>3. /\ row \in Row /\ row.status = "ACTIVE" /\ row.type = sessions[s].type
      /\ row.kind = sessions[s].kind /\ row.from = sessions[s].from /\ row.to = sessions[s].to
      /\ row.desired = n /\ row.verified = n /\ row.confirm = FALSE
  BY <1>2 DEF Row, Checkpoint
<1>4. /\ sessions' = [sessions EXCEPT ![s] = row] /\ client' = [client EXCEPT ![c] = Idle]
      /\ UNCHANGED <<checkpoints, twin, goes, inputs>>
  BY DEF MarkRestored
<1>5. sessions'[s] = row
  BY <1>1, <1>3, <1>4, RowChanged DEF SimulationInv
<1>6. MayGo(s)' /\ RowOK(s)'
  BY <1>2, <1>3, <1>5 DEF MayGo, RowOK
<1>7. RowKept(s)
  BY <1>2, <1>3, <1>5, <1>6 DEF RowKept, RangeOver
<1>8. Grows
  BY <1>1, <1>3, <1>4, <1>7, RowChangedGrows DEF SimulationInv
<1>9. /\ client' \in [Clients -> Job] /\ client'[c] = Idle
      /\ \A d \in Clients \ {c} : client'[d] = client[d]
  BY <1>4, IdleJob, JobChanged DEF SimulationInv
<1>10. sessions' \in Seq(Row) /\ Len(sessions') <= MaxSessions
  BY <1>1, <1>3, <1>4, RowChanged DEF SimulationInv
<1>11. Typed'
  BY <1>4, <1>9, <1>10 DEF SimulationInv, Typed
<1>12. JobOK(c)'
  BY <1>9, IdleJob DEF JobOK
<1> QED BY <1>4, <1>8, <1>9, <1>11, <1>12, JobStep

\* A row that ends is kept.
LEMMA AbortedRowKept ==
  ASSUME SimulationInv, NEW s \in Ids, s \in Active,
         sessions' = [sessions EXCEPT ![s].status = "ABORTED"], UNCHANGED checkpoints
  PROVE  Grows /\ sessions' \in Seq(Row) /\ Len(sessions') <= MaxSessions
<1> PICK row : row = [sessions[s] EXCEPT !.status = "ABORTED"]
  OBVIOUS
<1>1. sessions[s] \in Row /\ sessions[s].status = "ACTIVE"
  BY DEF SimulationInv, Typed, Active
<1>2. row \in Row
  BY <1>1 DEF Row
<1>3. sessions' = [sessions EXCEPT ![s] = row]
  OBVIOUS
<1>4. sessions'[s] = row
  BY <1>2, <1>3, RowChanged DEF SimulationInv
<1>5. RowKept(s)
  BY <1>1, <1>4 DEF RowKept, RowOK, RangeOver, Active, Row
<1> QED BY <1>2, <1>3, <1>5, RowChanged, RowChangedGrows DEF SimulationInv

LEMMA RollBackTwinStep ==
  ASSUME SimulationInv, NEW c \in Clients, RollBackTwin(c)
  PROVE  SimulationInv'
<1> PICK j : j = client[c]
  OBVIOUS
<1>1. j.session \in Ids /\ j.previous \in SUBSET Cues
  BY JobFields DEF RollBackTwin, SimulationInv, JobOK
<1>2. /\ twin' = [twin EXCEPT ![j.session] = j.previous]
      /\ client' = [client EXCEPT ![c] = Idle] /\ UNCHANGED <<checkpoints, goes, inputs>>
  BY DEF RollBackTwin
<1>3. Grows /\ sessions' \in Seq(Row) /\ Len(sessions') <= MaxSessions
  <2>1. CASE sessions' = sessions
    BY <1>2, <2>1, SameRows DEF SimulationInv, Typed
  <2>2. CASE /\ j.session \in Active
             /\ sessions' = [sessions EXCEPT ![j.session].status = "ABORTED"]
    BY <1>1, <1>2, <2>2, AbortedRowKept
  <2> QED BY <2>1, <2>2 DEF RollBackTwin
<1>4. /\ client' \in [Clients -> Job] /\ client'[c] = Idle
      /\ \A d \in Clients \ {c} : client'[d] = client[d]
  BY <1>2, IdleJob, JobChanged DEF SimulationInv
<1>5. twin' \in [1..MaxSessions -> SUBSET Cues]
  BY <1>1, <1>2 DEF SimulationInv, Typed
<1>6. Typed'
  BY <1>2, <1>3, <1>4, <1>5 DEF SimulationInv, Typed
<1>7. JobOK(c)'
  BY <1>4, IdleJob DEF JobOK
<1> QED BY <1>2, <1>3, <1>4, <1>6, <1>7, JobStep

-----------------------------------------------------------------------------
(* GO.                                                                     *)

LEMMA GoRequestStep ==
  ASSUME SimulationInv, NEW s \in Ids, NEW wanted \in Cues \cup {None}, Go(s, wanted)
  PROVE  SimulationInv'
<1> PICK row : row = [session |-> s, pc |-> "admitted", cue |-> None, row |-> 0, to |-> "none",
                      wanted |-> IF wanted = None /\ sessions[s].current = None
                                 THEN sessions[s].next ELSE wanted]
  OBVIOUS
<1> PICK n : n = Len(goes) + 1
  OBVIOUS
<1>1. sessions[s] \in Row /\ s \in Nat
  BY TwinsType DEF SimulationInv, Typed
<1>2. wanted \in Place /\ sessions[s].next \in Place
  BY <1>1, SimulationAssumption DEF Row, Cues
<1>3. row \in GoRow
  BY <1>1, <1>2, SimulationAssumption DEF GoRow, Cues
<1>4. /\ goes' = Append(goes, row) /\ s \in Active /\ MayGo(s)
      /\ UNCHANGED <<sessions, checkpoints, twin, client, inputs>>
  BY DEF Go
<1>5. row.session = s /\ row.pc = "admitted" /\ row.to = "none"
  OBVIOUS
<1>6. /\ goes' \in Seq(GoRow) /\ n \in DOMAIN goes' /\ goes'[n] = row
      /\ \A h \in DOMAIN goes' \ {n} : h \in DOMAIN goes /\ goes'[h] = goes[h]
  BY <1>3, <1>4 DEF SimulationInv, Typed
<1>7. Typed'
  BY <1>4, <1>6 DEF SimulationInv, Typed
<1>8. MayGo(s)'
  BY <1>4 DEF MayGo
<1>9. GoOK(n)'
  BY <1>4, <1>5, <1>6, <1>8 DEF GoOK
<1> QED BY <1>4, <1>6, <1>7, <1>9, SameRows, GoStep

\* A step that changes one GO, and the rows only as they are kept.
LEMMA GoRowStep ==
  ASSUME SimulationInv, Grows, NEW g \in DOMAIN goes, NEW row \in GoRow,
         goes' = [goes EXCEPT ![g] = row], GoOK(g)',
         sessions' \in Seq(Row), Len(sessions') <= MaxSessions,
         twin' \in [1..MaxSessions -> SUBSET Cues],
         UNCHANGED <<checkpoints, client, inputs>>
  PROVE  SimulationInv'
<1>1. /\ goes' \in Seq(GoRow) /\ DOMAIN goes' = DOMAIN goes
      /\ \A h \in DOMAIN goes \ {g} : goes'[h] = goes[h]
  BY GoChanged DEF SimulationInv
<1>2. Typed'
  BY <1>1 DEF SimulationInv, Typed
<1> QED BY <1>1, <1>2, GoStep

LEMMA InsertedType ==
  ASSUME Typed, NEW s
  PROVE  Cardinality(Inserted(s)) + 1 \in Nat
<1>1. DOMAIN goes = 1..Len(goes) /\ Len(goes) \in Nat
  BY DEF Typed
<1>2. IsFiniteSet(DOMAIN goes)
  BY <1>1, FS_Interval
<1>3. IsFiniteSet(Inserted(s))
  BY <1>2, FS_Subset DEF Inserted
<1> QED BY <1>3, FS_CardinalityType

LEMMA LaunchBeginsStep ==
  ASSUME SimulationInv, NEW g \in DOMAIN goes, LaunchBegins(g)
  PROVE  SimulationInv'
<1>1. goes[g] \in GoRow /\ goes[g].pc = "admitted" /\ GoOK(g)
  <2>1. goes[g].pc = "admitted"
    BY DEF LaunchBegins
  <2> QED BY <2>1 DEF SimulationInv, Typed
<1>2. PICK pc \in {"read", "ended"}, cue \in Place :
        /\ pc = "read" => cue \in Cues
        /\ goes' = [goes EXCEPT ![g].pc = pc, ![g].cue = cue, ![g].wanted = None]
  <2>1. None \in Place /\ Cues \subseteq Place
    BY SimulationAssumption DEF Cues
  <2>2. PICK accepted \in BOOLEAN : \E c :
          /\ accepted => c \in Cues
          /\ goes' = [goes EXCEPT ![g].pc = IF accepted THEN "read" ELSE "ended",
                              ![g].cue = IF accepted THEN c ELSE None, ![g].wanted = None]
    BY DEF LaunchBegins
  <2>3. PICK c :
          /\ accepted => c \in Cues
          /\ goes' = [goes EXCEPT ![g].pc = IF accepted THEN "read" ELSE "ended",
                              ![g].cue = IF accepted THEN c ELSE None, ![g].wanted = None]
    BY <2>2
  <2>4. CASE accepted
    BY <2>1, <2>3, <2>4
  <2>5. CASE ~accepted
    BY <2>1, <2>3, <2>5
  <2> QED BY <2>4, <2>5
<1>3. PICK row : row = [goes[g] EXCEPT !.pc = pc, !.cue = cue, !.wanted = None]
  OBVIOUS
<1>4. /\ row \in GoRow /\ row.session = goes[g].session /\ row.to = goes[g].to
      /\ row.pc = pc /\ row.cue = cue
  <2>1. None \in Place
    BY SimulationAssumption DEF Cues
  <2> QED BY <1>1, <1>3, <2>1 DEF GoRow
<1>5. goes' = [goes EXCEPT ![g] = row]
  BY <1>2, <1>3
<1>6. UNCHANGED <<sessions, checkpoints, twin, client, inputs>>
  BY DEF LaunchBegins
<1>7. goes'[g] = row
  BY <1>4, <1>5, GoChanged DEF SimulationInv
<1>8. row.session \in Active' => row.session \in Active /\ (MayGo(row.session) => MayGo(row.session)')
  BY <1>6 DEF MayGo, Active
<1>9. GoOK(g)'
  <2>1. /\ row.session \in Ids' /\ row.to = "none" /\ row.pc \in {"read", "ended"}
        /\ row.pc = "read" => row.cue \in Cues
    BY <1>1, <1>2, <1>4, <1>6 DEF GoOK
  <2>2. row.session \in Active' => MayGo(row.session)'
    BY <1>1, <1>4, <1>8 DEF GoOK
  <2> QED BY <1>7, <2>1, <2>2 DEF GoOK
<1> QED BY <1>4, <1>5, <1>6, <1>9, SameRows, GoRowStep DEF SimulationInv, Typed

LEMMA InsertCueStep ==
  ASSUME SimulationInv, NEW g \in DOMAIN goes, InsertCue(g)
  PROVE  SimulationInv'
<1> PICK s : s = goes[g].session
  OBVIOUS
<1>1. goes[g] \in GoRow /\ goes[g].pc = "read" /\ GoOK(g)
  BY DEF InsertCue, SimulationInv, Typed
<1>2. UNCHANGED <<sessions, checkpoints, twin, client, inputs>>
  BY DEF InsertCue
<1>3. CASE Within(s, goes[g].cue)
  <2> PICK n : n = Cardinality(Inserted(s)) + 1
    OBVIOUS
  <2> PICK row : row = [goes[g] EXCEPT !.pc = "inserted", !.row = n]
    OBVIOUS
  <2>1. n \in Nat
    BY InsertedType DEF SimulationInv
  <2>2. /\ row \in GoRow /\ row.session = s /\ row.to = goes[g].to /\ row.cue = goes[g].cue
        /\ row.pc = "inserted"
    BY <1>1, <2>1 DEF GoRow
  <2>3. goes' = [goes EXCEPT ![g] = row]
    BY <1>3 DEF InsertCue
  <2>4. goes'[g] = row
    BY <2>2, <2>3, GoChanged DEF SimulationInv
  <2>5. Within(s, goes[g].cue)'
    BY <1>2, <1>3, <2>2, <2>4 DEF Within
  <2>6. GoOK(g)'
    BY <1>1, <1>2, <2>2, <2>4, <1>3 DEF GoOK, MayGo, Active, Within
  <2> QED BY <1>2, <2>2, <2>3, <2>6, SameRows, GoRowStep DEF SimulationInv, Typed
<1>4. CASE ~Within(s, goes[g].cue)
  <2> PICK row : row = [goes[g] EXCEPT !.pc = "ended", !.cue = None]
    OBVIOUS
  <2>1. row \in GoRow /\ row.session = s /\ row.to = goes[g].to /\ row.pc = "ended"
    <3>1. None \in Place
      BY SimulationAssumption DEF Cues
    <3> QED BY <1>1, <3>1 DEF GoRow
  <2>2. goes' = [goes EXCEPT ![g] = row]
    BY <1>4 DEF InsertCue
  <2>3. goes'[g] = row
    BY <2>1, <2>2, GoChanged DEF SimulationInv
  <2>4. GoOK(g)'
    BY <1>1, <1>2, <2>1, <2>3 DEF GoOK
  <2> QED BY <1>2, <2>1, <2>2, <2>4, SameRows, GoRowStep DEF SimulationInv, Typed
<1> QED BY <1>3, <1>4

\* The end of a Cue keeps the row, and that of the last Cue ends a range.
LEMMA ProgressKeeps ==
  ASSUME SimulationInv, NEW g \in DOMAIN goes, NEW s, s = goes[g].session,
         sessions' = [sessions EXCEPT ![s] = Progressed(g)], UNCHANGED checkpoints
  PROVE  /\ Grows /\ sessions' \in Seq(Row) /\ Len(sessions') <= MaxSessions
         /\ sessions[s].kind = "RANGE" /\ goes[g].cue = sessions[s].to => RangeOver(s)'
<1>1. PICK cue, old : cue = goes[g].cue /\ old = sessions[s]
  OBVIOUS
<1>2. s \in Ids /\ cue \in Place /\ old \in Row
  <2>1. goes[g] \in GoRow /\ s \in Ids
    BY <1>1 DEF SimulationInv, Typed, GoOK
  <2>2. old \in Row
    BY <1>1, <2>1 DEF SimulationInv, Typed
  <2> QED BY <1>1, <2>1, <2>2 DEF GoRow
<1>3. PICK status : status = IF old.kind = "RANGE" /\ old.status = "ACTIVE" /\ old.to = cue
                             THEN "COMPLETED" ELSE old.status
  OBVIOUS
<1>4. PICK next : next = IF old.kind = "RANGE" /\ status = "COMPLETED" THEN None
                         ELSE IF Newest(g) THEN (IF cue < NumCues THEN cue + 1 ELSE None)
                         ELSE old.next
  OBVIOUS
<1>5. PICK current : current = IF Newest(g) THEN cue ELSE old.current
  OBVIOUS
<1>6. PICK row : row = Progressed(g) /\ row = [old EXCEPT !.status = status, !.next = next, !.current = current]
  <2>1. Progressed(g) = [old EXCEPT !.status = status, !.next = next, !.current = current]
    BY <1>1, <1>3, <1>4, <1>5 DEF Progressed
  <2> QED BY <2>1
<1>7. /\ status \in {"ACTIVE", "COMPLETED", "ABORTED"} /\ current \in Place /\ next \in Place
  <2>1. old.status \in {"ACTIVE", "COMPLETED", "ABORTED"} /\ old.current \in Place /\ old.next \in Place
    BY <1>2 DEF Row
  <2>2. None \in Place /\ (cue < NumCues => cue + 1 \in Place)
    BY <1>2, SimulationAssumption DEF Cues
  <2>3. next \in {None, cue + 1, old.next} /\ (next = cue + 1 => cue < NumCues \/ next \in Place)
    BY <1>4, <2>1, <2>2
  <2> QED BY <1>2, <1>3, <1>5, <2>1, <2>2, <2>3
<1>8. /\ row \in Row /\ row.status = status /\ row.next = next
      /\ row.type = old.type /\ row.kind = old.kind /\ row.from = old.from /\ row.to = old.to
      /\ row.desired = old.desired /\ row.verified = old.verified /\ row.confirm = old.confirm
  BY <1>2, <1>6, <1>7 DEF Row
<1>9. sessions' = [sessions EXCEPT ![s] = row]
  BY <1>1, <1>6
<1>10. /\ sessions' \in Seq(Row) /\ Len(sessions') <= MaxSessions /\ sessions'[s] = row
  BY <1>2, <1>8, <1>9, RowChanged DEF SimulationInv
<1>11. old.kind = "RANGE" /\ cue = old.to => RangeOver(s)'
  BY <1>3, <1>4, <1>8, <1>10 DEF RangeOver
<1>12. old.kind = "RANGE" /\ RangeOver(s) => RangeOver(s)'
  BY <1>1, <1>3, <1>4, <1>8, <1>10 DEF RangeOver
<1>13. status = "ACTIVE" => old.status = "ACTIVE"
  BY <1>3
<1>14. MayGo(s) => MayGo(s)'
  BY <1>1, <1>8, <1>10 DEF MayGo
<1>15. RowOK(s) => RowOK(s)'
  BY <1>1, <1>2, <1>8, <1>10, <1>13 DEF RowOK, Active
<1>16. RowKept(s)
  BY <1>1, <1>8, <1>10, <1>12, <1>13, <1>14, <1>15 DEF RowKept
<1>17. Grows
  BY <1>2, <1>8, <1>9, <1>16, RowChangedGrows DEF SimulationInv
<1> QED BY <1>1, <1>10, <1>11, <1>17

LEMMA SelectCueStep ==
  ASSUME SimulationInv, NEW g \in DOMAIN goes, SelectCue(g)
  PROVE  SimulationInv'
<1> PICK s : s = goes[g].session
  OBVIOUS
<1>1. goes[g] \in GoRow /\ goes[g].pc = "inserted" /\ GoOK(g) /\ s \in Ids
  BY DEF SelectCue, SimulationInv, Typed, GoOK
<1>2. UNCHANGED <<checkpoints, twin, client, inputs>>
  BY DEF SelectCue
<1>3. CASE s \in Active
  <2> PICK old : old = sessions[s]
    OBVIOUS
  <2> PICK new : new = [old EXCEPT !.current = goes[g].cue]
    OBVIOUS
  <2> PICK row : row = [goes[g] EXCEPT !.pc = "launched"]
    OBVIOUS
  <2>1. old \in Row /\ goes[g].cue \in Place
    BY <1>1 DEF SimulationInv, Typed, GoRow
  <2>2. /\ new \in Row /\ new.status = old.status /\ new.next = old.next
        /\ new.type = old.type /\ new.kind = old.kind /\ new.from = old.from /\ new.to = old.to
        /\ new.desired = old.desired /\ new.verified = old.verified /\ new.confirm = old.confirm
    BY <2>1 DEF Row
  <2>3. sessions' = [sessions EXCEPT ![s] = new] /\ goes' = [goes EXCEPT ![g] = row]
    <3>1. sessions' = [sessions EXCEPT ![s].current = goes[g].cue] /\ goes' = [goes EXCEPT ![g].pc = "launched"]
      BY <1>3 DEF SelectCue
    <3> QED BY <3>1
  <2>4. sessions'[s] = new /\ sessions' \in Seq(Row) /\ Len(sessions') <= MaxSessions
    BY <1>1, <2>2, <2>3, RowChanged DEF SimulationInv
  <2>5. RowKept(s)
    <3>1. MayGo(s) => MayGo(s)'
      BY <2>2, <2>4 DEF MayGo
    <3>2. RowOK(s) => RowOK(s)'
      BY <1>1, <1>3, <2>2, <2>4 DEF RowOK
    <3>3. RangeOver(s) => RangeOver(s)'
      BY <2>2, <2>4 DEF RangeOver
    <3> QED BY <2>2, <2>4, <3>1, <3>2, <3>3 DEF RowKept
  <2>6. Grows
    BY <1>1, <1>2, <2>2, <2>3, <2>5, RowChangedGrows DEF SimulationInv
  <2>7. /\ row \in GoRow /\ row.session = s /\ row.to = goes[g].to /\ row.cue = goes[g].cue
        /\ row.pc = "launched"
    BY <1>1 DEF GoRow
  <2>8. goes'[g] = row
    BY <2>3, <2>7, GoChanged DEF SimulationInv
  <2>9. /\ s \in Ids' /\ row.cue \in Cues /\ row.to = "none" /\ Within(s, row.cue)'
        /\ (s \in Active' => MayGo(s)')
    BY <1>1, <1>3, <2>2, <2>4, <2>6, <2>7 DEF GoOK, Within, MayGo, Grows
  <2>10. GoOK(g)'
    BY <2>7, <2>8, <2>9 DEF GoOK
  <2> QED BY <1>2, <2>3, <2>4, <2>6, <2>7, <2>10, GoRowStep DEF SimulationInv, Typed
<1>4. CASE s \notin Active
  <2> PICK row : row = [goes[g] EXCEPT !.pc = "finished"]
    OBVIOUS
  <2>1. /\ sessions' = [sessions EXCEPT ![s] = Progressed(g)]
        /\ goes' = [goes EXCEPT ![g] = row]
    BY <1>4 DEF SelectCue
  <2>2. /\ Grows /\ sessions' \in Seq(Row) /\ Len(sessions') <= MaxSessions
        /\ sessions[s].kind = "RANGE" /\ goes[g].cue = sessions[s].to => RangeOver(s)'
    BY <1>2, <2>1, ProgressKeeps
  <2>3. /\ row \in GoRow /\ row.session = s /\ row.to = goes[g].to /\ row.cue = goes[g].cue
        /\ row.pc = "finished"
    BY <1>1 DEF GoRow
  <2>4. goes'[g] = row
    BY <2>1, <2>3, GoChanged DEF SimulationInv
  <2>5. RowKept(s) /\ s \in Ids'
    BY <1>1, <2>2 DEF Grows
  <2>6. /\ Within(s, row.cue)' /\ row.to = "none"
        /\ (sessions'[s].kind = "RANGE" /\ row.cue = sessions'[s].to => RangeOver(s)')
        /\ (s \in Active' => MayGo(s)')
    BY <1>1, <1>4, <2>2, <2>3, <2>5 DEF GoOK, RowKept, Within, Active
  <2>7. GoOK(g)'
    BY <2>3, <2>4, <2>5, <2>6 DEF GoOK
  <2> QED BY <1>2, <2>1, <2>2, <2>3, <2>7, GoRowStep DEF SimulationInv, Typed
<1> QED BY <1>3, <1>4

LEMMA ExecutorType ==
  ASSUME NEW s
  PROVE  /\ Executor(s) \in Where
         /\ Executor(s) = "devices" => s \notin Simulated /\ s \in Active
         /\ Executor(s) = "twin" => s \in Active
  BY DEF Executor

LEMMA ExecuteActionStep ==
  ASSUME SimulationInv, NEW g \in DOMAIN goes, ExecuteAction(g)
  PROVE  SimulationInv'
<1>1. PICK s : s = goes[g].session
  OBVIOUS
<1>2. goes[g].pc = "launched"
  BY DEF ExecuteAction
<1>3. goes[g] \in GoRow /\ GoOK(g) /\ s \in Ids /\ goes[g].cue \in Cues
  BY <1>1, <1>2 DEF SimulationInv, Typed, GoOK
<1>4. PICK row : row = [goes[g] EXCEPT !.pc = "done", !.to = Executor(s)]
  OBVIOUS
<1>5. /\ row \in GoRow /\ row.session = s /\ row.pc = "done" /\ row.cue = goes[g].cue
      /\ row.to = Executor(s)
  BY <1>1, <1>3, <1>4, ExecutorType DEF GoRow
<1>6. /\ goes' = [goes EXCEPT ![g] = row]
      /\ twin' = IF Executor(s) = "twin" THEN [twin EXCEPT ![s] = @ \cup {goes[g].cue}] ELSE twin
      /\ UNCHANGED <<sessions, checkpoints, client, inputs>>
  BY <1>1, <1>4 DEF ExecuteAction
<1>7. twin' \in [1..MaxSessions -> SUBSET Cues]
  <2>1. twin[s] \cup {goes[g].cue} \in SUBSET Cues
    BY <1>3, TwinsType
  <2> QED BY <1>6, <2>1 DEF SimulationInv, Typed
<1>8. goes'[g] = row
  BY <1>5, <1>6, GoChanged DEF SimulationInv
<1>9. /\ s \in Ids' /\ Within(s, row.cue)' /\ (s \in Active' => MayGo(s)')
      /\ row.to = "devices" => sessions'[s].type # "SIMULATION"
  <2>1. /\ s \in Ids' /\ Within(s, row.cue)
    BY <1>1, <1>2, <1>3, <1>5, <1>6 DEF GoOK
  <2>2. s \in Active => MayGo(s)
    BY <1>1, <1>2, <1>3 DEF GoOK
  <2>3. row.to = "devices" => sessions[s].type # "SIMULATION"
    BY <1>3, <1>5, ExecutorType DEF Simulated
  <2> QED BY <1>6, <2>1, <2>2, <2>3 DEF Within, Active, MayGo
<1>10. GoOK(g)'
  BY <1>5, <1>8, <1>9 DEF GoOK
<1> QED BY <1>5, <1>6, <1>7, <1>10, SameRows, GoRowStep DEF SimulationInv, Typed

LEMMA FinishCueStep ==
  ASSUME SimulationInv, NEW g \in DOMAIN goes, NEW cancelled \in BOOLEAN,
         FinishCue(g, cancelled)
  PROVE  SimulationInv'
<1>1. PICK s : s = goes[g].session
  OBVIOUS
<1>2. goes[g].pc = "done" /\ UNCHANGED <<checkpoints, twin, client, inputs>>
  BY DEF FinishCue
<1>3. goes[g] \in GoRow /\ GoOK(g) /\ s \in Ids
  BY <1>1 DEF SimulationInv, Typed, GoOK
<1>4. PICK row : row = [goes[g] EXCEPT !.pc = IF cancelled THEN "ended" ELSE "finished"]
  OBVIOUS
<1>5. /\ row \in GoRow /\ row.session = s /\ row.cue = goes[g].cue /\ row.to = goes[g].to
      /\ row.pc = IF cancelled THEN "ended" ELSE "finished"
  BY <1>1, <1>3, <1>4 DEF GoRow
<1>6. goes' = [goes EXCEPT ![g] = row]
  BY <1>4 DEF FinishCue
<1>7. goes'[g] = row
  BY <1>5, <1>6, GoChanged DEF SimulationInv
<1>8. /\ Grows /\ sessions' \in Seq(Row) /\ Len(sessions') <= MaxSessions
      /\ ~cancelled /\ sessions[s].kind = "RANGE" /\ row.cue = sessions[s].to => RangeOver(s)'
  <2>1. CASE cancelled
    <3>1. sessions' = sessions
      BY <2>1 DEF FinishCue
    <3> QED BY <1>2, <2>1, <3>1, SameRows DEF SimulationInv, Typed
  <2>2. CASE ~cancelled
    <3>1. sessions' = [sessions EXCEPT ![s] = Progressed(g)]
      BY <1>1, <2>2 DEF FinishCue
    <3> QED BY <1>1, <1>2, <1>5, <3>1, ProgressKeeps
  <2> QED BY <2>1, <2>2
<1>9. RowKept(s) /\ s \in Ids'
  BY <1>3, <1>8 DEF Grows
<1>10. /\ Within(s, row.cue)' /\ (row.to = "devices" => sessions'[s].type # "SIMULATION")
       /\ (s \in Active' => MayGo(s)')
       /\ (row.pc = "finished" /\ sessions'[s].kind = "RANGE" /\ row.cue = sessions'[s].to => RangeOver(s)')
  <2>1. Within(s, row.cue) /\ (row.to = "devices" => sessions[s].type # "SIMULATION")
        /\ (s \in Active => MayGo(s))
    BY <1>1, <1>2, <1>3, <1>5 DEF GoOK
  <2>2. s \in Active' => MayGo(s)'
    BY <1>3, <1>9, <2>1 DEF RowKept, Active
  <2> QED BY <1>5, <1>8, <1>9, <2>1, <2>2 DEF RowKept, Within
<1>11. row.pc \in {"ended", "finished"}
  BY <1>5
<1>12. GoOK(g)'
  BY <1>5, <1>7, <1>9, <1>10, <1>11 DEF GoOK
<1> QED BY <1>2, <1>5, <1>6, <1>8, <1>12, GoRowStep DEF SimulationInv, Typed

-----------------------------------------------------------------------------
(* Simulated inputs.                                                       *)

LEMMA InjectStep ==
  ASSUME SimulationInv, NEW s \in Ids, Inject(s)
  PROVE  SimulationInv'
<1>1. PICK n : n = Len(inputs) + 1
  OBVIOUS
<1>2. PICK new : new = [pc |-> "delayed", owner |-> None, simulating |-> FALSE, to |-> "none"]
  OBVIOUS
<1>3. new \in Input
  BY <1>2 DEF Input
<1>4. inputs' = Append(inputs, new) /\ UNCHANGED <<sessions, checkpoints, twin, client, goes>>
  BY <1>2 DEF Inject
<1>5. /\ inputs' \in Seq(Input) /\ n \in DOMAIN inputs' /\ inputs'[n] = new
      /\ \A j \in DOMAIN inputs' \ {n} : j \in DOMAIN inputs /\ inputs'[j] = inputs[j]
  BY <1>1, <1>3, <1>4 DEF SimulationInv, Typed
<1>6. Typed'
  BY <1>4, <1>5 DEF SimulationInv, Typed
<1>7. InputOK(n)'
  BY <1>2, <1>5 DEF InputOK
<1> QED BY <1>4, <1>5, <1>6, <1>7, InputStep

LEMMA InputRowStep ==
  ASSUME SimulationInv, NEW i \in DOMAIN inputs, NEW row \in Input,
         inputs' = [inputs EXCEPT ![i] = row], InputOK(i)',
         UNCHANGED <<sessions, checkpoints, twin, client, goes>>
  PROVE  SimulationInv'
<1>1. /\ inputs' \in Seq(Input) /\ DOMAIN inputs' = DOMAIN inputs
      /\ \A j \in DOMAIN inputs \ {i} : inputs'[j] = inputs[j]
  BY DEF SimulationInv, Typed
<1>2. Typed'
  BY <1>1 DEF SimulationInv, Typed
<1> QED BY <1>1, <1>2, InputStep

\* Of the one Session that is active, a simulation is active if it is one.
LEMMA OnlyOwner ==
  ASSUME Typed, Cardinality(Owners) = 1
  PROVE  \E s \in Ids : Active = {s} /\ (CHOOSE o \in Owners : TRUE) = s
<1>1. IsFiniteSet(Ids)
  <2>1. Ids = 1..Len(sessions) /\ Len(sessions) \in Nat
    BY DEF Typed
  <2> QED BY <2>1, FS_Interval
<1>2. IsFiniteSet(Active)
  BY <1>1, FS_Subset DEF Active
<1>3. PICK s : Active = {s}
  BY <1>2, FS_Singleton DEF Owners
<1>4. (CHOOSE o \in Owners : TRUE) \in Owners
  BY <1>3 DEF Owners
<1> QED BY <1>3, <1>4 DEF Owners, Active

LEMMA ResolveOwnerStep ==
  ASSUME SimulationInv, NEW i \in DOMAIN inputs, ResolveOwner(i)
  PROVE  SimulationInv'
<1>1. inputs[i].pc = "delayed" /\ UNCHANGED <<sessions, checkpoints, twin, client, goes>>
  BY DEF ResolveOwner
<1>2. inputs[i] \in Input /\ inputs[i].to = "none"
  BY <1>1 DEF SimulationInv, Typed, InputOK
<1>3. CASE Cardinality(Owners) = 1
  <2>1. PICK s \in Ids : Active = {s} /\ (CHOOSE o \in Owners : TRUE) = s
    BY <1>3, OnlyOwner DEF SimulationInv
  <2>2. PICK simulating : simulating = (Active \cap Simulated # {})
    OBVIOUS
  <2>3. PICK row : row = [inputs[i] EXCEPT !.pc = "owned", !.owner = s, !.simulating = simulating]
    OBVIOUS
  <2>4. simulating \in BOOLEAN /\ (simulating <=> sessions[s].type = "SIMULATION") /\ s \in Nat
    BY <2>1, <2>2, TwinsType DEF Simulated
  <2>5. row \in Input /\ row.pc = "owned" /\ row.owner = s /\ row.simulating = simulating /\ row.to = "none"
    BY <1>2, <2>3, <2>4 DEF Input
  <2>6. inputs' = [inputs EXCEPT ![i] = row]
    BY <1>3, <2>1, <2>2, <2>3 DEF ResolveOwner
  <2>7. inputs'[i] = row
    BY <2>6 DEF SimulationInv, Typed
  <2>8. InputOK(i)'
    BY <1>1, <2>1, <2>4, <2>5, <2>7 DEF InputOK
  <2> QED BY <1>1, <2>5, <2>6, <2>8, InputRowStep
<1>4. CASE Cardinality(Owners) # 1
  <2>1. PICK row : row = [inputs[i] EXCEPT !.pc = "ended"]
    OBVIOUS
  <2>2. row \in Input /\ row.pc = "ended" /\ row.to = "none"
    BY <1>2, <2>1 DEF Input
  <2>3. inputs' = [inputs EXCEPT ![i] = row]
    BY <1>4, <2>1 DEF ResolveOwner
  <2>4. inputs'[i] = row
    BY <2>3 DEF SimulationInv, Typed
  <2>5. InputOK(i)'
    BY <2>2, <2>4 DEF InputOK
  <2> QED BY <1>1, <2>2, <2>3, <2>5, InputRowStep
<1> QED BY <1>3, <1>4

LEMMA ExecuteOutputStep ==
  ASSUME SimulationInv, NEW i \in DOMAIN inputs, ExecuteOutput(i)
  PROVE  SimulationInv'
<1>1. inputs[i].pc = "owned" /\ UNCHANGED <<sessions, checkpoints, twin, client, goes>>
  BY DEF ExecuteOutput
<1>2. PICK s : s = inputs[i].owner
  OBVIOUS
<1>3. /\ inputs[i] \in Input /\ s \in Ids
      /\ inputs[i].simulating <=> sessions[s].type = "SIMULATION"
  BY <1>1, <1>2 DEF SimulationInv, Typed, InputOK
<1>4. PICK row : row = [inputs[i] EXCEPT !.pc = "ended", !.owner = None, !.to = Executor(s)]
  OBVIOUS
<1>5. /\ row \in Input /\ row.pc = "ended" /\ row.to = Executor(s)
      /\ row.simulating = inputs[i].simulating
  BY <1>3, <1>4, ExecutorType DEF Input
<1>6. inputs' = [inputs EXCEPT ![i] = row]
  BY <1>2, <1>4 DEF ExecuteOutput
<1>7. inputs'[i] = row
  BY <1>6 DEF SimulationInv, Typed
<1>8. row.to = "devices" => ~row.simulating
  BY <1>3, <1>5, ExecutorType DEF Simulated
<1>9. InputOK(i)'
  BY <1>5, <1>7, <1>8 DEF InputOK
<1> QED BY <1>1, <1>5, <1>6, <1>9, InputRowStep

-----------------------------------------------------------------------------
(* Restarts.                                                               *)

LEMMA RestartRows ==
  ASSUME SimulationInv, RestartSimulations
  PROVE  /\ sessions' \in Seq(Row) /\ Len(sessions') <= MaxSessions
         /\ Grows /\ Active' = {}
<1>1. Ids = 1..Len(sessions) /\ Len(sessions) \in Nat /\ \A s \in Ids : sessions[s] \in Row
  BY DEF SimulationInv, Typed
<1>2. Ids' = Ids /\ checkpoints' = checkpoints
  BY DEF RestartSimulations
<1>3. \A s \in Ids : \E k \in Nat :
        sessions'[s] = IF s \notin Active THEN sessions[s]
                       ELSE [sessions[s] EXCEPT !.status = "ABORTED", !.desired = k,
                               !.verified = None, !.confirm = k # None]
  <2> TAKE s \in Ids
  <2>1. PICK k : k = IF s \in Simulated THEN Newer(s) ELSE None
    OBVIOUS
  <2>2. k \in Nat
    BY <2>1, NewerType DEF SimulationInv
  <2>3. sessions'[s] = IF s \notin Active THEN sessions[s]
                       ELSE [sessions[s] EXCEPT !.status = "ABORTED", !.desired = k,
                               !.verified = None, !.confirm = k # None]
    BY <2>1 DEF RestartSimulations
  <2> QED BY <2>2, <2>3
<1>4. \A s \in Ids : /\ sessions'[s] \in Row /\ sessions'[s].status # "ACTIVE"
                     /\ RowKept(s)
  <2> TAKE s \in Ids
  <2>1. CASE s \notin Active
    <3>1. sessions'[s] = sessions[s] /\ sessions[s].status # "ACTIVE"
      BY <1>3, <2>1 DEF Active
    <3> QED BY <1>1, <3>1 DEF RowKept, RangeOver, RowOK, Active
  <2>2. CASE s \in Active
    <3>1. PICK k \in Nat, confirm \in BOOLEAN :
            sessions'[s] = [sessions[s] EXCEPT !.status = "ABORTED", !.desired = k,
                              !.verified = None, !.confirm = confirm]
      BY <1>3, <2>2
    <3>2. PICK row : row = sessions'[s]
      OBVIOUS
    <3>3. /\ row \in Row /\ row.status = "ABORTED"
          /\ row.type = sessions[s].type /\ row.kind = sessions[s].kind
          /\ row.from = sessions[s].from /\ row.to = sessions[s].to
      <4>1. PICK old : old = sessions[s]
        OBVIOUS
      <4>2. old \in Row /\ None \in Nat
        BY <1>1, <4>1
      <4>3. row = [old EXCEPT !.status = "ABORTED", !.desired = k, !.verified = None,
                     !.confirm = confirm]
        BY <3>1, <3>2, <4>1
      <4> QED BY <4>1, <4>2, <4>3 DEF Row
    <3>4. sessions[s].status = "ACTIVE"
      BY <2>2 DEF Active
    <3> QED BY <3>2, <3>3, <3>4 DEF RowKept, RangeOver, RowOK, Active
  <2> QED BY <2>1, <2>2
<1>5. sessions' \in Seq(Row) /\ Len(sessions') = Len(sessions)
  <2>1. sessions' = [s \in 1..Len(sessions) |-> sessions'[s]]
    BY <1>1 DEF RestartSimulations
  <2> QED BY <1>1, <1>4, <2>1
<1>6. Active' = {}
  BY <1>2, <1>4 DEF Active
<1> QED BY <1>2, <1>4, <1>5, <1>6 DEF Grows, SimulationInv, Typed

LEMMA RestartSimulationsStep ==
  ASSUME SimulationInv, RestartSimulations
  PROVE  SimulationInv'
<1>1. /\ sessions' \in Seq(Row) /\ Len(sessions') <= MaxSessions
      /\ Grows /\ Active' = {}
  BY RestartRows
<1>2. /\ client' = [c \in Clients |-> Idle]
      /\ twin' = [s \in DOMAIN twin |-> {}]
      /\ goes' = [g \in DOMAIN goes |-> [goes[g] EXCEPT !.pc = "ended"]]
      /\ inputs' = [i \in DOMAIN inputs |-> [inputs[i] EXCEPT !.pc = "ended"]]
      /\ UNCHANGED checkpoints
  BY DEF RestartSimulations
<1>3. \A g \in DOMAIN goes : /\ goes'[g] \in GoRow /\ goes'[g].pc = "ended"
                             /\ goes'[g].session = goes[g].session
                             /\ goes'[g].cue = goes[g].cue /\ goes'[g].to = goes[g].to
  <2> TAKE g \in DOMAIN goes
  <2>1. PICK old : old = goes[g]
    OBVIOUS
  <2>2. old \in GoRow
    BY <2>1 DEF SimulationInv, Typed
  <2>3. goes'[g] = [old EXCEPT !.pc = "ended"]
    BY <1>2, <2>1
  <2> QED BY <2>1, <2>2, <2>3 DEF GoRow
<1>4. goes' \in Seq(GoRow) /\ DOMAIN goes' = DOMAIN goes
  <2>1. goes \in Seq(GoRow) /\ DOMAIN goes = 1..Len(goes) /\ Len(goes) \in Nat
    BY DEF SimulationInv, Typed
  <2>2. goes' = [g \in 1..Len(goes) |-> goes'[g]]
    BY <1>2, <2>1
  <2> QED BY <1>3, <2>1, <2>2
<1>5. \A i \in DOMAIN inputs : /\ inputs'[i] \in Input /\ inputs'[i].pc = "ended"
                               /\ inputs'[i].to = inputs[i].to
                               /\ inputs'[i].simulating = inputs[i].simulating
  <2> TAKE i \in DOMAIN inputs
  <2>1. PICK old : old = inputs[i]
    OBVIOUS
  <2>2. old \in Input
    BY <2>1 DEF SimulationInv, Typed
  <2>3. inputs'[i] = [old EXCEPT !.pc = "ended"]
    BY <1>2, <2>1
  <2> QED BY <2>1, <2>2, <2>3 DEF Input
<1>6. inputs' \in Seq(Input) /\ DOMAIN inputs' = DOMAIN inputs
  <2>1. inputs \in Seq(Input) /\ DOMAIN inputs = 1..Len(inputs) /\ Len(inputs) \in Nat
    BY DEF SimulationInv, Typed
  <2>2. inputs' = [i \in 1..Len(inputs) |-> inputs'[i]]
    BY <1>2, <2>1
  <2> QED BY <1>5, <2>1, <2>2
<1>7. client' \in [Clients -> Job] /\ twin' \in [1..MaxSessions -> SUBSET Cues]
  BY <1>2, IdleJob DEF SimulationInv, Typed
<1>8. Typed'
  BY <1>1, <1>2, <1>4, <1>6, <1>7 DEF SimulationInv, Typed
<1>9. \A c \in Clients : JobOK(c)'
  BY <1>2, IdleJob DEF JobOK
<1>10. \A s \in Ids' : RowOK(s)'
  BY <1>1 DEF RowOK
<1>11. \A g \in DOMAIN goes' : GoOK(g)'
  <2> SUFFICES ASSUME NEW g \in DOMAIN goes PROVE GoOK(g)'
    BY <1>4
  <2>1. PICK s : s = goes[g].session
    OBVIOUS
  <2>2. GoOK(g) /\ s \in Ids
    BY <2>1 DEF SimulationInv, GoOK
  <2>3. RowKept(s) /\ s \in Ids'
    BY <1>1, <2>2 DEF Grows
  <2>4. /\ goes[g].to # "none" => Within(s, goes[g].cue)
        /\ goes[g].to = "devices" => sessions[s].type # "SIMULATION"
    BY <2>1, <2>2 DEF GoOK
  <2>5. PICK row : row = goes'[g]
    OBVIOUS
  <2>6. /\ row.pc = "ended" /\ row.session = s /\ (row.to # "none" => Within(s, row.cue)')
        /\ row.to = "devices" => sessions'[s].type # "SIMULATION"
    BY <1>3, <2>1, <2>3, <2>4, <2>5 DEF RowKept, Within
  <2> QED BY <2>3, <2>5, <2>6 DEF GoOK
<1>12. \A i \in DOMAIN inputs' : InputOK(i)'
  BY <1>5, <1>6 DEF SimulationInv, InputOK
<1> QED BY <1>8, <1>9, <1>10, <1>11, <1>12 DEF SimulationInv

-----------------------------------------------------------------------------
(* The invariant, and what follows from it.                                *)

LEMMA SimulationInitially == SimulationInit => SimulationInv
<1> SUFFICES ASSUME SimulationInit PROVE SimulationInv
  OBVIOUS
<1>1. Typed
  BY IdleJob, SimulationAssumption DEF SimulationInit, Typed, Cues
<1>2. \A c \in Clients : JobOK(c)
  BY IdleJob DEF SimulationInit, JobOK
<1>3. DOMAIN sessions = {} /\ DOMAIN goes = {} /\ DOMAIN inputs = {}
  BY DEF SimulationInit
<1> QED BY <1>1, <1>2, <1>3 DEF SimulationInv

LEMMA SimulationStep == SimulationInv /\ [SimulationNext]_simulationVars => SimulationInv'
<1> SUFFICES ASSUME SimulationInv, [SimulationNext]_simulationVars
             PROVE  SimulationInv'
  OBVIOUS
<1>1. ASSUME NEW c \in Clients, NEW type \in Types, NEW p \in Positions, BeginStart(c, type, p)
      PROVE  SimulationInv'
  BY <1>1, BeginStartStep
<1>2. ASSUME NEW c \in Clients, CreateSession(c) PROVE SimulationInv'
  BY <1>2, CreateSessionStep
<1>3. ASSUME NEW c \in Clients, NEW s \in Ids, BeginCapture(c, s) PROVE SimulationInv'
  BY <1>3, BeginCaptureStep
<1>4. ASSUME NEW c \in Clients, NEW s \in Ids, NEW k \in DOMAIN checkpoints, BeginRestore(c, s, k)
      PROVE  SimulationInv'
  BY <1>4, BeginRestoreStep
<1>5. ASSUME NEW c \in Clients, CreateCheckpoint(c) PROVE SimulationInv'
  BY <1>5, CreateCheckpointStep
<1>6. ASSUME NEW c \in Clients, RestoreAtStart(c) PROVE SimulationInv'
  BY <1>6, RestoreAtStartStep
<1>7. ASSUME NEW c \in Clients, InstallTwin(c) PROVE SimulationInv'
  BY <1>7, InstallTwinStep
<1>8. ASSUME NEW c \in Clients, MarkRestored(c) PROVE SimulationInv'
  BY <1>8, MarkRestoredStep
<1>9. ASSUME NEW c \in Clients, RollBackTwin(c) PROVE SimulationInv'
  BY <1>9, RollBackTwinStep
<1>10. ASSUME NEW s \in Ids, NEW status \in {"COMPLETED", "ABORTED"}, EndSession(s, status)
       PROVE  SimulationInv'
  BY <1>10, EndSessionStep
<1>11. ASSUME NEW s \in Ids, ConfirmStartState(s) PROVE SimulationInv'
  BY <1>11, ConfirmStartStateStep
<1>12. ASSUME NEW s \in Ids, ResetTwin(s) PROVE SimulationInv'
  BY <1>12, ResetTwinStep
<1>13. ASSUME NEW s \in Ids, Inject(s) PROVE SimulationInv'
  BY <1>13, InjectStep
<1>14. ASSUME NEW s \in Ids, NEW wanted \in Cues \cup {None}, Go(s, wanted) PROVE SimulationInv'
  BY <1>14, GoRequestStep
<1>15. ASSUME NEW g \in DOMAIN goes, LaunchBegins(g) PROVE SimulationInv'
  BY <1>15, LaunchBeginsStep
<1>16. ASSUME NEW g \in DOMAIN goes, InsertCue(g) PROVE SimulationInv'
  BY <1>16, InsertCueStep
<1>17. ASSUME NEW g \in DOMAIN goes, SelectCue(g) PROVE SimulationInv'
  BY <1>17, SelectCueStep
<1>18. ASSUME NEW g \in DOMAIN goes, ExecuteAction(g) PROVE SimulationInv'
  BY <1>18, ExecuteActionStep
<1>19. ASSUME NEW g \in DOMAIN goes, NEW cancelled \in BOOLEAN, FinishCue(g, cancelled)
       PROVE  SimulationInv'
  BY <1>19, FinishCueStep
<1>20. ASSUME NEW i \in DOMAIN inputs, ResolveOwner(i) PROVE SimulationInv'
  BY <1>20, ResolveOwnerStep
<1>21. ASSUME NEW i \in DOMAIN inputs, ExecuteOutput(i) PROVE SimulationInv'
  BY <1>21, ExecuteOutputStep
<1>22. CASE RestartSimulations
  BY <1>22, RestartSimulationsStep
<1>23. CASE UNCHANGED simulationVars
  <2>1. UNCHANGED <<sessions, checkpoints, twin, client, goes, inputs>>
    BY <1>23 DEF simulationVars
  <2> QED BY <2>1 DEF SimulationInv, Typed, JobOK, RowOK, GoOK, InputOK, Within, MayGo, RangeOver, Active
<1> QED
  BY <1>1, <1>2, <1>3, <1>4, <1>5, <1>6, <1>7, <1>8, <1>9, <1>10, <1>11, <1>12, <1>13, <1>14,
     <1>15, <1>16, <1>17, <1>18, <1>19, <1>20, <1>21, <1>22, <1>23 DEF SimulationNext

LEMMA SimulationAlways == SimulationSpec => []SimulationInv
<1>1. SimulationInit => SimulationInv
  BY SimulationInitially
<1>2. SimulationInv /\ [SimulationNext]_simulationVars => SimulationInv'
  BY SimulationStep
<1> QED BY <1>1, <1>2, PTL DEF SimulationSpec

(* Every row, job, GO and input is of its type, whatever the requests        *)
(* interleave with (the rows of store/session_foundation.go).                *)
THEOREM SimulationTypes == SimulationSpec => [](Typed /\ SimulationTypeOK)
<1>1. SimulationInv => Typed
  BY DEF SimulationInv
<1>2. Typed => SimulationTypeOK
  <2> SUFFICES ASSUME Typed PROVE SimulationTypeOK
    OBVIOUS
  <2>1. \A s \in Ids : sessions[s] \in Row
    BY DEF Typed, Ids
  <2>2. \A g \in DOMAIN goes : goes[g] \in GoRow
    BY DEF Typed
  <2>3. \A c \in Clients : client[c] \in Job
    BY DEF Typed
  <2> QED BY <2>1, <2>2, <2>3, SimulationAssumption DEF SimulationTypeOK, Row, GoRow, Job, Place, Cues, None
<1> QED BY <1>1, <1>2, SimulationAlways, PTL

LEMMA ContainedFollows == SimulationInv => SimulationIsContained
<1> SUFFICES ASSUME SimulationInv PROVE SimulationIsContained
  OBVIOUS
<1>1. \A g \in DOMAIN goes : GoOK(g)
  BY DEF SimulationInv
<1>2. \A g \in DOMAIN goes :
        /\ goes[g].to = "devices" => goes[g].session \notin Simulated
        /\ goes[g].to # "none" => Within(goes[g].session, goes[g].cue)
  BY <1>1 DEF GoOK, Simulated
<1>3. \A i \in DOMAIN inputs : inputs[i].to = "devices" => ~inputs[i].simulating
  BY DEF SimulationInv, InputOK
<1>4. \A g \in DOMAIN goes : goes[g].session \in Active /\ goes[g].pc # "ended" => MayGo(goes[g].session)
  BY <1>1 DEF GoOK
<1>5. \A g \in DOMAIN goes :
        LET row == sessions[goes[g].session] IN
        goes[g].pc = "finished" /\ row.kind = "RANGE" /\ goes[g].cue = row.to =>
          row.status # "ACTIVE" /\ (row.status = "COMPLETED" => row.next = None)
  BY <1>1 DEF GoOK, RangeOver
<1> QED BY <1>2, <1>3, <1>4, <1>5 DEF SimulationIsContained

(* Nothing of a simulation reaches a device, a range lets no Cue outside it  *)
(* act and is over once its last has ended, and no GO is under way in a      *)
(* simulation that may not go: for any clients, Cues, Sessions and requests  *)
(* (SessionExecutor.Execute, the range triggers, Service.Go).                *)
THEOREM SimulationContained == SimulationSpec => []SimulationIsContained
  BY SimulationAlways, ContainedFollows, PTL

-----------------------------------------------------------------------------
(* Timecode. *)

Launches == [binding : BindingIds, after : 0..LastCue, read : 0..LastCue]

TimecodeTyped ==
  /\ kind \in Kinds /\ mode \in Modes
  /\ clock \in 0..MaxFrame /\ source \in 0..MaxFrame
  /\ cuerow \in [status : {"ACTIVE", "COMPLETED", "ABORTED"}, current : 0..LastCue]
  /\ rows \subseteq {"operator", "timecode"}
  /\ heard \in Samples
  /\ due \subseteq BindingIds /\ cursor \in 0..LastCue
  /\ worker \in {"none", "ready", "judge", "launch", "running"}
  /\ worker \in {"judge", "launch", "running"} => due # {}
  /\ launches \in Seq(Launches)

\* What was launched, and what is about to be, has a record of its command.
LaunchesOK ==
  /\ \A i \in DOMAIN launches : CommandOf(launches[i].binding, heard) \in commands
  /\ worker = "launch" => \A b \in due : First(b) =>
       /\ Bindings[b].cue = cursor + 1
       /\ CommandOf(b, heard) \in commands
       /\ \A i \in DOMAIN launches : launches[i].binding # b

TimecodeInv == TimecodeTyped /\ LaunchesOK /\ BindingLaunchesOnce

LEMMA BindingTypes ==
  \A b \in BindingIds :
    Bindings[b].cue \in 1..LastCue /\ Bindings[b].target \in Nat /\ Bindings[b].expiry \in Nat
  <1> DEFINE Shapes == [cue : 1..LastCue, target : Nat, expiry : Nat]
  <1>1. Bindings \in Seq(Shapes)
    BY TimecodeAssumption
  <1>2. \A s \in Shapes : s.cue \in 1..LastCue /\ s.target \in Nat /\ s.expiry \in Nat
    OBVIOUS
  <1> HIDE DEF Shapes
  <1>3. \A b \in BindingIds : Bindings[b] \in Shapes
    BY <1>1 DEF BindingIds
  <1> QED
    BY <1>2, <1>3

LEMMA TimecodeBegins == TimecodeInit => TimecodeInv
  BY TimecodeAssumption
     DEF TimecodeInit, TimecodeInv, TimecodeTyped, LaunchesOK, BindingLaunchesOnce, Samples,
         NoSample, Launches

\* The time, the source, the operator and the ways a worker begins and ends.
LEMMA TimecodeAround ==
  ASSUME TimecodeInv,
         \/ Pass \/ Seek \/ OperatorGo \/ OperatorCueEnds \/ CompleteSession
         \/ StartWorker \/ LeaveSession \/ CancelWorker \/ RestartTimecode
  PROVE  TimecodeInv'
  <1>1. UNCHANGED <<sealed, commands, launches>>
    BY DEF Pass, Seek, OperatorGo, OperatorCueEnds, CompleteSession, StartWorker,
           LeaveSession, CancelWorker, RestartTimecode
  <1>2. clock' \in 0..MaxFrame /\ source' \in 0..MaxFrame
    BY TimecodeAssumption
       DEF Pass, Seek, OperatorGo, OperatorCueEnds, CompleteSession, StartWorker,
           LeaveSession, CancelWorker, RestartTimecode, TimecodeInv, TimecodeTyped
  <1>3. /\ cuerow' \in [status : {"ACTIVE", "COMPLETED", "ABORTED"}, current : 0..LastCue]
        /\ rows' \subseteq {"operator", "timecode"}
    BY TimecodeAssumption
       DEF Pass, Seek, OperatorGo, OperatorCueEnds, CompleteSession, StartWorker,
           LeaveSession, CancelWorker, RestartTimecode, TimecodeInv, TimecodeTyped
  <1>4. /\ heard' \in Samples /\ cursor' \in 0..LastCue
        /\ \/ UNCHANGED <<due, cursor, worker>>
           \/ /\ due' \subseteq due /\ worker' \in {"none", "ready"}
    BY TimecodeAssumption
       DEF Pass, Seek, OperatorGo, OperatorCueEnds, CompleteSession, StartWorker, memory,
           LeaveSession, CancelWorker, RestartTimecode, TimecodeInv, TimecodeTyped, Samples
  <1>5. LaunchesOK' /\ BindingLaunchesOnce'
    BY <1>1, <1>4 DEF TimecodeInv, LaunchesOK, BindingLaunchesOnce, CommandOf, First
  <1> QED
    BY <1>1, <1>2, <1>3, <1>4, <1>5 DEF TimecodeInv, TimecodeTyped, sealed

LEMMA TimecodeObserves ==
  ASSUME TimecodeInv, ObserveSample
  PROVE  TimecodeInv'
  <1>1. Now \in Samples
    BY DEF Now, Samples, TimecodeInv, TimecodeTyped
  <1>2. /\ UNCHANGED <<sealed, clock, source, cuerow, rows, commands, launches>>
        /\ heard' = Now /\ cursor' = cuerow.current /\ due' \subseteq BindingIds
        /\ worker' \in {"ready", "judge"} /\ (worker' = "judge" => due' # {})
    BY DEF ObserveSample
  <1> QED
    BY <1>1, <1>2
       DEF TimecodeInv, TimecodeTyped, LaunchesOK, BindingLaunchesOnce, CommandOf, sealed

\* A decision is acted on: a command of which there is a record is never carried
\* out again, and the one that is now recorded has launched nothing yet.
LEMMA TimecodeLaunches ==
  ASSUME TimecodeInv, NEW b \in BindingIds, Trigger(b) \/ Launch(b) \/ EndCue(b)
  PROVE  TimecodeInv'
  <1>1. UNCHANGED <<sealed, clock, source, heard>> /\ First(b)
    BY DEF Trigger, Launch, EndCue
  <1>2. CASE Trigger(b) /\ worker' = "launch"
    <2>1. /\ UNCHANGED <<due, cursor, launches, cuerow, rows>>
          /\ Bindings[b].cue = cursor + 1 /\ CommandOf(b, heard) \notin commands
          /\ commands' = commands \cup {CommandOf(b, heard)}
      BY <1>2 DEF Trigger, Proceed
    <2>2. \A c \in due : First(c) => c = b
      BY <1>1, BindingTypes DEF First, TimecodeInv, TimecodeTyped, BindingIds
    <2>3. LaunchesOK'
      BY <1>1, <2>1, <2>2 DEF TimecodeInv, LaunchesOK, CommandOf, First
    <2> QED
      BY <1>1, <1>2, <2>1, <2>3
         DEF TimecodeInv, TimecodeTyped, BindingLaunchesOnce, sealed, First
  <1>3. CASE Proceed(b) /\ UNCHANGED <<commands, cuerow, launches>>
    <2>1. cursor' \in 0..LastCue /\ rows' \subseteq rows
      BY <1>3 DEF Trigger, Launch, EndCue, TimecodeInv, TimecodeTyped
    <2>2. /\ due' \subseteq due /\ worker' \in {"ready", "judge"}
          /\ worker' = "judge" => due' # {}
      BY <1>3 DEF Proceed
    <2> QED
      BY <1>1, <1>3, <2>1, <2>2
         DEF TimecodeInv, TimecodeTyped, LaunchesOK, BindingLaunchesOnce, CommandOf, sealed
  <1>4. CASE Launch(b) /\ worker' = "running"
    <2> DEFINE l == [binding |-> b, after |-> cuerow.current, read |-> cursor]
    <2>1. /\ worker = "launch" /\ cursor \in {0, cuerow.current}
          /\ cuerow' = [cuerow EXCEPT !.current = Bindings[b].cue]
          /\ rows' = {"timecode"} /\ launches' = Append(launches, l)
          /\ UNCHANGED <<due, cursor, commands>>
      BY <1>4 DEF Launch, Proceed
    <2>2. /\ Bindings[b].cue = cursor + 1 /\ CommandOf(b, heard) \in commands
          /\ \A i \in DOMAIN launches : launches[i].binding # b
      BY <1>1, <2>1 DEF TimecodeInv, LaunchesOK, First
    <2>3. l \in Launches /\ l.binding = b /\ l.after = cuerow.current /\ l.read = cursor
      BY DEF Launches, TimecodeInv, TimecodeTyped
    <2> HIDE DEF l
    <2>4. /\ launches' \in Seq(Launches) /\ Len(launches') = Len(launches) + 1
          /\ Len(launches) \in Nat /\ DOMAIN launches = 1..Len(launches)
          /\ DOMAIN launches' = 1..(Len(launches) + 1)
          /\ launches'[Len(launches) + 1] = l
          /\ \A i \in DOMAIN launches : launches'[i] = launches[i]
      BY <2>1, <2>3 DEF TimecodeInv, TimecodeTyped
    <2>5. ASSUME NEW i \in DOMAIN launches'
          PROVE  \/ i \in DOMAIN launches /\ launches'[i] = launches[i]
                 \/ i = Len(launches) + 1 /\ launches'[i] = l
      BY <2>4
    <2>6. LaunchesOK'
      BY <1>1, <1>4, <2>1, <2>2, <2>3, <2>5 DEF TimecodeInv, LaunchesOK, CommandOf
    <2>7. BindingLaunchesOnce'
      BY <2>1, <2>2, <2>3, <2>5 DEF TimecodeInv, BindingLaunchesOnce
    <2>8. cuerow' \in [status : {"ACTIVE", "COMPLETED", "ABORTED"}, current : 0..LastCue]
      BY <2>1, BindingTypes DEF TimecodeInv, TimecodeTyped
    <2> QED
      BY <1>1, <1>4, <2>1, <2>4, <2>6, <2>7, <2>8 DEF TimecodeInv, TimecodeTyped, sealed, First
  <1> QED
    BY <1>2, <1>3, <1>4 DEF Trigger, Launch, EndCue, Proceed

LEMMA TimecodeStep == TimecodeInv /\ [TimecodeNext]_timecodeVars => TimecodeInv'
  <1> SUFFICES ASSUME TimecodeInv, [TimecodeNext]_timecodeVars PROVE TimecodeInv'
    OBVIOUS
  <1>1. CASE UNCHANGED timecodeVars
    BY <1>1 DEF timecodeVars, TimecodeInv, TimecodeTyped, LaunchesOK, BindingLaunchesOnce,
                CommandOf, First
  <1> QED
    BY <1>1, TimecodeAround, TimecodeObserves, TimecodeLaunches DEF TimecodeNext

\* The Session row, the last sample, the decisions under way and the launches stay
\* in their domains (internal/timecode).
THEOREM TimecodeTypes == TimecodeSpec => []TimecodeTypeOK
  <1>1. TimecodeInv => TimecodeTypeOK
    <2> SUFFICES ASSUME TimecodeInv PROVE TimecodeTypeOK
      OBVIOUS
    <2>1. \A i \in DOMAIN launches : launches[i] \in Launches
      BY DEF TimecodeInv, TimecodeTyped
    <2>2. \A i \in DOMAIN launches : launches[i].binding \in BindingIds
      BY <2>1 DEF Launches
    <2> QED
      BY <2>2 DEF TimecodeInv, TimecodeTyped, TimecodeTypeOK
  <1> QED
    BY <1>1, TimecodeBegins, TimecodeStep, PTL DEF TimecodeSpec

\* A binding launches its Cue once in a Session, as the Cue after the current one,
\* however often its frame is crossed, by whichever worker, and over restarts
\* (observeNormalized, ReserveCommand, Engine.selectCue).
THEOREM BindingOnce == TimecodeSpec => []BindingLaunchesOnce
  <1>1. TimecodeInv => BindingLaunchesOnce
    BY DEF TimecodeInv
  <1> QED
    BY <1>1, TimecodeBegins, TimecodeStep, PTL DEF TimecodeSpec

-----------------------------------------------------------------------------
(* CueActions. *)

Executions(c) ==
  [DOMAIN Actions[c] ->
     [pc : {"none", "running", "done"}, result : Results, fatal : BOOLEAN, failed : BOOLEAN]]
Branches ==
  [pc : {"delay", "next", "await", "drain", "ended"}, next : Nat \ {0}, pending : Seq(Nat),
   final : Results, after : Results, result : Results, failed : BOOLEAN]

Fails(e, i) == e[i].pc = "done" /\ e[i].fatal
Waits(b, i) == \E k \in DOMAIN b.pending : b.pending[k] = i
Mode(c, i) == Actions[c][i].mode

\* The Actions a branch has reached were started; those it does not wait for are
\* done, and if one of them failed the Cue it keeps a result that says so.
ReachedOK(c, b, e) == \A i \in DOMAIN Actions[c] :
  /\ i < b.next => e[i].pc # "none"
  /\ i > b.next => e[i].pc = "none"
  /\ i = b.next => e[i].pc # "none" \/ (b.pc # "await" /\ b.after = "COMPLETED")
  /\ e[i].pc # "none" /\ i = b.next /\ ~b.failed => b.pc = "await" \/ b.after # "COMPLETED"
  /\ i < b.next /\ ~b.failed /\ ~Waits(b, i) =>
       e[i].pc = "done" /\ (e[i].fatal => b.final # "COMPLETED")
  /\ e[i].pc = "none" => ~e[i].fatal
  /\ e[i].fatal => e[i].result # "COMPLETED"

\* What a branch waits for was started, without waiting, after the last barrier.
PendingOK(c, b) == \A i : Waits(b, i) =>
  /\ i \in DOMAIN Actions[c] /\ i < b.next /\ Mode(c, i) # "SEQUENTIAL"
  /\ b.pc \in {"next", "await"} =>
       \A j \in DOMAIN Actions[c] : i <= j /\ j < b.next => Mode(c, j) # "PARALLEL_BARRIER"

\* The results that a branch keeps are those of its Actions, or of a STOP.
FinalOK(c, b, e, stopped) ==
  /\ b.pc \in {"delay", "next", "await"} => b.final = "COMPLETED" /\ b.after = "COMPLETED"
  /\ b.pc = "delay" => b.next = 1 /\ b.pending = <<>>
  /\ b.pc = "await" => b.next \in DOMAIN Actions[c] /\ Mode(c, b.next) = "SEQUENTIAL"
  /\ b.final # "COMPLETED" =>
       \E i \in DOMAIN Actions[c] : Fails(e, i) /\ e[i].result = b.final
  /\ b.after # "COMPLETED" =>
       /\ b.next \in DOMAIN Actions[c]
       /\ Fails(e, b.next) /\ e[b.next].result = b.after
  /\ b.failed => b.pc = "ended"
  /\ b.pc = "ended" /\ ~b.failed =>
       /\ b.pending = <<>>
       /\ b.result = "COMPLETED" =>
            b.final = "COMPLETED" /\ b.after = "COMPLETED" /\ b.next > Len(Actions[c])
       /\ b.result # "COMPLETED" =>
            \/ stopped
            \/ \E i \in DOMAIN Actions[c] : Fails(e, i) /\ e[i].result = b.result

\* The second part of CueEndsWhole, of one Cue.
OrderOK(c, e) == \A i, j \in DOMAIN Actions[c] : e[i].pc # "none" /\ j < i =>
  /\ Mode(c, j) = "SEQUENTIAL" => e[j].pc = "done" /\ ~Fails(e, j)
  /\ Mode(c, j) = "PARALLEL_BARRIER" =>
       \A k \in DOMAIN Actions[c] : k <= j => e[k].pc = "done" /\ ~Fails(e, k)

BranchOK(c, b, e, stopped) ==
  /\ b \in Branches /\ e \in Executions(c)
  /\ ReachedOK(c, b, e) /\ PendingOK(c, b) /\ FinalOK(c, b, e, stopped) /\ OrderOK(c, e)

\* What was gathered has ended; a result says what the branches' results were.
GatherOK ==
  /\ gathered \subseteq group /\ outcome \in Results \cup {"RUNNING"}
  /\ RootCue \in group /\ group \subseteq ShowCues
  /\ \A c \in gathered : branch[c].pc = "ended" /\ (~failedAt => ~branch[c].failed)
  /\ outcome = "RUNNING" => ~failedAt
  /\ outcome # "RUNNING" /\ ~failedAt =>
       /\ gathered = group
       /\ outcome = "COMPLETED" => \A c \in group : branch[c].result = "COMPLETED"
       /\ \E c \in group : branch[c].result = outcome

CueInv ==
  /\ branch = [c \in ShowCues |-> branch[c]] /\ acts = [c \in ShowCues |-> acts[c]]
  /\ stop \in BOOLEAN
  /\ \A c \in ShowCues : BranchOK(c, branch[c], acts[c], stop)
  /\ GatherOK

LEMMA CueBegins == CueInit => CueInv
  <1> SUFFICES ASSUME CueInit PROVE CueInv
    OBVIOUS
  <1>1. \A c \in ShowCues : branch[c] = NoBranch /\ acts[c] = [i \in DOMAIN Actions[c] |-> NoExecution]
    BY DEF CueInit
  <1>2. \A c \in ShowCues : BranchOK(c, branch[c], acts[c], stop)
    <2> SUFFICES ASSUME NEW c \in ShowCues PROVE BranchOK(c, branch[c], acts[c], stop)
      OBVIOUS
    <2>1. DOMAIN Actions[c] \subseteq Nat \ {0}
      BY CueAssumption
    <2>2. /\ NoBranch \in Branches /\ NoBranch.pc = "delay" /\ NoBranch.next = 1
          /\ NoBranch.pending = <<>> /\ NoBranch.final = "COMPLETED"
          /\ NoBranch.after = "COMPLETED" /\ ~NoBranch.failed
      BY DEF NoBranch, Branches, Results
    <2> DEFINE E == [pc : {"none", "running", "done"}, result : Results, fatal : BOOLEAN,
                     failed : BOOLEAN]
    <2>a. NoExecution \in E
      BY DEF NoExecution, Results
    <2>b. acts[c] \in [DOMAIN Actions[c] -> E] /\ \A i \in DOMAIN Actions[c] : acts[c][i] = NoExecution
      BY <1>1, <2>a
    <2>3. acts[c] \in Executions(c) /\ \A i \in DOMAIN Actions[c] : acts[c][i] = NoExecution
      BY <2>b DEF Executions
    <2>4. NoExecution.pc = "none" /\ ~NoExecution.fatal
      BY DEF NoExecution
    <2>5. ReachedOK(c, NoBranch, acts[c])
      BY <2>1, <2>2, <2>3, <2>4 DEF ReachedOK
    <2>6. PendingOK(c, NoBranch)
      BY <2>2 DEF PendingOK, Waits
    <2>7. FinalOK(c, NoBranch, acts[c], stop)
      BY <2>2 DEF FinalOK
    <2>8. OrderOK(c, acts[c])
      BY <2>3, <2>4 DEF OrderOK
    <2> QED
      BY <1>1, <2>2, <2>3, <2>5, <2>6, <2>7, <2>8 DEF BranchOK
  <1>3. RootCue \in group /\ group \subseteq ShowCues
    <2>1. \A f, c : Below(f, c) \subseteq ShowCues
      BY DEF Below
    <2>2. \A g \in Groups : RootCue \in g /\ g \subseteq ShowCues
      BY <2>1, CueAssumption DEF Groups
    <2> QED
      BY <2>2 DEF CueInit
  <1> QED
    BY <1>2, <1>3 DEF CueInv, CueInit, GatherOK

\* Of the branches and their Actions, only those of c move.
LEMMA BranchMoves ==
  ASSUME CueInv, NEW c \in ShowCues, NEW b, NEW e, BranchOK(c, b, e, stop),
         branch' = [branch EXCEPT ![c] = b], acts' = [acts EXCEPT ![c] = e],
         UNCHANGED <<group, stop, gathered, outcome, failedAt>>,
         b = branch[c] \/ branch[c].pc # "ended"
  PROVE  CueInv'
  <1>1. /\ branch' = [d \in ShowCues |-> branch'[d]] /\ acts' = [d \in ShowCues |-> acts'[d]]
        /\ branch'[c] = b /\ acts'[c] = e
        /\ \A d \in ShowCues : d # c => branch'[d] = branch[d] /\ acts'[d] = acts[d]
    BY DEF CueInv
  <1>2. \A d \in ShowCues : BranchOK(d, branch'[d], acts'[d], stop')
    BY <1>1 DEF CueInv
  <1>3. \A d \in gathered : branch'[d] = branch[d]
    BY <1>1 DEF CueInv, GatherOK
  <1>4. GatherOK'
    BY <1>3 DEF CueInv, GatherOK
  <1> QED
    BY <1>1, <1>2, <1>4 DEF CueInv

LEMMA ActionTypes ==
  ASSUME NEW c \in ShowCues
  PROVE  /\ Len(Actions[c]) \in Nat /\ DOMAIN Actions[c] = 1..Len(Actions[c])
         /\ \A i \in DOMAIN Actions[c] :
              Mode(c, i) \in {"SEQUENTIAL", "PARALLEL", "PARALLEL_BARRIER"}
  <1> DEFINE Shapes == [mode : {"SEQUENTIAL", "PARALLEL", "PARALLEL_BARRIER"}, strict : BOOLEAN]
  <1>1. Actions[c] \in Seq(Shapes)
    BY CueAssumption
  <1>2. \A s \in Shapes : s.mode \in {"SEQUENTIAL", "PARALLEL", "PARALLEL_BARRIER"}
    OBVIOUS
  <1> HIDE DEF Shapes
  <1>3. /\ Len(Actions[c]) \in Nat /\ DOMAIN Actions[c] = 1..Len(Actions[c])
        /\ \A i \in DOMAIN Actions[c] : Actions[c][i] \in Shapes
    BY <1>1
  <1> QED
    BY <1>2, <1>3 DEF Mode

LEMMA BranchTypes ==
  ASSUME NEW b \in Branches
  PROVE  /\ b.pc \in {"delay", "next", "await", "drain", "ended"} /\ b.next \in Nat \ {0}
         /\ b.pending \in Seq(Nat) /\ b.final \in Results /\ b.after \in Results
         /\ b.result \in Results /\ b.failed \in BOOLEAN
  BY DEF Branches

LEMMA ExecutionTypes ==
  ASSUME NEW c \in ShowCues, NEW e \in Executions(c), NEW i \in DOMAIN Actions[c]
  PROVE  /\ e[i].pc \in {"none", "running", "done"} /\ e[i].result \in Results
         /\ e[i].fatal \in BOOLEAN /\ e[i].failed \in BOOLEAN
  BY DEF Executions

LEMMA BranchKnown ==
  ASSUME CueInv, NEW c \in ShowCues
  PROVE  /\ BranchOK(c, branch[c], acts[c], stop)
         /\ branch[c] \in Branches /\ acts[c] \in Executions(c) /\ stop \in BOOLEAN
         /\ acts = [acts EXCEPT ![c] = acts[c]]
         /\ branch = [branch EXCEPT ![c] = branch[c]]
  BY DEF CueInv, BranchOK

\* The delay is over, or a STOP ends it.
LEMMA BranchBegins ==
  ASSUME CueInv, NEW c \in ShowCues, BeginBranch(c)
  PROVE  CueInv'
  <1> DEFINE b == branch[c]  e == acts[c]
             x == IF stop THEN Ended(b, "CANCELLED") ELSE [b EXCEPT !.pc = "next"]
  <1>1. /\ b.pc = "delay" /\ branch' = [branch EXCEPT ![c] = x] /\ acts' = [acts EXCEPT ![c] = e]
        /\ UNCHANGED <<group, stop, gathered, outcome, failedAt>>
    BY BranchKnown DEF BeginBranch, Moves
  <1>2. /\ x \in Branches /\ x.next = b.next /\ x.pending = b.pending /\ x.final = b.final
        /\ x.after = b.after /\ x.failed = b.failed
        /\ x.pc = IF stop THEN "ended" ELSE "next"
        /\ stop => x.result = "CANCELLED"
    BY BranchKnown DEF Branches, Ended, Results
  <1> HIDE DEF x
  <1>3. BranchOK(c, b, e, stop) /\ b.pc = "delay" /\ ~b.failed
    BY <1>1, BranchKnown, BranchTypes DEF BranchOK, FinalOK
  <1>4. ReachedOK(c, x, e)
    BY <1>2, <1>3, ActionTypes DEF BranchOK, ReachedOK, FinalOK, Waits
  <1>5. PendingOK(c, x)
    BY <1>2, <1>3 DEF BranchOK, FinalOK, PendingOK, Waits
  <1>6. FinalOK(c, x, e, stop)
    BY <1>2, <1>3 DEF BranchOK, FinalOK
  <1>7. BranchOK(c, x, e, stop)
    BY <1>2, <1>3, <1>4, <1>5, <1>6 DEF BranchOK
  <1> QED
    BY <1>1, <1>7, BranchMoves

\* An error leaves what the branch has started.
LEMMA BranchBreaks ==
  ASSUME CueInv, NEW c \in ShowCues, branch[c].pc # "ended",
         branch' = [branch EXCEPT ![c] = Broken(branch[c])],
         UNCHANGED <<acts, group, stop, gathered, outcome, failedAt>>
  PROVE  CueInv'
  <1> DEFINE b == branch[c]  e == acts[c]  x == Broken(b)
  <1>2. /\ x \in Branches /\ x.next = b.next /\ x.pending = b.pending /\ x.final = b.final
        /\ x.after = b.after /\ x.failed /\ x.pc = "ended"
    BY BranchKnown DEF Branches, Broken, Results
  <1>1. /\ branch' = [branch EXCEPT ![c] = x] /\ acts' = [acts EXCEPT ![c] = e]
    BY BranchKnown
  <1> HIDE DEF x
  <1>3. BranchOK(c, b, e, stop)
    BY BranchKnown
  <1>4. ReachedOK(c, x, e)
    BY <1>2, <1>3 DEF BranchOK, ReachedOK, FinalOK
  <1>5. PendingOK(c, x)
    BY <1>2, <1>3 DEF BranchOK, PendingOK, Waits
  <1>6. FinalOK(c, x, e, stop)
    BY <1>2, <1>3 DEF BranchOK, FinalOK
  <1>7. BranchOK(c, x, e, stop)
    BY <1>2, <1>3, <1>4, <1>5, <1>6 DEF BranchOK
  <1> QED
    BY <1>1, <1>7, BranchMoves

LEMMA ActionStarts ==
  ASSUME CueInv, NEW c \in ShowCues, StartAction(c)
  PROVE  CueInv'
  <1> DEFINE b == branch[c]  n == b.next  how == Mode(c, n)
             e == [acts[c] EXCEPT ![n].pc = "running"]
             x == IF how = "SEQUENTIAL" THEN [b EXCEPT !.pc = "await"]
                  ELSE [b EXCEPT !.pending = Append(@, n), !.next = @ + 1,
                                 !.pc = IF how = "PARALLEL" THEN "next" ELSE "drain"]
  <1>0. BranchOK(c, b, acts[c], stop) /\ b \in Branches /\ acts[c] \in Executions(c)
    BY BranchKnown
  <1>1. /\ b.pc = "next" /\ n \in DOMAIN Actions[c]
        /\ branch' = [branch EXCEPT ![c] = x] /\ acts' = [acts EXCEPT ![c] = e]
        /\ UNCHANGED <<group, stop, gathered, outcome, failedAt>>
    BY <1>0, ActionTypes, BranchTypes DEF StartAction, Moves, Reached, Mode
  <1>2. /\ e \in Executions(c) /\ e[n].pc = "running" /\ e[n].fatal = acts[c][n].fatal
        /\ e[n].result = acts[c][n].result
        /\ \A i \in DOMAIN Actions[c] : i # n => e[i] = acts[c][i]
    BY <1>0, <1>1 DEF Executions
  <1>3. /\ x \in Branches /\ x.final = b.final /\ x.after = b.after /\ x.failed = b.failed
        /\ how = "SEQUENTIAL" => x.pc = "await" /\ x.next = n /\ x.pending = b.pending
        /\ how # "SEQUENTIAL" =>
             /\ x.pc = (IF how = "PARALLEL" THEN "next" ELSE "drain")
             /\ x.next = n + 1 /\ x.pending = Append(b.pending, n)
    <2>1. /\ b.pending \in Seq(Nat) /\ Append(b.pending, n) \in Seq(Nat)
          /\ n \in Nat \ {0} /\ n + 1 \in Nat \ {0}
      BY <1>0, BranchTypes
    <2>2. CASE how = "SEQUENTIAL"
      BY <1>0, <2>1, <2>2 DEF Branches
    <2>3. CASE how # "SEQUENTIAL"
      BY <1>0, <2>1, <2>3 DEF Branches
    <2> QED
      BY <2>2, <2>3
  <1> HIDE DEF e, x
  <1>4. \A i : Waits(x, i) <=> Waits(b, i) \/ (how # "SEQUENTIAL" /\ i = n)
    <2>1. /\ b.pending \in Seq(Nat) /\ n \in Nat /\ Len(b.pending) \in Nat
          /\ DOMAIN b.pending = 1..Len(b.pending)
      BY <1>0, BranchTypes
    <2>2. CASE how = "SEQUENTIAL"
      BY <1>3, <2>2 DEF Waits
    <2>3. CASE how # "SEQUENTIAL"
      <3>1. /\ DOMAIN x.pending = 1..(Len(b.pending) + 1)
            /\ x.pending[Len(b.pending) + 1] = n
            /\ \A k \in DOMAIN b.pending : x.pending[k] = b.pending[k]
        BY <1>3, <2>1, <2>3
      <3> QED
        <4>1. ASSUME NEW i PROVE Waits(x, i) => Waits(b, i) \/ i = n
          BY <2>1, <3>1 DEF Waits
        <4>2. ASSUME NEW i PROVE Waits(b, i) => Waits(x, i)
          BY <2>1, <3>1 DEF Waits
        <4>3. Waits(x, n)
          BY <2>1, <3>1 DEF Waits
        <4> QED
          BY <2>3, <4>1, <4>2, <4>3
    <2> QED
      BY <2>2, <2>3
  <1>5. /\ b.final = "COMPLETED" /\ b.after = "COMPLETED" /\ ~b.failed
        /\ acts[c][n].pc = "none" /\ n \in Nat \ {0}
    BY <1>0, <1>1, BranchTypes, ExecutionTypes DEF BranchOK, FinalOK, ReachedOK
  <1>6. ReachedOK(c, x, e)
    BY <1>0, <1>1, <1>2, <1>3, <1>4, <1>5, ActionTypes DEF BranchOK, ReachedOK
  <1>7. PendingOK(c, x)
    BY <1>0, <1>1, <1>3, <1>4, <1>5, ActionTypes DEF BranchOK, PendingOK
  <1>8. FinalOK(c, x, e, stop)
    BY <1>0, <1>1, <1>3, <1>5 DEF BranchOK, FinalOK
  <1>9. OrderOK(c, e)
    <2>1. ASSUME NEW j \in DOMAIN Actions[c], j < n
          PROVE  /\ Mode(c, j) = "SEQUENTIAL" => acts[c][j].pc = "done" /\ ~Fails(acts[c], j)
                 /\ Mode(c, j) = "PARALLEL_BARRIER" => ~Waits(b, j)
                 /\ ~Waits(b, j) => acts[c][j].pc = "done" /\ ~Fails(acts[c], j)
      BY <1>0, <1>1, <1>5, <2>1, ActionTypes DEF BranchOK, PendingOK, ReachedOK, Fails
    <2>2. ASSUME NEW j \in DOMAIN Actions[c], j < n, Mode(c, j) = "PARALLEL_BARRIER",
                 NEW k \in DOMAIN Actions[c], k <= j
          PROVE  acts[c][k].pc = "done" /\ ~Fails(acts[c], k)
      BY <1>0, <1>1, <1>5, <2>1, <2>2, ActionTypes DEF BranchOK, PendingOK
    <2>3. \A i \in DOMAIN Actions[c] : acts[c][i].pc = "done" => e[i] = acts[c][i]
      BY <1>2, <1>5
    <2>4. \A i \in DOMAIN Actions[c] : e[i].pc # "none" => i = n \/ acts[c][i].pc # "none"
      BY <1>2
    <2>5. OrderOK(c, acts[c])
      BY <1>0 DEF BranchOK
    <2> QED
      BY <1>1, <2>1, <2>2, <2>3, <2>4, <2>5 DEF OrderOK, Fails
  <1>10. BranchOK(c, x, e, stop)
    BY <1>2, <1>3, <1>6, <1>7, <1>8, <1>9 DEF BranchOK
  <1> QED
    BY <1>1, <1>10, BranchMoves

LEMMA SequentialRead ==
  ASSUME CueInv, NEW c \in ShowCues, ReadSequential(c)
  PROVE  CueInv'
  <1> DEFINE b == branch[c]  e == acts[c]  n == b.next
             x == IF e[n].fatal THEN [b EXCEPT !.pc = "drain", !.after = e[n].result]
                  ELSE [b EXCEPT !.pc = "next", !.next = @ + 1]
  <1>0. BranchOK(c, b, e, stop) /\ b \in Branches /\ e \in Executions(c)
    BY BranchKnown
  <1>1. /\ b.pc = "await" /\ e[n].pc = "done" /\ acts' = [acts EXCEPT ![c] = e]
        /\ UNCHANGED <<group, stop, gathered, outcome, failedAt, acts>>
    BY BranchKnown DEF ReadSequential
  <1>2. CASE branch' = [branch EXCEPT ![c] = Broken(branch[c])]
    BY <1>1, <1>2, BranchBreaks
  <1>3. CASE branch' = [branch EXCEPT ![c] = x]
    <2>1. /\ n \in DOMAIN Actions[c] /\ Mode(c, n) = "SEQUENTIAL"
          /\ b.final = "COMPLETED" /\ b.after = "COMPLETED" /\ ~b.failed
          /\ e[n].result \in Results /\ e[n].fatal \in BOOLEAN
          /\ (e[n].fatal => e[n].result # "COMPLETED") /\ n \in Nat \ {0}
      BY <1>0, <1>1, ExecutionTypes, BranchTypes DEF BranchOK, FinalOK, ReachedOK
    <2>2. /\ x \in Branches /\ x.pending = b.pending /\ x.final = b.final /\ x.failed = b.failed
          /\ e[n].fatal => x.pc = "drain" /\ x.after = e[n].result /\ x.next = n
          /\ ~e[n].fatal => x.pc = "next" /\ x.after = b.after /\ x.next = n + 1
      <3>1. CASE e[n].fatal
        BY <1>0, <2>1, <3>1 DEF Branches
      <3>2. CASE ~e[n].fatal
        <4>1. n + 1 \in Nat \ {0}
          BY <2>1
        <4> QED
          BY <1>0, <2>1, <3>2, <4>1 DEF Branches
      <3> QED
        BY <3>1, <3>2
    <2> HIDE DEF x
    <2>3. ReachedOK(c, x, e)
      BY <1>0, <1>1, <2>1, <2>2, ActionTypes DEF BranchOK, ReachedOK, Waits
    <2>4. PendingOK(c, x)
      BY <1>0, <1>1, <2>1, <2>2, ActionTypes DEF BranchOK, PendingOK, Waits
    <2>5. FinalOK(c, x, e, stop)
      BY <1>0, <1>1, <2>1, <2>2 DEF BranchOK, FinalOK, Fails
    <2>6. BranchOK(c, x, e, stop)
      BY <1>0, <2>2, <2>3, <2>4, <2>5 DEF BranchOK
    <2> QED
      BY <1>1, <1>3, <2>6, BranchMoves
  <1> QED
    BY <1>2, <1>3 DEF ReadSequential, Moves

LEMMA PendingRead ==
  ASSUME CueInv, NEW c \in ShowCues, ReadPending(c)
  PROVE  CueInv'
  <1> DEFINE b == branch[c]  e == acts[c]  n == Head(b.pending)
             x == [b EXCEPT !.pending = Tail(@),
                            !.final = IF e[n].fatal /\ @ = "COMPLETED" THEN e[n].result ELSE @]
  <1>0. BranchOK(c, b, e, stop) /\ b \in Branches /\ e \in Executions(c)
    BY BranchKnown
  <1>1. /\ b.pc = "drain" /\ b.pending # <<>> /\ e[n].pc = "done" /\ acts' = [acts EXCEPT ![c] = e]
        /\ UNCHANGED <<group, stop, gathered, outcome, failedAt, acts>>
    BY BranchKnown DEF ReadPending
  <1>2. CASE branch' = [branch EXCEPT ![c] = Broken(branch[c])]
    BY <1>1, <1>2, BranchBreaks
  <1>3. CASE branch' = [branch EXCEPT ![c] = x]
    <2>0. b.pending \in Seq(Nat) /\ b.final \in Results /\ b.next \in Nat \ {0}
      BY <1>0, BranchTypes
    <2>1. /\ n \in Nat /\ Tail(b.pending) \in Seq(Nat) /\ n = b.pending[1]
          /\ 1 \in DOMAIN b.pending
      BY <1>1, <2>0
    <2>2. /\ \A k \in DOMAIN b.pending : k # 1 =>
               k - 1 \in DOMAIN Tail(b.pending) /\ Tail(b.pending)[k - 1] = b.pending[k]
          /\ \A k \in DOMAIN Tail(b.pending) :
               k + 1 \in DOMAIN b.pending /\ Tail(b.pending)[k] = b.pending[k + 1]
      <3> DEFINE p == b.pending  t == Tail(b.pending)
      <3>1. Len(p) \in Nat \ {0} /\ DOMAIN p = 1..Len(p) /\ DOMAIN t = 1..(Len(p) - 1)
            /\ \A k \in 1..(Len(p) - 1) : t[k] = p[k + 1]
        BY <1>1, <2>0
      <3> HIDE DEF t
      <3> QED
        BY <3>1
    <2>3. ~b.failed /\ Waits(b, n) /\ n \in DOMAIN Actions[c]
      BY <1>0, <1>1, <2>1 DEF BranchOK, FinalOK, PendingOK, Waits
    <2>4. /\ e[n].result \in Results /\ e[n].fatal \in BOOLEAN
          /\ e[n].fatal => e[n].result # "COMPLETED"
      BY <1>0, <2>3, ExecutionTypes DEF BranchOK, ReachedOK
    <2>5. /\ x \in Branches /\ x.pc = b.pc /\ x.next = b.next /\ x.after = b.after
          /\ x.failed = b.failed /\ x.pending = Tail(b.pending)
          /\ x.final = IF e[n].fatal /\ b.final = "COMPLETED" THEN e[n].result ELSE b.final
      BY <1>0, <2>0, <2>1, <2>4 DEF Branches
    <2> HIDE DEF x
    <2>6. /\ \A i : Waits(x, i) => Waits(b, i)
          /\ \A i : Waits(b, i) => Waits(x, i) \/ i = n
      <3>1. ASSUME NEW i, Waits(x, i) PROVE Waits(b, i)
        BY <2>2, <2>5, <3>1 DEF Waits
      <3>2. ASSUME NEW i, Waits(b, i), i # n PROVE Waits(x, i)
        <4>1. PICK k \in DOMAIN b.pending : b.pending[k] = i
          BY <3>2 DEF Waits
        <4>2. k - 1 \in DOMAIN Tail(b.pending) /\ Tail(b.pending)[k - 1] = i
          BY <2>1, <2>2, <3>2, <4>1
        <4> QED
          BY <2>5, <4>2 DEF Waits
      <3> QED
        BY <3>1, <3>2
    <2>7. ReachedOK(c, x, e)
      BY <1>0, <1>1, <2>4, <2>5, <2>6 DEF BranchOK, ReachedOK
    <2>8. PendingOK(c, x)
      BY <1>0, <1>1, <2>5, <2>6 DEF BranchOK, PendingOK
    <2>9. FinalOK(c, x, e, stop)
      BY <1>0, <1>1, <2>3, <2>4, <2>5 DEF BranchOK, FinalOK, Fails
    <2>10. BranchOK(c, x, e, stop)
      BY <1>0, <2>5, <2>7, <2>8, <2>9 DEF BranchOK
    <2> QED
      BY <1>1, <1>3, <2>10, BranchMoves
  <1> QED
    BY <1>2, <1>3 DEF ReadPending, Moves

\* Nothing is waited for any more: the branch goes on, or ends with what it kept.
LEMMA BranchDrained ==
  ASSUME CueInv, NEW c \in ShowCues, Drained(c)
  PROVE  CueInv'
  <1> DEFINE b == branch[c]  e == acts[c]
             over == b.final # "COMPLETED" \/ b.next > Len(Actions[c]) + 1
             x == IF b.after # "COMPLETED" THEN Ended(b, b.after)
                  ELSE IF over THEN Ended(b, b.final) ELSE [b EXCEPT !.pc = "next"]
  <1>0. /\ BranchOK(c, b, e, stop) /\ b \in Branches /\ e \in Executions(c)
        /\ Len(Actions[c]) \in Nat /\ DOMAIN Actions[c] = 1..Len(Actions[c])
    BY BranchKnown, ActionTypes
  <1>1. /\ b.pc = "drain" /\ b.pending = <<>> /\ acts' = [acts EXCEPT ![c] = e]
        /\ branch' = [branch EXCEPT ![c] = x]
        /\ UNCHANGED <<group, stop, gathered, outcome, failedAt>>
    BY BranchKnown DEF Drained, Moves
  <1>2. b.final \in Results /\ b.after \in Results /\ b.next \in Nat \ {0} /\ ~b.failed
    BY <1>0, <1>1, BranchTypes DEF BranchOK, FinalOK
  <1>3. /\ x \in Branches /\ x.next = b.next /\ x.pending = b.pending /\ x.final = b.final
        /\ x.after = b.after /\ x.failed = b.failed
        /\ b.after # "COMPLETED" => x.pc = "ended" /\ x.result = b.after
        /\ b.after = "COMPLETED" /\ over => x.pc = "ended" /\ x.result = b.final
        /\ b.after = "COMPLETED" /\ ~over => x.pc = "next"
    BY <1>0, <1>2 DEF Branches, Ended
  <1> HIDE DEF x
  <1>4. ReachedOK(c, x, e)
    BY <1>0, <1>1, <1>2, <1>3 DEF BranchOK, ReachedOK, Waits
  <1>5. PendingOK(c, x)
    BY <1>1, <1>3 DEF PendingOK, Waits
  <1>6. FinalOK(c, x, e, stop)
    <2>1. /\ x.pc \in {"next", "ended"} /\ x.pc # "delay" /\ x.pc # "await" /\ ~x.failed
      BY <1>2, <1>3
    <2>2. /\ b.final # "COMPLETED" => \E i \in DOMAIN Actions[c] : Fails(e, i) /\ e[i].result = b.final
          /\ b.after # "COMPLETED" =>
               b.next \in DOMAIN Actions[c] /\ Fails(e, b.next) /\ e[b.next].result = b.after
      BY <1>0 DEF BranchOK, FinalOK
    <2>3. x.pc = "next" => b.final = "COMPLETED" /\ b.after = "COMPLETED"
      BY <1>3
    <2>4. x.pc = "ended" => \/ x.result = b.after /\ b.after # "COMPLETED"
                            \/ x.result = b.final /\ b.after = "COMPLETED" /\ over
      BY <1>3
    <2>5. x.pc = "ended" /\ x.result = "COMPLETED" => b.next > Len(Actions[c])
      BY <1>0, <1>2, <2>4
    <2> QED
      BY <1>1, <1>3, <2>1, <2>2, <2>3, <2>4, <2>5 DEF FinalOK
  <1>7. BranchOK(c, x, e, stop)
    BY <1>0, <1>3, <1>4, <1>5, <1>6 DEF BranchOK
  <1> QED
    BY <1>1, <1>7, BranchMoves

LEMMA ActionsEnd ==
  ASSUME CueInv, NEW c \in ShowCues, EndActions(c)
  PROVE  CueInv'
  <1> DEFINE b == branch[c]  e == acts[c]  x == [b EXCEPT !.pc = "drain", !.next = @ + 1]
  <1>0. /\ BranchOK(c, b, e, stop) /\ b \in Branches /\ e \in Executions(c)
        /\ Len(Actions[c]) \in Nat /\ DOMAIN Actions[c] = 1..Len(Actions[c])
    BY BranchKnown, ActionTypes
  <1>1. /\ b.pc = "next" /\ b.next > Len(Actions[c]) /\ acts' = [acts EXCEPT ![c] = e]
        /\ branch' = [branch EXCEPT ![c] = x]
        /\ UNCHANGED <<group, stop, gathered, outcome, failedAt>>
    BY BranchKnown DEF EndActions, Moves
  <1>2. b.next \in Nat \ {0} /\ b.next + 1 \in Nat \ {0} /\ b.final = "COMPLETED"
        /\ b.after = "COMPLETED" /\ ~b.failed
    BY <1>0, <1>1, BranchTypes DEF BranchOK, FinalOK
  <1>3. /\ x \in Branches /\ x.next = b.next + 1 /\ x.pending = b.pending /\ x.final = b.final
        /\ x.after = b.after /\ x.failed = b.failed /\ x.pc = "drain"
    BY <1>0, <1>2 DEF Branches
  <1> HIDE DEF x
  <1>4. ReachedOK(c, x, e)
    BY <1>0, <1>1, <1>2, <1>3 DEF BranchOK, ReachedOK, Waits
  <1>5. PendingOK(c, x)
    <2>1. \A i : Waits(x, i) => i \in DOMAIN Actions[c] /\ i < b.next /\ Mode(c, i) # "SEQUENTIAL"
      BY <1>0, <1>3 DEF BranchOK, PendingOK, Waits
    <2>2. \A i \in DOMAIN Actions[c] : i < b.next => i < x.next
      BY <1>0, <1>2, <1>3
    <2> QED
      BY <1>3, <2>1, <2>2 DEF PendingOK
  <1>6. FinalOK(c, x, e, stop)
    BY <1>2, <1>3 DEF FinalOK
  <1>7. BranchOK(c, x, e, stop)
    BY <1>0, <1>3, <1>4, <1>5, <1>6 DEF BranchOK
  <1> QED
    BY <1>1, <1>7, BranchMoves

\* An Action that runs is done.
LEMMA ActionAnswers ==
  ASSUME CueInv, NEW c \in ShowCues, NEW i \in DOMAIN Actions[c], NEW a,
         acts[c][i].pc = "running", a.pc = "done", a.result \in Results,
         a.fatal \in BOOLEAN, a.fatal => a.result # "COMPLETED",
         a \in [pc : {"none", "running", "done"}, result : Results, fatal : BOOLEAN,
                failed : BOOLEAN],
         acts' = [acts EXCEPT ![c][i] = a],
         UNCHANGED <<branch, group, stop, gathered, outcome, failedAt>>
  PROVE  CueInv'
  <1> DEFINE b == branch[c]  e == [acts[c] EXCEPT ![i] = a]
  <1>0. BranchOK(c, b, acts[c], stop) /\ b \in Branches /\ acts[c] \in Executions(c)
    BY BranchKnown
  <1>1. branch' = [branch EXCEPT ![c] = b] /\ acts' = [acts EXCEPT ![c] = e]
    BY BranchKnown
  <1>2. /\ e \in Executions(c) /\ e[i] = a
        /\ \A j \in DOMAIN Actions[c] : j # i => e[j] = acts[c][j]
    BY <1>0 DEF Executions
  <1> HIDE DEF e
  <1>3. ReachedOK(c, b, e)
    <2> SUFFICES ASSUME NEW j \in DOMAIN Actions[c], j = i
                 PROVE  /\ j < b.next /\ ~b.failed => Waits(b, j)
                        /\ ~(j > b.next)
      BY <1>0, <1>2 DEF BranchOK, ReachedOK
    <2> QED
      BY <1>0 DEF BranchOK, ReachedOK
  <1>4. \A j \in DOMAIN Actions[c] : Fails(acts[c], j) => Fails(e, j) /\ e[j] = acts[c][j]
    BY <1>2 DEF Fails
  <1>5. FinalOK(c, b, e, stop)
    BY <1>0, <1>4 DEF BranchOK, FinalOK
  <1>6. OrderOK(c, e)
    <2>1. \A j \in DOMAIN Actions[c] :
            /\ e[j].pc # "none" => acts[c][j].pc # "none"
            /\ acts[c][j].pc = "done" => e[j] = acts[c][j]
      BY <1>2
    <2> QED
      BY <1>0, <2>1 DEF BranchOK, OrderOK, Fails
  <1>7. BranchOK(c, b, e, stop)
    BY <1>0, <1>2, <1>3, <1>5, <1>6 DEF BranchOK
  <1> QED
    BY <1>1, <1>7, BranchMoves

LEMMA Answers ==
  ASSUME CueInv, NEW c \in ShowCues, NEW i \in DOMAIN Actions[c],
         AnswerFails(c, i) \/ \E r \in Results : Answer(c, i, r)
  PROVE  CueInv'
  <1>1. CASE AnswerFails(c, i)
    <2> DEFINE a == [pc |-> "done", result |-> "FAILED", fatal |-> TRUE, failed |-> TRUE]
    <2>1. /\ acts[c][i].pc = "running" /\ acts' = [acts EXCEPT ![c][i] = a]
          /\ UNCHANGED <<branch, group, stop, gathered, outcome, failedAt>>
      BY <1>1 DEF AnswerFails
    <2>2. /\ a.pc = "done" /\ a.result \in Results /\ a.fatal /\ a.result # "COMPLETED"
          /\ a \in [pc : {"none", "running", "done"}, result : Results, fatal : BOOLEAN,
                    failed : BOOLEAN]
      BY DEF Results
    <2> HIDE DEF a
    <2> QED
      BY <2>1, <2>2, ActionAnswers
  <1>2. ASSUME NEW r \in Results, Answer(c, i, r) PROVE CueInv'
    <2> DEFINE fails == r = "CANCELLED" \/ (r # "COMPLETED" /\ Actions[c][i].strict)
               a == [pc |-> "done", result |-> r, failed |-> FALSE, fatal |-> fails]
    <2>1. /\ acts[c][i].pc = "running" /\ acts' = [acts EXCEPT ![c][i] = a]
          /\ UNCHANGED <<branch, group, stop, gathered, outcome, failedAt>>
      BY <1>2 DEF Answer
    <2>0. fails \in BOOLEAN /\ (fails => r # "COMPLETED")
      OBVIOUS
    <2> HIDE DEF fails
    <2>2. /\ a.pc = "done" /\ a.result \in Results /\ a.fatal \in BOOLEAN
          /\ a.fatal => a.result # "COMPLETED"
          /\ a \in [pc : {"none", "running", "done"}, result : Results, fatal : BOOLEAN,
                    failed : BOOLEAN]
      BY <2>0
    <2> HIDE DEF a
    <2> QED
      BY <2>1, <2>2, ActionAnswers
  <1> QED
    BY <1>1, <1>2

\* The worst of the branches' results is one of them, and COMPLETED if all are.
LEMMA WorstResult ==
  ASSUME NEW R \in SUBSET Results, R # {},
         NEW w, w = CHOOSE r \in R : \A q \in R : Rank(q) <= Rank(r)
  PROVE  w \in R /\ (w = "COMPLETED" => R = {"COMPLETED"})
  <1>1. \E r \in R : \A q \in R : Rank(q) <= Rank(r)
    BY DEF Results, Rank
  <1>2. w \in R /\ \A q \in R : Rank(q) <= Rank(w)
    BY <1>1
  <1>3. w = "COMPLETED" => \A q \in R : q = "COMPLETED"
    <2>1. ASSUME w = "COMPLETED", NEW q \in R PROVE q = "COMPLETED"
      <3>1. Rank(q) <= 0 /\ q \in Results
        BY <1>2, <2>1 DEF Rank
      <3> QED
        BY <3>1 DEF Results, Rank
    <2> QED
      BY <2>1
  <1> QED
    BY <1>2, <1>3

LEMMA ResultsGathered ==
  ASSUME CueInv, NEW c \in ShowCues, Gather(c)
  PROVE  CueInv'
  <1>1. /\ UNCHANGED <<group, branch, acts, stop>> /\ gathered' = gathered \cup {c}
        /\ c \in group /\ branch[c].pc = "ended" /\ outcome = "RUNNING" /\ ~failedAt
        /\ failedAt' = branch[c].failed
    BY DEF Gather, CueInv, GatherOK
  <1>2. GatherOK'
    <2>1. CASE branch[c].failed
      BY <1>1, <2>1 DEF CueInv, GatherOK, Gather, Results
    <2>2. CASE ~branch[c].failed /\ gathered' # group
      BY <1>1, <2>2 DEF CueInv, GatherOK, Gather
    <2>3. CASE ~branch[c].failed /\ gathered' = group
      <3> DEFINE R == {branch[d].result : d \in group}
      <3>1. outcome' = CHOOSE r \in R : \A d \in group : Rank(branch[d].result) <= Rank(r)
        BY <2>3 DEF Gather
      <3>2. \A r : (\A d \in group : Rank(branch[d].result) <= Rank(r))
                     <=> (\A q \in R : Rank(q) <= Rank(r))
        OBVIOUS
      <3>3. outcome' = CHOOSE r \in R : \A q \in R : Rank(q) <= Rank(r)
        BY <3>1, <3>2
      <3>4. R \in SUBSET Results /\ R # {}
        <4>1. \A d \in group : branch[d].result \in Results
          BY BranchKnown, BranchTypes DEF CueInv, GatherOK
        <4> QED
          BY <1>1, <4>1
      <3>5. outcome' \in R /\ (outcome' = "COMPLETED" => R = {"COMPLETED"})
        BY <3>3, <3>4, WorstResult
      <3>6. \A d \in group : branch[d].result \in R
        OBVIOUS
      <3>7. outcome' \in Results /\ \E d \in group : branch[d].result = outcome'
        BY <3>4, <3>5
      <3> HIDE DEF R
      <3> QED
        BY <1>1, <2>3, <3>5, <3>6, <3>7 DEF CueInv, GatherOK
    <2> QED
      BY <2>1, <2>2, <2>3
  <1> QED
    BY <1>1, <1>2 DEF CueInv

LEMMA GroupStops ==
  ASSUME CueInv, StopGroup
  PROVE  CueInv'
  <1>1. stop' = TRUE /\ UNCHANGED <<group, branch, acts, gathered, outcome, failedAt>>
    BY DEF StopGroup
  <1>2. ASSUME NEW c \in ShowCues PROVE BranchOK(c, branch[c], acts[c], TRUE)
    BY DEF CueInv, BranchOK, FinalOK
  <1> QED
    BY <1>1, <1>2 DEF CueInv, GatherOK

LEMMA CueStep == CueInv /\ [CueNext]_cueVars => CueInv'
  <1> SUFFICES ASSUME CueInv, [CueNext]_cueVars PROVE CueInv'
    OBVIOUS
  <1>1. CASE UNCHANGED cueVars
    BY <1>1 DEF cueVars, CueInv, GatherOK
  <1>2. ASSUME NEW c \in ShowCues, StartFails(c) PROVE CueInv'
    BY <1>2, BranchBreaks DEF StartFails, Moves
  <1> QED
    BY <1>1, <1>2, BranchBegins, ActionStarts, SequentialRead, PendingRead, BranchDrained,
       ActionsEnd, Answers, ResultsGathered, GroupStops DEF CueNext

\* The Cues, branches and Actions stay in their domains.
THEOREM CueTypes == CueSpec => []CueTypeOK
  <1>1. CueInv => CueTypeOK
    BY BranchKnown, BranchTypes, ExecutionTypes DEF CueInv, CueTypeOK, GatherOK
  <1> QED
    BY <1>1, CueBegins, CueStep, PTL DEF CueSpec

\* A Cue that has ended has nothing running and the result its Actions gave, and
\* no Action starts before those it waits for or after one that failed the Cue:
\* for any Cues, links, Actions and failed writes (executeCueGroup,
\* executeActions, waitPending).
THEOREM EndedWhole == CueSpec => []CueEndsWhole
  <1>1. CueInv => CueEndsWhole
    <2> SUFFICES ASSUME CueInv PROVE CueEndsWhole
      OBVIOUS
    <2>1. ASSUME NEW c \in ShowCues, NEW i \in Launched(c), NEW j \in 1..(i - 1)
          PROVE  /\ Actions[c][j].mode = "SEQUENTIAL" => acts[c][j].pc = "done" /\ ~Fatal(c, j)
                 /\ Actions[c][j].mode = "PARALLEL_BARRIER" =>
                      \A k \in 1..j : acts[c][k].pc = "done" /\ ~Fatal(c, k)
      <3>1. /\ i \in DOMAIN Actions[c] /\ acts[c][i].pc # "none"
            /\ j \in DOMAIN Actions[c] /\ j < i
            /\ \A k \in 1..j : k \in DOMAIN Actions[c] /\ k <= j
        BY ActionTypes DEF Launched
      <3>2. OrderOK(c, acts[c])
        BY BranchKnown DEF BranchOK
      <3> QED
        BY <3>1, <3>2 DEF OrderOK, Mode, Fails, Fatal
    <2>2. ASSUME outcome # "RUNNING", ~failedAt, NEW c \in group
          PROVE  /\ c \in ShowCues /\ branch[c].pc = "ended" /\ ~branch[c].failed
                 /\ \A i \in Launched(c) : acts[c][i].pc = "done"
                 /\ branch[c].result = "COMPLETED" =>
                      Launched(c) = DOMAIN Actions[c] /\ \A i \in Launched(c) : ~Fatal(c, i)
                 /\ branch[c].result # "COMPLETED" =>
                      stop \/ \E i \in Launched(c) :
                                Fatal(c, i) /\ acts[c][i].result = branch[c].result
      <3>1. c \in ShowCues /\ branch[c].pc = "ended" /\ ~branch[c].failed
        BY <2>2 DEF CueInv, GatherOK
      <3>2. /\ ReachedOK(c, branch[c], acts[c]) /\ FinalOK(c, branch[c], acts[c], stop)
            /\ branch[c].next \in Nat \ {0} /\ DOMAIN Actions[c] = 1..Len(Actions[c])
            /\ Len(Actions[c]) \in Nat
        BY <3>1, BranchKnown, BranchTypes, ActionTypes DEF BranchOK
      <3>3. \A i : ~Waits(branch[c], i)
        BY <3>1, <3>2 DEF FinalOK, Waits
      <3>4. \A i \in Launched(c) : acts[c][i].pc = "done"
        BY <3>1, <3>2, <3>3 DEF ReachedOK, FinalOK, Launched, Fails
      <3>5. branch[c].result = "COMPLETED" =>
              Launched(c) = DOMAIN Actions[c] /\ \A i \in Launched(c) : ~Fatal(c, i)
        BY <3>1, <3>2, <3>3 DEF ReachedOK, FinalOK, Launched, Fatal
      <3>6. branch[c].result # "COMPLETED" =>
              stop \/ \E i \in Launched(c) : Fatal(c, i) /\ acts[c][i].result = branch[c].result
        BY <3>1, <3>2 DEF FinalOK, Launched, Fatal, Fails
      <3> QED
        BY <3>1, <3>4, <3>5, <3>6
    <2>3. outcome # "RUNNING" /\ ~failedAt =>
            /\ outcome = "COMPLETED" => \A c \in group : branch[c].result = "COMPLETED"
            /\ \E c \in group : branch[c].result = outcome
      BY DEF CueInv, GatherOK
    <2> QED
      BY <2>1, <2>2, <2>3 DEF CueEndsWhole
  <1> QED
    BY <1>1, CueBegins, CueStep, PTL DEF CueSpec

-----------------------------------------------------------------------------
(* TimecodeFrames. *)

\* A Rate that ParseRate gives.
Supported(r) == r \in [fps : Nat \ {0}, drop : BOOLEAN] /\ (r.drop => r.fps \in {30, 60})

LEMMA Quotient ==
  ASSUME NEW m \in Nat \ {0}, NEW q \in Int, NEW x \in Int, q * m <= x, x < q * m + m
  PROVE  x \div m = q /\ x % m = x - q * m
  OBVIOUS

LEMMA Times ==
  ASSUME NEW a \in Int, NEW b \in Int, a <= b, NEW c \in Nat
  PROVE  a * c <= b * c
  OBVIOUS

LEMMA OneMore ==
  ASSUME NEW a \in Int, NEW c \in Int
  PROVE  (a + 1) * c = a * c + c
  OBVIOUS

LEMMA Drops ==
  ASSUME NEW r, Supported(r)
  PROVE  /\ r.fps \in Nat \ {0} /\ DropFramesPerMinute(r) \in Nat
         /\ DropFramesPerMinute(r) < r.fps
         /\ (r.fps * 600 - DropFramesPerMinute(r) * 9) \in Nat \ {0}
         /\ (r.fps * 60 - DropFramesPerMinute(r)) \in Nat \ {0}
         /\ FramesPerDay(r) = (r.fps * 600 - DropFramesPerMinute(r) * 9) * 144
         /\ FramesPerDay(r) \in Nat \ {0}
  <1>1. r.fps \in Nat \ {0} /\ r.drop \in BOOLEAN /\ (r.drop => r.fps \in {30, 60})
    BY DEF Supported
  <1>2. 30 \div 15 = 2 /\ 60 \div 15 = 4
    OBVIOUS
  <1>3. /\ ~r.drop => DropFramesPerMinute(r) = 0
        /\ r.drop => \/ r.fps = 30 /\ DropFramesPerMinute(r) = 2
                     \/ r.fps = 60 /\ DropFramesPerMinute(r) = 4
    BY <1>1, <1>2 DEF DropFramesPerMinute
  <1> QED
    BY <1>1, <1>3 DEF FramesPerDay

\* Labels as numbers, those that are dropped included.
Minute(tc) == tc.hours * 60 + tc.minutes
Nominal(r, tc) == (Minute(tc) * 60 + tc.seconds) * r.fps + tc.frames
Clock(r) == [hours : 0..23, minutes : 0..59, seconds : 0..59, frames : 0..(r.fps - 1)]

LEMMA Labelled ==
  ASSUME NEW r, Supported(r), NEW tc \in Clock(r)
  PROVE  /\ Label(r, Nominal(r, tc)) = tc
         /\ Nominal(r, tc) \in Nat /\ Nominal(r, tc) < r.fps * 86400
  <1>1. /\ tc.hours \in 0..23 /\ tc.minutes \in 0..59 /\ tc.seconds \in 0..59
        /\ tc.frames \in Nat /\ tc.frames < r.fps /\ r.fps \in Nat \ {0}
        /\ tc = [hours |-> tc.hours, minutes |-> tc.minutes, seconds |-> tc.seconds,
                 frames |-> tc.frames]
    BY Drops DEF Clock
  <1> DEFINE F == r.fps  h == tc.hours  m == tc.minutes  s == tc.seconds  f == tc.frames
             n == Nominal(r, tc)
  <1>2. n = ((h * 60 + m) * 60 + s) * F + f
    BY DEF Nominal, Minute
  <1>3. F \in Nat \ {0} /\ h \in 0..23 /\ m \in 0..59 /\ s \in 0..59 /\ f \in Nat /\ f < F
    BY <1>1
  <1> HIDE DEF F, h, m, s, f, n
  <1> DEFINE M == h * 60 + m  T == M * 60 + s  G == F * 60  K == F * 3600  v == m * 60 + s
  <1>4. /\ T \in Nat /\ T <= 86399 /\ v \in Nat /\ v <= 3599 /\ M \in Nat
        /\ T % 60 = s /\ M % 60 = m
        /\ G \in Nat \ {0} /\ K \in Nat \ {0}
    BY <1>3
  <1>5. /\ n = T * F + f
        /\ T * F = M * G + s * F
        /\ T * F = h * K + v * F
    BY <1>2, <1>3
  <1>6. K = F * 3600 /\ G = F * 60
    OBVIOUS
  <1> HIDE DEF M, T, G, K, v
  <1>7. /\ T * F <= 86399 * F /\ T * F \in Nat
        /\ s * F <= 59 * F /\ s * F \in Nat
        /\ v * F <= 3599 * F /\ v * F \in Nat
    BY <1>3, <1>4, Times
  <1>8. n \in Nat /\ n < F * 86400
    BY <1>3, <1>5, <1>7
  <1>9. n \div F = T /\ n % F = f
    <2>1. T * F <= n /\ n < T * F + F /\ n - T * F = f
      BY <1>3, <1>5, <1>7
    <2> QED
      BY <1>3, <1>4, <1>8, <2>1, Quotient
  <1>10. n \div G = M
    <2>1. M * G <= n /\ n < M * G + G
      BY <1>3, <1>4, <1>5, <1>6, <1>7
    <2>2. M \in Int /\ n \in Int /\ G \in Nat \ {0}
      BY <1>4, <1>8
    <2> QED
      BY ONLY <2>1, <2>2, Quotient
  <1>11. n \div K = h
    <2>1. h * K <= n /\ n < h * K + K
      BY <1>3, <1>4, <1>5, <1>6, <1>7
    <2> QED
      BY <1>3, <1>4, <1>8, <2>1, Quotient
  <1>12. Label(r, n) = tc
    BY <1>1, <1>4, <1>9, <1>10, <1>11 DEF Label, F, h, m, s, f, G, K
  <1> QED
    BY <1>8, <1>12 DEF n, F

LEMMA ValidLabels ==
  ASSUME NEW r, Supported(r), NEW tc \in Labels
  PROVE  Valid(r, tc) <=> tc \in Clock(r) /\ ~IsDropped(r, tc)
  BY Drops DEF Valid, Clock, Labels

\* A number is that of the label, and no other of the day has it.
LEMMA Numbered ==
  ASSUME NEW r, Supported(r), NEW tc \in Clock(r), ~IsDropped(r, tc)
  PROVE  /\ FrameNumber(r, tc) \in 0..(FramesPerDay(r) - 1)
         /\ \A n \in Nat : n % FramesPerDay(r) = FrameNumber(r, tc) => FromFrameNumber(r, n) = tc
  <1> DEFINE F == r.fps  d == DropFramesPerMinute(r)  s == tc.seconds  f == tc.frames
             M == Minute(tc)  a == M \div 10  b == M % 10
             P == F * 600 - d * 9  Q == F * 60 - d  u == s * F + f  w == Q * b + u
             k == FrameNumber(r, tc)
  <1>1. /\ F \in Nat \ {0} /\ d \in Nat /\ d < F /\ P \in Nat \ {0} /\ Q \in Nat \ {0}
        /\ FramesPerDay(r) = P * 144
    BY Drops
  <1>2. /\ s \in 0..59 /\ f \in 0..(F - 1) /\ M \in 0..1439 /\ tc.minutes \in 0..59
        /\ M = tc.hours * 60 + tc.minutes /\ tc.hours \in 0..23
    BY <1>1 DEF Clock, Minute
  <1>3. a \in 0..143 /\ b \in 0..9 /\ M = 10 * a + b /\ (b # 0 => tc.minutes % 10 # 0)
    BY <1>2
  <1>4. u \in Nat /\ u < F * 60 /\ (b # 0 => u >= d)
    <2>1. s * F <= 59 * F /\ s * F \in Nat
      BY <1>1, <1>2, Times
    <2>2. s # 0 => F <= s * F
      BY <1>1, <1>2, Times
    <2>3. b # 0 => s # 0 \/ f >= d
      BY <1>1, <1>2, <1>3 DEF IsDropped
    <2> DEFINE c == s * F
    <2>4. u = c + f
      OBVIOUS
    <2> HIDE DEF c, u, F, d, s, f
    <2> QED
      BY <1>1, <1>2, <2>1, <2>2, <2>3, <2>4 DEF c
  <1>5. k = P * a + w
    <2>1. k = (M * 60 + s) * F + f - d * (M - M \div 10)
      BY DEF FrameNumber, Minute
    <2>2. M - M \div 10 = 9 * a + b
      BY <1>3
    <2> HIDE DEF F, d, M, a, b, s, f, k
    <2>3. /\ F \in Int /\ d \in Int /\ a \in Int /\ b \in Int /\ s \in Int /\ f \in Int
          /\ M = 10 * a + b
          /\ k = (M * 60 + s) * F + f - d * (9 * a + b)
      <3>1. F \in Int /\ d \in Int /\ a \in Int /\ b \in Int /\ s \in Int /\ f \in Int
            /\ M = 10 * a + b
        BY <1>1, <1>2, <1>3
      <3> QED
        BY <2>1, <2>2, <3>1
    <2>4. (M * 60 + s) * F = a * F * 600 + b * F * 60 + s * F
      BY <2>3
    <2>5. d * (9 * a + b) = a * d * 9 + b * d
      BY <2>3
    <2>6. P * a = a * F * 600 - a * d * 9 /\ Q * b = b * F * 60 - b * d
      BY <2>3
    <2> HIDE DEF P, Q
    <2> QED
      BY <2>3, <2>4, <2>5, <2>6
  <1>6. Nominal(r, tc) = k + d * 9 * a + d * b
    <2>1. Nominal(r, tc) = (M * 60 + s) * F + f
      BY DEF Nominal
    <2>2. k = (M * 60 + s) * F + f - d * (M - M \div 10) /\ M - M \div 10 = 9 * a + b
      BY <1>3 DEF FrameNumber, Minute
    <2> HIDE DEF F, d, M, a, b, s, f, k
    <2> DEFINE T == (M * 60 + s) * F
    <2>3. d * (9 * a + b) = d * 9 * a + d * b /\ T \in Int /\ d * 9 * a \in Int
          /\ d * b \in Int /\ f \in Int
      BY <1>1, <1>2, <1>3
    <2>4. k = T + f - d * (9 * a + b)
      BY <2>2
    <2> HIDE DEF T
    <2> QED
      BY <2>1, <2>3, <2>4 DEF T
  <1> HIDE DEF F, d, M, a, b, P, Q, u, k
  <1>7. w \in Nat /\ w < P
    <2> DEFINE c == Q * b
    <2>1. c <= Q * 9 /\ c \in Nat
      BY <1>1, <1>3, Times
    <2>2. Q = F * 60 - d /\ P = F * 600 - d * 9 /\ w = c + u
      BY DEF P, Q
    <2> HIDE DEF c, w
    <2> QED
      BY <1>1, <1>4, <2>1, <2>2
  <1>8. w >= d => (w - d) \div Q = b
    <2>1. CASE b = 0 /\ w >= d
      <3> DEFINE x == w - d
      <3>1. w = u /\ Q = F * 60 - d
        BY <1>1, <1>4, <2>1 DEF Q
      <3>2. x \in Int /\ 0 * Q <= x /\ x < 0 * Q + Q
        BY <1>1, <1>4, <1>7, <2>1, <3>1
      <3> HIDE DEF x, w
      <3>3. x \div Q = 0
        BY <1>1, <3>2, Quotient
      <3> QED
        BY <2>1, <3>3 DEF x
    <2>2. CASE b # 0
      <3> DEFINE x == w - d  c == b * Q
      <3>1. w = c + u /\ c \in Int /\ Q = F * 60 - d
        BY <1>1, <1>3 DEF Q
      <3> HIDE DEF w, c
      <3>2. x \in Int /\ c <= x /\ x < c + Q
        BY <1>1, <1>4, <1>7, <2>2, <3>1
      <3> HIDE DEF x
      <3>3. b * Q <= x /\ x < b * Q + Q
        BY <3>2 DEF c
      <3>4. b \in Int /\ x \in Int /\ Q \in Nat \ {0}
        BY <1>1, <1>3, <3>2
      <3>5. x \div Q = b
        BY ONLY <3>3, <3>4, Quotient
      <3> QED
        BY <3>5 DEF x
    <2> QED
      BY <2>1, <2>2
  <1>9. w < d => b = 0
    <2>1. b # 0 => Q <= Q * b
      BY <1>1, <1>3, Times
    <2> QED
      BY <1>1, <1>3, <1>4, <2>1 DEF Q
  <1> HIDE DEF w
  <1>10. k \in Nat /\ k < P * 144 /\ k \div P = a /\ k % P = w
    <2>1. P * a <= P * 143 /\ P * a \in Nat
      BY <1>1, <1>3, Times
    <2>2. k \in Int /\ a \in Int /\ a * P <= k /\ k < a * P + P
      BY <1>1, <1>3, <1>5, <1>7, <2>1
    <2>3. k \div P = a /\ k % P = k - a * P
      BY <1>1, <2>2, Quotient
    <2> QED
      BY <1>1, <1>3, <1>5, <1>7, <2>1, <2>2, <2>3
  <1>11. ASSUME NEW n \in Nat, n % FramesPerDay(r) = k
         PROVE  FromFrameNumber(r, n) = tc
    <2>1. FromFrameNumber(r, n) =
            Label(r, k + d * 9 * a + (IF w >= d THEN d * ((w - d) \div Q) ELSE 0))
      BY <1>10, <1>11 DEF FromFrameNumber, P, Q, F, d
    <2>2. (IF w >= d THEN d * ((w - d) \div Q) ELSE 0) = d * b
      BY <1>1, <1>3, <1>7, <1>8, <1>9
    <2>3. FromFrameNumber(r, n) = Label(r, Nominal(r, tc))
      BY <1>6, <2>1, <2>2
    <2> QED
      BY <2>3, Labelled
  <1> QED
    BY <1>1, <1>10, <1>11 DEF k

LEMMA Small ==
  ASSUME NEW m \in Nat \ {0}, NEW x \in Nat, x < m
  PROVE  x % m = x
  <1>1. 0 * m <= x /\ x < 0 * m + m /\ x \in Int /\ 0 * m = 0
    OBVIOUS
  <1> QED
    BY <1>1, Quotient

LEMMA Whole ==
  ASSUME NEW m \in Nat \ {0}
  PROVE  m % m = 0
  <1>1. 1 * m <= m /\ m < 1 * m + m /\ m \in Int /\ m - 1 * m = 0
    OBVIOUS
  <1> QED
    BY <1>1, Quotient

LEMMA NextRemainder ==
  ASSUME NEW m \in Nat \ {0}, NEW x \in Nat
  PROVE  (x + 1) % m = ((x % m) + 1) % m
  <1> DEFINE q == x \div m  e == x % m
  <1>1. q \in Int /\ e \in Nat /\ e < m /\ x = q * m + e
    OBVIOUS
  <1> HIDE DEF q, e
  <1>2. CASE e + 1 < m
    <2>1. q * m <= x + 1 /\ x + 1 < q * m + m /\ x + 1 \in Int /\ (x + 1) - q * m = e + 1
      BY <1>1, <1>2
    <2>2. (x + 1) % m = e + 1
      BY <1>1, <2>1, Quotient
    <2>3. (e + 1) % m = e + 1
      BY <1>1, <1>2, Small
    <2> QED
      BY <2>2, <2>3 DEF e
  <1>3. CASE e + 1 = m
    <2>1. x + 1 = (q + 1) * m /\ q + 1 \in Int
      BY <1>1, <1>3
    <2>2. (q + 1) * m <= x + 1 /\ x + 1 < (q + 1) * m + m /\ (x + 1) - (q + 1) * m = 0
          /\ x + 1 \in Int
      BY <2>1
    <2>3. (x + 1) % m = 0
      BY <2>1, <2>2, Quotient
    <2> QED
      BY <1>3, <2>3, Whole DEF e
  <1> QED
    BY <1>1, <1>2, <1>3

\* The label after this one is the label with the next number.
LEMMA NextNominal ==
  ASSUME NEW r, Supported(r), NEW tc \in Clock(r), NEW one \in Clock(r),
         Nominal(r, one) = Nominal(r, tc) + 1
  PROVE  Tick(r, tc) = IF IsDropped(r, one) THEN [one EXCEPT !.frames = DropFramesPerMinute(r)]
                       ELSE one
  <1> DEFINE n == Nominal(r, one)  m == r.fps * 86400
  <1>1. n \in Nat /\ n < m /\ Label(r, n) = one
    BY Labelled
  <1>2. m \in Nat \ {0}
    BY Drops
  <1>3. ((tc.hours * 60 + tc.minutes) * 60 + tc.seconds) * r.fps + tc.frames + 1 = n
    BY DEF Nominal, Minute
  <1> HIDE DEF n, m
  <1>4. n % m = n
    BY <1>1, <1>2, Small
  <1> QED
    BY <1>1, <1>3, <1>4 DEF Tick, m

\* A clock shows the labels in the order of their numbers, and leaves none out.
LEMMA TickNumber ==
  ASSUME NEW r, Supported(r), NEW tc \in Clock(r), ~IsDropped(r, tc)
  PROVE  /\ Tick(r, tc) \in Clock(r) /\ ~IsDropped(r, Tick(r, tc))
         /\ FrameNumber(r, Tick(r, tc)) = (FrameNumber(r, tc) + 1) % FramesPerDay(r)
  <1> DEFINE F == r.fps  d == DropFramesPerMinute(r)  D == FramesPerDay(r)
             h == tc.hours  m == tc.minutes  s == tc.seconds  f == tc.frames
             M == h * 60 + m  k == FrameNumber(r, tc)
  <1>1. F \in Nat \ {0} /\ d \in Nat /\ d < F /\ D \in Nat \ {0} /\ D = (F * 600 - d * 9) * 144
    BY Drops
  <1>2. /\ h \in 0..23 /\ m \in 0..59 /\ s \in 0..59 /\ f \in 0..(F - 1)
        /\ M \in 0..1439
        /\ tc = [hours |-> h, minutes |-> m, seconds |-> s, frames |-> f]
    BY <1>1 DEF Clock
  <1> DEFINE T == (M * 60 + s) * F  E == d * (M - M \div 10)
  <1>3. /\ k = T + f - E /\ T \in Int /\ E \in Int
        /\ Nominal(r, tc) = T + f
        /\ s = 0 /\ m % 10 # 0 => f >= d
    <2>1. k = T + f - E /\ Nominal(r, tc) = T + f
      BY DEF FrameNumber, Nominal, Minute
    <2>2. T \in Int /\ E \in Int
      <3>1. M \in Int /\ s \in Int /\ F \in Int /\ d \in Int /\ M - M \div 10 \in Int
        BY <1>1, <1>2
      <3> HIDE DEF M, F, d, s
      <3> QED
        BY <3>1
    <2>3. s = 0 /\ m % 10 # 0 => f >= d
      BY <1>1, <1>2 DEF IsDropped
    <2> QED
      BY <2>1, <2>2, <2>3
  \* A label whose number is one more is in range, so the day has not ended.
  <1>4. ASSUME NEW t \in Clock(r), ~IsDropped(r, t), FrameNumber(r, t) = k + 1
        PROVE  FrameNumber(r, t) = (k + 1) % D
    BY <1>1, <1>4, Numbered, Small
  <1> HIDE DEF T, E
  <1>5. CASE f + 1 < F
    <2> DEFINE one == [hours |-> h, minutes |-> m, seconds |-> s, frames |-> f + 1]
    <2>1. one \in Clock(r)
      BY <1>1, <1>2, <1>5 DEF Clock
    <2>2. ~IsDropped(r, one)
      BY <1>1, <1>2, <1>3 DEF IsDropped
    <2>3. FrameNumber(r, one) = T + (f + 1) - E /\ Nominal(r, one) = T + (f + 1)
      BY DEF FrameNumber, Nominal, Minute, T, E
    <2>4. FrameNumber(r, one) = k + 1 /\ Nominal(r, one) = Nominal(r, tc) + 1
      BY <1>1, <1>2, <1>3, <2>3
    <2> HIDE DEF one
    <2>5. Tick(r, tc) = one
      BY <2>1, <2>2, <2>4, NextNominal
    <2> QED
      BY <1>4, <2>1, <2>2, <2>4, <2>5
  <1>6. CASE f + 1 = F /\ s < 59
    <2> DEFINE one == [hours |-> h, minutes |-> m, seconds |-> s + 1, frames |-> 0]
    <2>1. one \in Clock(r)
      BY <1>1, <1>2, <1>6 DEF Clock
    <2>2. ~IsDropped(r, one)
      BY <1>1, <1>2, <1>3 DEF IsDropped
    <2> DEFINE U == (M * 60 + (s + 1)) * F
    <2>3. FrameNumber(r, one) = U + 0 - E /\ Nominal(r, one) = U + 0
      BY DEF FrameNumber, Nominal, Minute, E
    <2>4. U = T + F
      <3>1. M * 60 + (s + 1) = (M * 60 + s) + 1 /\ M * 60 + s \in Int /\ F \in Int
        <4>1. M \in Int /\ s \in Int /\ F \in Int
          BY <1>1, <1>2
        <4> HIDE DEF M, s, F
        <4> QED
          BY <4>1
      <3> QED
        BY <3>1, OneMore DEF T
    <2> HIDE DEF U
    <2>5. FrameNumber(r, one) = k + 1 /\ Nominal(r, one) = Nominal(r, tc) + 1
      BY <1>1, <1>2, <1>3, <1>6, <2>3, <2>4
    <2> HIDE DEF one
    <2>6. Tick(r, tc) = one
      BY <2>1, <2>2, <2>5, NextNominal
    <2> QED
      BY <1>4, <2>1, <2>2, <2>5, <2>6
  <1>7. CASE f + 1 = F /\ s = 59 /\ M < 1439
    <2> DEFINE N == M + 1  H == N \div 60  U == N % 60
               one == [hours |-> H, minutes |-> U, seconds |-> 0, frames |-> 0]
               late == [hours |-> H, minutes |-> U, seconds |-> 0, frames |-> d]
               V == (N * 60 + 0) * F  W == d * (N - N \div 10)
    <2>1. /\ H \in 0..23 /\ U \in 0..59 /\ N = H * 60 + U /\ N \in 1..1439
          /\ N % 10 = U % 10
      BY <1>2, <1>7
    <2>2. /\ N % 10 = 0 => W = E
          /\ N % 10 # 0 => W = E + d
      <3>1. /\ N % 10 = 0 => N - N \div 10 = M - M \div 10
            /\ N % 10 # 0 => N - N \div 10 = (M - M \div 10) + 1
        BY <1>2
      <3> DEFINE x == M - M \div 10  y == N - N \div 10
      <3>2. W = d * y /\ E = d * x /\ x \in Int
        BY <1>2 DEF E
      <3> HIDE DEF x
      <3>3. d * (x + 1) = d * x + d
        BY <1>1, <3>2
      <3> QED
        BY <3>1, <3>2, <3>3 DEF x
    <2>3. V = T + F
      <3>1. N * 60 + 0 = (M * 60 + s) + 1 /\ M * 60 + s \in Int /\ F \in Int
        BY <1>1, <1>2, <1>7
      <3> QED
        BY <3>1, OneMore DEF T
    <2> HIDE DEF H, U
    <2>4. one \in Clock(r) /\ late \in Clock(r) /\ late = [one EXCEPT !.frames = d]
      BY <1>1, <2>1 DEF Clock
    <2>5. /\ FrameNumber(r, one) = V + 0 - W /\ Nominal(r, one) = V + 0
          /\ FrameNumber(r, late) = V + d - W
      BY <2>1 DEF FrameNumber, Nominal, Minute
    <2> HIDE DEF V, W
    <2>6. Nominal(r, one) = Nominal(r, tc) + 1
      BY <1>1, <1>2, <1>3, <1>7, <2>3, <2>5
    <2>7. /\ IsDropped(r, one) <=> N % 10 # 0 /\ 0 < d
          /\ ~IsDropped(r, late)
      BY <1>1, <2>1 DEF IsDropped
    <2>8. Tick(r, tc) = IF IsDropped(r, one) THEN late ELSE one
      BY <2>4, <2>6, NextNominal
    <2> HIDE DEF one, late
    <2>9. CASE IsDropped(r, one)
      <3>1. FrameNumber(r, late) = k + 1
        BY <1>1, <1>2, <1>3, <1>7, <2>1, <2>2, <2>3, <2>5, <2>7, <2>9
      <3> QED
        BY <1>4, <2>4, <2>7, <2>8, <2>9, <3>1
    <2>10. CASE ~IsDropped(r, one)
      <3>1. FrameNumber(r, one) = k + 1
        BY <1>1, <1>2, <1>3, <1>7, <2>1, <2>2, <2>3, <2>5, <2>7, <2>10
      <3> QED
        BY <1>4, <2>4, <2>8, <2>10, <3>1
    <2> QED
      BY <2>9, <2>10
  <1>8. CASE f + 1 = F /\ s = 59 /\ M = 1439
    <2> DEFINE one == [hours |-> 0, minutes |-> 0, seconds |-> 0, frames |-> 0]
               n == F * 86400
    <2>1. one \in Clock(r) /\ ~IsDropped(r, one) /\ FrameNumber(r, one) = 0
          /\ Nominal(r, one) = 0
      BY <1>1 DEF Clock, IsDropped, FrameNumber, Nominal, Minute
    <2>2. T = 86399 * F /\ E = 1296 * d
      BY <1>1, <1>2, <1>8 DEF T, E
    <2>3. k + 1 = D /\ T + f + 1 = n
      BY <1>1, <1>2, <1>3, <1>8, <2>2
    <2>4. n \in Nat \ {0}
      BY <1>1
    <2>5. Tick(r, tc) = LET label == Label(r, n % n)
                        IN  IF IsDropped(r, label) THEN [label EXCEPT !.frames = d] ELSE label
      BY <2>3 DEF Tick, T
    <2> HIDE DEF n
    <2>6. n % n = 0 /\ D % D = 0
      BY <1>1, <2>4, Whole
    <2>7. Label(r, 0) = one
      BY <2>1, Labelled
    <2> HIDE DEF one
    <2>8. Tick(r, tc) = one
      BY <2>1, <2>5, <2>6, <2>7
    <2> QED
      BY <2>1, <2>3, <2>6, <2>8
  <1> QED
    BY <1>1, <1>2, <1>5, <1>6, <1>7, <1>8

-----------------------------------------------------------------------------
(* What the decoder has heard of a label, and what it makes of all of it.  *)

LEMMA Halves ==
  ASSUME NEW x \in 0..63
  PROVE  /\ x = (x % 16) + 16 * (((x \div 16) % 4) % 4)
         /\ x < 32 => x = (x % 16) + 16 * (((x \div 16) % 2) % 2)
  OBVIOUS

LEMMA HourAndRate ==
  ASSUME NEW h \in 0..23, NEW c \in 0..3, NEW n, n = ((h \div 16) % 2) + 2 * c
  PROVE  n % 2 = (h \div 16) % 2 /\ (n \div 2) % 4 = c
  OBVIOUS

LEMMA MIDIRates ==
  ASSUME NEW r, Representable(r)
  PROVE  /\ Supported(r) /\ r.fps \in {24, 25, 30}
         /\ MTCCode(r) \in 0..3 /\ MTCRates[MTCCode(r) + 1] = r
  <1> DEFINE code == CHOOSE k \in DOMAIN MTCRates : MTCRates[k] = r
  <1>1. code \in DOMAIN MTCRates /\ MTCRates[code] = r
    BY DEF Representable
  <1>2. DOMAIN MTCRates = {1, 2, 3, 4}
    BY DEF MTCRates
  <1>3. \A k \in DOMAIN MTCRates : Supported(MTCRates[k]) /\ MTCRates[k].fps \in {24, 25, 30}
    <2>1. \A k \in {1, 2, 3, 4} : /\ MTCRates[k] \in [fps : {24, 25, 30}, drop : BOOLEAN]
                                  /\ MTCRates[k].drop => MTCRates[k].fps = 30
      <3>1. /\ MTCRates[1] = [fps |-> 24, drop |-> FALSE]
            /\ MTCRates[2] = [fps |-> 25, drop |-> FALSE]
            /\ MTCRates[3] = [fps |-> 30, drop |-> TRUE]
            /\ MTCRates[4] = [fps |-> 30, drop |-> FALSE]
        BY DEF MTCRates
      <3>3. \A k \in {1, 2, 3, 4} : MTCRates[k] \in [fps : {24, 25, 30}, drop : BOOLEAN]
        <4> DEFINE R == [fps : {24, 25, 30}, drop : BOOLEAN]
        <4>1. \A n \in {24, 25, 30}, b \in BOOLEAN : [fps |-> n, drop |-> b] \in R
          OBVIOUS
        <4> HIDE DEF R
        <4>2. MTCRates[1] \in R /\ MTCRates[2] \in R /\ MTCRates[3] \in R /\ MTCRates[4] \in R
          BY <3>1, <4>1, Zenon
        <4> QED
          BY <4>2 DEF R
      <3>4. \A k \in {1, 2, 3, 4} : MTCRates[k].drop => MTCRates[k].fps = 30
        BY <3>1
      <3> QED
        BY <3>3, <3>4
    <2>2. \A x : x \in [fps : {24, 25, 30}, drop : BOOLEAN] /\ (x.drop => x.fps = 30)
                  => Supported(x) /\ x.fps \in {24, 25, 30}
      BY DEF Supported
    <2> QED
      BY <1>2, <2>1, <2>2
  <1>4. MTCCode(r) = code - 1
    BY DEF MTCCode
  <1> HIDE DEF code
  <1>5. code \in Int /\ code - 1 \in 0..3 /\ (code - 1) + 1 = code
    BY <1>1, <1>2
  <1> QED
    BY <1>1, <1>3, <1>4, <1>5

LEMMA Decodes ==
  ASSUME NEW r, Representable(r), NEW tc \in Clock(r), NEW nibbles,
         \A p \in Pieces : nibbles[p] = EncodeQuarterFrames(r, tc)[p + 1]
  PROVE  Decoded(nibbles) = [complete |-> TRUE, rate |-> r, label |-> tc]
  <1> DEFINE f == tc.frames  s == tc.seconds  m == tc.minutes  h == tc.hours  c == MTCCode(r)
  <1>1. /\ h \in 0..23 /\ m \in 0..59 /\ s \in 0..59 /\ f \in 0..29
        /\ tc = [hours |-> h, minutes |-> m, seconds |-> s, frames |-> f]
    BY MIDIRates DEF Clock
  <1>2. c \in 0..3 /\ MTCRates[c + 1] = r
    BY MIDIRates
  <1>3. /\ nibbles[0] = f % 16 /\ nibbles[1] = (f \div 16) % 2
        /\ nibbles[2] = s % 16 /\ nibbles[3] = (s \div 16) % 4
        /\ nibbles[4] = m % 16 /\ nibbles[5] = (m \div 16) % 4
        /\ nibbles[6] = h % 16 /\ nibbles[7] = ((h \div 16) % 2) + 2 * c
    BY DEF Pieces, EncodeQuarterFrames
  <1> HIDE DEF f, s, m, h, c
  <1>4. /\ f = (f % 16) + 16 * (((f \div 16) % 2) % 2)
        /\ s = (s % 16) + 16 * (((s \div 16) % 4) % 4)
        /\ m = (m % 16) + 16 * (((m \div 16) % 4) % 4)
        /\ h = (h % 16) + 16 * (((h \div 16) % 2) % 2)
    BY <1>1, Halves
  <1>5. ((h \div 16) % 2) % 2 = (h \div 16) % 2
    BY <1>1
  <1>6. nibbles[7] % 2 = (h \div 16) % 2 /\ (nibbles[7] \div 2) % 4 = c
    BY <1>1, <1>2, <1>3, HourAndRate
  <1>7. /\ nibbles[0] + 16 * (nibbles[1] % 2) = f
        /\ nibbles[2] + 16 * (nibbles[3] % 4) = s
        /\ nibbles[4] + 16 * (nibbles[5] % 4) = m
        /\ nibbles[6] + 16 * (nibbles[7] % 2) = h
    BY <1>3, <1>4, <1>5, <1>6
  <1> QED
    BY <1>1, <1>2, <1>6, <1>7 DEF Decoded

\* The pieces of the label that is being sent, and the decoder that heard them.
Heard == IF reverse THEN (8 - sent)..7 ELSE 0..(sent - 1)

DecoderOK ==
  /\ decoder.nibbles \in [Pieces -> Int] /\ decoder.direction \in {-1, 0, 1}
  /\ decoder.seen = IF sent = 8 THEN {} ELSE Heard
  /\ sent \in 1..7 =>
       /\ decoder.last = IF reverse THEN 8 - sent ELSE sent - 1
       /\ decoder.direction = IF sent = 1 THEN 0 ELSE IF reverse THEN -1 ELSE 1
       /\ \A p \in Heard : decoder.nibbles[p] = EncodeQuarterFrames(rate, shown)[p + 1]

CountedOK ==
  /\ rate \in Rates /\ start \in Instants /\ frame \in Nat
  /\ shown \in Clock(rate) /\ ~IsDropped(rate, shown)
  /\ FrameNumber(rate, shown) = frame % FramesPerDay(rate)

SentOK ==
  /\ sent \in 0..8 /\ reverse \in BOOLEAN /\ (sent < 8 => Representable(rate))

HeardOK ==
  Representable(rate) /\ frame > FrameNumber(rate, start) /\ sent # 0 =>
    decoder.out = IF sent = 8 THEN [complete |-> TRUE, rate |-> rate, label |-> shown]
                  ELSE NoTimecode

FramesInv == CountedOK /\ SentOK /\ DecoderOK /\ HeardOK

LEMMA RatesSupported ==
  \A r \in Rates : Supported(r)
  BY FramesAssumption DEF Supported

LEMMA FramesInitially ==
  FramesInit => FramesInv
  <1> SUFFICES ASSUME FramesInit PROVE FramesInv
    OBVIOUS
  <1>1. rate \in Rates /\ Supported(rate) /\ start \in Instants /\ start \in Labels
        /\ Valid(rate, start) /\ shown = start /\ frame = FrameNumber(rate, start)
    BY RatesSupported, FramesAssumption DEF FramesInit
  <1>2. start \in Clock(rate) /\ ~IsDropped(rate, start)
    BY <1>1, ValidLabels
  <1>3. frame \in Nat /\ frame % FramesPerDay(rate) = frame
    <2>1. FramesPerDay(rate) \in Nat \ {0} /\ frame \in 0..(FramesPerDay(rate) - 1)
      BY <1>1, <1>2, Numbered, Drops
    <2>2. frame \in Nat /\ frame < FramesPerDay(rate)
      BY <2>1
    <2> QED
      BY <2>1, <2>2, Small
  <1>4. CountedOK
    BY <1>1, <1>2, <1>3 DEF CountedOK
  <1>5. SentOK /\ DecoderOK
    <2>1. sent = 8 /\ reverse = FALSE /\ decoder = FreshDecoder
      BY DEF FramesInit
    <2>2. /\ decoder.nibbles = [p \in Pieces |-> 0]
          /\ decoder.seen = {} /\ decoder.direction = 0
      BY <2>1 DEF FreshDecoder
    <2>3. decoder.nibbles \in [Pieces -> Int]
      BY <2>2
    <2>4. SentOK
      <3>1. sent \in 0..8 /\ ~(sent < 8)
        BY <2>1
      <3>2. reverse \in BOOLEAN
        BY <2>1, Zenon
      <3> QED
        BY <3>1, <3>2 DEF SentOK
    <2>5. DecoderOK
      BY <2>1, <2>2, <2>3 DEF DecoderOK
    <2> QED
      BY <2>4, <2>5
  <1>6. HeardOK
    BY <1>1, <1>3 DEF HeardOK
  <1> QED
    BY <1>4, <1>5, <1>6 DEF FramesInv

LEMMA RunFrameKeepsInv ==
  ASSUME FramesInv, RunFrame
  PROVE  FramesInv'
  <1>1. CountedOK /\ SentOK /\ DecoderOK /\ HeardOK
    BY DEF FramesInv
  <1>2. /\ frame' = frame + 1 /\ shown' = Tick(rate, shown) /\ sent = 8
        /\ UNCHANGED <<rate, start, decoder>>
        /\ IF Representable(rate) THEN sent' = 0 /\ reverse' \in BOOLEAN
           ELSE UNCHANGED <<sent, reverse>>
    BY DEF RunFrame
  <1>3. Supported(rate) /\ FramesPerDay(rate) \in Nat \ {0} /\ frame \in Nat
    BY <1>1, RatesSupported, Drops DEF CountedOK
  <1>4. /\ shown' \in Clock(rate) /\ ~IsDropped(rate, shown')
        /\ FrameNumber(rate, shown') = ((frame % FramesPerDay(rate)) + 1) % FramesPerDay(rate)
    BY <1>1, <1>2, <1>3, TickNumber DEF CountedOK
  <1>5. FrameNumber(rate, shown') = frame' % FramesPerDay(rate)
    BY <1>2, <1>3, <1>4, NextRemainder
  <1>6. CountedOK'
    BY <1>1, <1>2, <1>3, <1>4, <1>5 DEF CountedOK
  <1>7. SentOK'
    BY <1>1, <1>2 DEF SentOK
  <1>8. DecoderOK'
    <2>1. decoder.seen = {}
      BY <1>1, <1>2 DEF DecoderOK
    <2>2. sent' # 8 => sent' = 0 /\ Heard' = {}
      <3>1. ASSUME sent' = 0 PROVE Heard' = {}
        BY <3>1 DEF Heard
      <3> QED
        BY <1>2, <3>1
    <2>3. sent' \notin 1..7
      BY <1>2
    <2> QED
      BY <1>1, <1>2, <2>1, <2>2, <2>3 DEF DecoderOK
  <1>9. HeardOK'
    BY <1>2 DEF HeardOK
  <1> QED
    BY <1>6, <1>7, <1>8, <1>9 DEF FramesInv

LEMMA HearPieceKeepsInv ==
  ASSUME FramesInv, HearPiece
  PROVE  FramesInv'
  <1>1. CountedOK /\ SentOK /\ DecoderOK
    BY DEF FramesInv
  <1> DEFINE enc == EncodeQuarterFrames(rate, shown)  p == Piece  x == enc[p + 1]
             turn == IF sent = 0 THEN 0 ELSE IF reverse THEN -1 ELSE 1
             nibbles == [decoder.nibbles EXCEPT ![p] = x]
             now == Heard \cup {p}
  <1>2. /\ sent \in 0..7 /\ reverse \in BOOLEAN /\ Representable(rate)
        /\ sent' = sent + 1 /\ decoder' = Push(decoder, p, x)
        /\ UNCHANGED <<rate, start, frame, shown, reverse>>
    BY <1>1 DEF HearPiece, SentOK
  <1>3. p \in Pieces /\ p = (IF reverse THEN 7 - sent ELSE sent)
    BY <1>2 DEF Piece, Pieces
  <1>4. Supported(rate) /\ shown \in Labels /\ Valid(rate, shown) /\ shown \in Clock(rate)
    BY <1>1, RatesSupported, Drops, ValidLabels DEF CountedOK, Clock, Labels
  <1>5. x \in Int /\ nibbles \in [Pieces -> Int]
    <2>1. \A j \in Pieces : enc[j + 1] \in Int
      <3>1. shown.hours \in Int /\ shown.minutes \in Int /\ shown.seconds \in Int
            /\ shown.frames \in Int /\ MTCCode(rate) \in Int
        BY <1>2, <1>4, MIDIRates DEF Labels
      <3> QED
        BY <3>1 DEF Pieces, EncodeQuarterFrames
    <2> QED
      BY <1>1, <1>3, <2>1 DEF DecoderOK
  <1>6. \A j \in now : nibbles[j] = enc[j + 1]
    <2>1. \A j \in Heard : j \in Pieces /\ decoder.nibbles[j] = enc[j + 1]
      <3>1. Heard \subseteq Pieces /\ (sent = 0 => Heard = {})
        BY <1>2 DEF Heard, Pieces
      <3>2. CASE sent \in 1..7
        BY <1>1, <3>1, <3>2 DEF DecoderOK
      <3>3. CASE sent = 0
        BY <3>1, <3>3
      <3> QED
        BY <1>2, <3>2, <3>3
    <2> QED
      BY <1>1, <1>3, <2>1 DEF DecoderOK
  <1>7. /\ decoder.seen = Heard
        /\ Heard = {} <=> sent = 0
        /\ now = (IF reverse THEN (7 - sent)..7 ELSE 0..sent)
        /\ now = Pieces <=> sent = 7
    <2>1. decoder.seen = Heard
      BY <1>1, <1>2 DEF DecoderOK
    <2>2. Heard = {} <=> sent = 0
      BY <1>2 DEF Heard
    <2>3. now = IF reverse THEN (7 - sent)..7 ELSE 0..sent
      BY <1>2, <1>3 DEF Heard
    <2>4. now = Pieces <=> sent = 7
      <3>1. CASE reverse
        <4>1. sent # 7 => 0 \notin now
          BY <1>2, <2>3, <3>1
        <4> QED
          BY <2>3, <3>1, <4>1 DEF Pieces
      <3>2. CASE ~reverse
        <4>1. sent # 7 => 7 \notin now
          BY <1>2, <2>3, <3>2
        <4> QED
          BY <2>3, <3>2, <4>1 DEF Pieces
      <3> QED
        BY <1>2, <3>1, <3>2
    <2> QED
      BY <2>1, <2>2, <2>3, <2>4
  \* Each piece is the neighbour of the one before it, on the side it goes.
  <1>8. sent # 0 =>
          /\ p = (decoder.last + turn + 8) % 8 /\ decoder.direction \in {0, turn}
          /\ turn = -1 => p # (decoder.last + 1 + 8) % 8
    BY <1>1, <1>2, <1>3 DEF DecoderOK
  <1>9. now = Pieces => /\ Decoded(nibbles) = [complete |-> TRUE, rate |-> rate, label |-> shown]
                        /\ Valid(Decoded(nibbles).rate, Decoded(nibbles).label)
    <2>1. ASSUME now = Pieces
          PROVE  Decoded(nibbles) = [complete |-> TRUE, rate |-> rate, label |-> shown]
      BY <1>2, <1>4, <1>6, <2>1, Decodes
    <2> QED
      BY <1>4, <2>1
  <1> HIDE DEF enc, p, x, nibbles, now, turn
  <1>10. decoder' = [nibbles |-> nibbles,
                     seen |-> IF sent = 7 THEN {} ELSE now,
                     last |-> p,
                     direction |-> turn,
                     out |-> IF sent = 7
                             THEN [complete |-> TRUE, rate |-> rate, label |-> shown]
                             ELSE NoTimecode]
    <2> DEFINE Follows(way) == p = (decoder.last + way + 8) % 8 /\ decoder.direction \in {0, way}
               side == IF decoder.seen = {} THEN 0 ELSE IF Follows(1) THEN 1
                       ELSE IF Follows(-1) THEN -1 ELSE 2
    <2>1. side = turn /\ turn \in {-1, 0, 1}
      BY <1>2, <1>7, <1>8 DEF turn
    <2>2. (IF side = 2 THEN {} ELSE decoder.seen) \cup {p} = now
      BY <1>7, <2>1 DEF now
    <2> HIDE DEF side
    <2>3. Push(decoder, p, x) =
            LET whole == now = Pieces
                valid == Valid(Decoded(nibbles).rate, Decoded(nibbles).label)
            IN  [nibbles |-> nibbles,
                 seen |-> IF whole THEN {} ELSE now,
                 last |-> IF whole /\ ~valid THEN -1 ELSE p,
                 direction |-> IF side = 2 \/ (whole /\ ~valid) THEN 0 ELSE side,
                 out |-> IF whole /\ valid THEN Decoded(nibbles) ELSE NoTimecode]
      BY <2>2 DEF Push, side, nibbles
    <2>4. turn # 2
      BY <2>1
    <2>5. CASE sent = 7
      BY <1>2, <1>7, <1>9, <2>1, <2>3, <2>4, <2>5
    <2>6. CASE sent # 7
      BY <1>2, <1>7, <2>1, <2>3, <2>4, <2>6
    <2> QED
      BY <2>5, <2>6
  <1>11. CountedOK'
    BY <1>1, <1>2 DEF CountedOK
  <1>12. SentOK'
    BY <1>1, <1>2 DEF SentOK
  <1>13. sent' # 8 => Heard' = now
    BY <1>2, <1>7 DEF Heard
  <1>14. DecoderOK'
    <2>1. decoder'.nibbles = nibbles /\ decoder'.direction = turn /\ decoder'.last = p
          /\ decoder'.seen = (IF sent = 7 THEN {} ELSE now)
      BY <1>10
    <2>2. turn \in {-1, 0, 1} /\ nibbles \in [Pieces -> Int]
      BY <1>2, <1>5 DEF turn
    <2>3. decoder'.seen = IF sent' = 8 THEN {} ELSE Heard'
      BY <1>2, <1>13, <2>1
    <2>4. sent' \in 1..7 =>
            /\ decoder'.last = IF reverse' THEN 8 - sent' ELSE sent' - 1
            /\ decoder'.direction = IF sent' = 1 THEN 0 ELSE IF reverse' THEN -1 ELSE 1
      BY <1>2, <1>3, <2>1 DEF turn
    <2>5. sent' \in 1..7 =>
            \A j \in Heard' : decoder'.nibbles[j] = EncodeQuarterFrames(rate', shown')[j + 1]
      BY <1>2, <1>6, <1>13, <2>1 DEF enc
    <2> QED
      BY <2>1, <2>2, <2>3, <2>4, <2>5 DEF DecoderOK
  <1>15. HeardOK'
    BY <1>2, <1>10 DEF HeardOK
  <1> QED
    BY <1>11, <1>12, <1>14, <1>15 DEF FramesInv

LEMMA FramesStep ==
  ASSUME FramesInv, [FramesNext]_framesVars
  PROVE  FramesInv'
  <1>1. CASE UNCHANGED framesVars
    BY <1>1 DEF FramesInv, framesVars, CountedOK, SentOK, DecoderOK, HeardOK, Heard
  <1> QED
    BY <1>1, RunFrameKeepsInv, HearPieceKeepsInv DEF FramesNext

LEMMA FramesMeaning ==
  ASSUME FramesInv
  PROVE  FramesTypeOK /\ FrameNumbersAreExact
  <1>1. CountedOK /\ SentOK /\ DecoderOK /\ HeardOK
    BY DEF FramesInv
  <1>2. Supported(rate) /\ shown \in Clock(rate) /\ ~IsDropped(rate, shown) /\ shown \in Labels
    BY <1>1, RatesSupported, Drops DEF CountedOK, Clock, Labels
  <1>3. FromFrameNumber(rate, frame) = shown
    BY <1>1, <1>2, Numbered DEF CountedOK
  <1>4. decoder.seen \subseteq Pieces
    <2>1. sent # 8 => Heard \subseteq Pieces
      BY <1>1 DEF SentOK, Heard, Pieces
    <2> QED
      BY <1>1, <2>1 DEF DecoderOK
  <1>5. FramesTypeOK
    BY <1>1, <1>2, <1>4, ValidLabels DEF FramesTypeOK, CountedOK, SentOK, DecoderOK
  <1> QED
    BY <1>1, <1>3, <1>5 DEF FrameNumbersAreExact, CountedOK, HeardOK

LEMMA FramesAlways == FramesSpec => []FramesInv
<1> QED BY FramesInitially, FramesStep, PTL DEF FramesSpec

\* The types of the labels, the pieces and the decoder (runtimeState.mtc).
THEOREM FramesTypes == FramesSpec => []FramesTypeOK
<1> QED BY FramesAlways, FramesMeaning, PTL

(* A frame number names the label a clock shows after as many frames, at any *)
(* rate that ParseRate gives and from any instant of the day; and eight      *)
(* quarter frames carry a label whole, whichever way they run.               *)
THEOREM FrameNumbers == FramesSpec => []FrameNumbersAreExact
<1> QED BY FramesAlways, FramesMeaning, PTL
=============================================================================
