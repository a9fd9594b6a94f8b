----------------------------- MODULE StageLaser -----------------------------
(***************************************************************************)
(* The StageLaser control contract (internal/stagelaser/state_machine.go): *)
(* a relay that presses the laser's button.  One output pulse toggles the  *)
(* laser, so the machine may pulse only when it knows what it toggles.     *)
(*                                                                         *)
(* The state quality and ResyncRequired of the code say together what the  *)
(* logical state "UNKNOWN" says here: enterUnknown sets all three, and     *)
(* only CompletePulse and resync, which know the state, clear them.  The   *)
(* journal holds 32 results in the code; no instance sends that many.      *)
(***************************************************************************)
EXTENDS Integers, FiniteSets

CONSTANTS
  Commands,    \* command ids
  NoCommand,   \* the command id of a pulse that no command asked for
  TypeOf,      \* the type of every command
  SharedPower  \* the site has qualified that laser and relay share power

CommandTypes ==
  {"ARM", "DISARM", "SAFE_OFF", "SET_ON", "SET_OFF",
   "FLASH_START", "FLASH_STOP", "STATE_READ", "STATE_RESYNC"}

ASSUME StageLaserAssumption ==
  /\ NoCommand \notin Commands
  /\ TypeOf \in [Commands -> CommandTypes]
  /\ SharedPower \in BOOLEAN

VARIABLES
  arm,         \* Machine.armState
  logical,     \* Machine.logicalState
  pulse,       \* Machine.pending, NoPulse when no output pulse is in progress
  flash,       \* Machine.activeFlash # nil
  stored,      \* Machine.persistent: the stable state and the two markers
  journal,     \* Machine.journal: the last result of every command id
  output,      \* the laser itself
  emergency    \* history of every SAFE_OFF: whether it came, and was rearmed

laserVars == <<arm, logical, pulse, flash, stored, journal, output, emergency>>

Stable == {"OFF", "ON"}
Logical ==
  Stable \cup {"TURNING_ON", "TURNING_OFF", "FLASH_ON", "FLASH_OFF", "UNKNOWN"}
\* WATCHDOG is as SOFTWARE, and BROWNOUT as POWERON.
ResetClasses == {"SOFTWARE", "POWERON", "UNKNOWN"}
Results == {"none", "ACCEPTED", "COMPLETED", "REJECTED", "FAILED"}

NoPulse == [target |-> "OFF", command |-> NoCommand, ends |-> FALSE, on |-> FALSE]

Record(state) == [state |-> state, moving |-> FALSE, flashing |-> FALSE]

Pulsing == pulse.on

-----------------------------------------------------------------------------

\* NewColdPowerUpMachine; the laser's own power-up state is off.
LaserInit ==
  /\ arm = "DISARMED"
  /\ logical = "OFF"
  /\ pulse = NoPulse
  /\ flash = FALSE
  /\ stored = Record("OFF")
  /\ journal = [c \in Commands |-> "none"]
  /\ output = "OFF"
  /\ emergency = [c \in Commands |-> "none"]

\* complete, reject, fail and acceptPulse remember the result.  The history is
\* about a SAFE_OFF that came, and an ARM that was completed since.
Answer(c, result) ==
  /\ journal' = IF c = NoCommand THEN journal ELSE [journal EXCEPT ![c] = result]
  /\ emergency' = [d \in Commands |->
       IF d = c /\ TypeOf[d] = "SAFE_OFF" THEN "came"
       ELSE IF /\ c # NoCommand /\ TypeOf[c] = "ARM" /\ result = "COMPLETED"
               /\ emergency[d] = "came"
       THEN "rearmed" ELSE emergency[d]]

\* The pulse is marked in the record before the relay moves.
BeginPulse(c, target, ends) ==
  /\ pulse' = [target |-> target, command |-> c, ends |-> ends, on |-> TRUE]
  /\ logical' = IF target \in {"ON", "FLASH_ON"} THEN "TURNING_ON" ELSE "TURNING_OFF"

AcceptPulse(c, target, ends) ==
  /\ BeginPulse(c, target, ends)
  /\ Answer(c, "ACCEPTED")

\* A flash that ends while its light is off leaves the machine at OFF.
SettleFlash ==
  /\ flash' = FALSE
  /\ logical' = "OFF"
  /\ stored' = Record("OFF")
  /\ UNCHANGED pulse

EnterUnknown ==
  /\ arm' = "DISARMED"
  /\ logical' = "UNKNOWN"
  /\ pulse' = NoPulse
  /\ flash' = FALSE
  /\ stored' = Record("UNKNOWN")

Arm(c) ==
  LET ready == ~Pulsing /\ logical = "OFF"
  IN  /\ TypeOf[c] = "ARM"
      /\ arm' = IF ready THEN "ARMED" ELSE arm
      /\ Answer(c, IF ready THEN "COMPLETED" ELSE "REJECTED")
      /\ UNCHANGED <<logical, pulse, flash, stored, output>>

\* What setOff, flashStop and disarm share: to OFF from wherever the output is.
TurnOff(c) ==
  \/ /\ Pulsing
     /\ Answer(c, "REJECTED")
     /\ UNCHANGED <<logical, pulse, flash, stored>>
  \/ /\ logical = "FLASH_OFF"
     /\ SettleFlash
     /\ Answer(c, "COMPLETED")
  \/ /\ logical \in {"FLASH_ON", "ON"}
     /\ AcceptPulse(c, "OFF", flash)
     /\ stored' = [stored EXCEPT !.moving = TRUE]
     /\ UNCHANGED flash
  \/ /\ logical = "OFF"
     /\ Answer(c, "COMPLETED")
     /\ UNCHANGED <<logical, pulse, flash, stored>>

SetOff(c) ==
  /\ TypeOf[c] \in {"SET_OFF", "FLASH_STOP"}
  /\ \/ TurnOff(c)
     \/ /\ logical = "UNKNOWN"
        /\ Answer(c, "FAILED")
        /\ UNCHANGED <<logical, pulse, flash, stored>>
  /\ UNCHANGED <<arm, output>>

\* DISARMED at once, also when the output cannot be turned off yet.
Disarm(c) ==
  /\ TypeOf[c] \in {"DISARM", "SAFE_OFF"}
  /\ \/ arm' = "DISARMED" /\ TurnOff(c)
     \/ logical = "UNKNOWN" /\ EnterUnknown /\ Answer(c, "FAILED")
  /\ UNCHANGED output

\* Faulty variant: the record is given the transient state.
SetOnPersistsTurning(c) ==
  /\ TypeOf[c] = "SET_ON"
  /\ arm = "ARMED" /\ ~Pulsing /\ logical = "OFF"
  /\ AcceptPulse(c, "ON", FALSE)
  /\ stored' = [stored EXCEPT !.state = "TURNING_ON", !.moving = TRUE]
  /\ UNCHANGED <<arm, flash, output>>

SetOn(c) ==
  /\ TypeOf[c] = "SET_ON"
  /\ \/ /\ arm = "ARMED" /\ ~Pulsing /\ logical = "OFF"
        /\ AcceptPulse(c, "ON", FALSE)
        /\ stored' = [stored EXCEPT !.moving = TRUE]
     \/ /\ ~(arm = "ARMED" /\ ~Pulsing /\ logical = "OFF")
        /\ Answer(c, IF arm = "ARMED" /\ logical = "ON" THEN "COMPLETED" ELSE "REJECTED")
        /\ UNCHANGED <<logical, pulse, stored>>
  /\ UNCHANGED <<arm, flash, output>>

FlashStart(c) ==
  LET ready == arm = "ARMED" /\ ~Pulsing /\ ~flash /\ logical = "OFF"
  IN  /\ TypeOf[c] = "FLASH_START"
      /\ IF ready
         THEN /\ AcceptPulse(c, "FLASH_ON", FALSE)
              /\ flash' = TRUE
              /\ stored' = [stored EXCEPT !.moving = TRUE, !.flashing = TRUE]
         ELSE /\ Answer(c, "REJECTED")
              /\ UNCHANGED <<logical, pulse, flash, stored>>
      /\ UNCHANGED <<arm, output>>

Read(c) ==
  /\ TypeOf[c] = "STATE_READ"
  /\ Answer(c, "COMPLETED")
  /\ UNCHANGED <<arm, logical, pulse, flash, stored, output>>

\* The operator looks at the laser and tells the machine what it does.
Resync(c) ==
  LET ready == arm = "DISARMED" /\ ~Pulsing /\ ~flash
  IN  /\ TypeOf[c] = "STATE_RESYNC"
      /\ logical' = IF ready THEN output ELSE logical
      /\ stored' = IF ready THEN [stored EXCEPT !.state = output, !.moving = FALSE] ELSE stored
      /\ Answer(c, IF ready THEN "COMPLETED" ELSE "REJECTED")
      /\ UNCHANGED <<arm, pulse, flash, output>>

\* A command id that the journal knows is answered from it.
Execute(c) ==
  IF journal[c] # "none"
  THEN UNCHANGED laserVars
  ELSE \/ Arm(c) \/ Disarm(c) \/ SetOn(c) \/ SetOff(c)
       \/ FlashStart(c) \/ Read(c) \/ Resync(c)

\* Faulty variant: the record keeps the phase of a flash as if it were stable.
CompletePulsePersistsPhase ==
  /\ Pulsing
  /\ pulse' = NoPulse
  /\ logical' = pulse.target
  /\ flash' = (flash /\ ~pulse.ends)
  /\ stored' = [state |-> pulse.target, moving |-> FALSE,
                flashing |-> stored.flashing /\ ~pulse.ends]
  /\ Answer(pulse.command, "COMPLETED")
  /\ output' = IF output = "ON" THEN "OFF" ELSE "ON"
  /\ UNCHANGED arm

\* The relay is released: the laser has toggled, and the machine commits.
CompletePulse ==
  /\ Pulsing
  /\ pulse' = NoPulse
  /\ logical' = pulse.target
  /\ flash' = (flash /\ ~pulse.ends)
  /\ stored' = [state |-> IF pulse.target \in Stable THEN pulse.target ELSE stored.state,
                moving |-> FALSE,
                flashing |-> stored.flashing /\ ~pulse.ends]
  /\ Answer(pulse.command, "COMPLETED")
  /\ output' = IF output = "ON" THEN "OFF" ELSE "ON"
  /\ UNCHANGED arm

\* The flash timers.
AdvanceFlashPhase ==
  /\ flash /\ ~Pulsing
  /\ BeginPulse(NoCommand, IF logical = "FLASH_ON" THEN "FLASH_OFF" ELSE "FLASH_ON", FALSE)
  /\ stored' = [stored EXCEPT !.moving = TRUE]
  /\ UNCHANGED <<arm, flash, journal, output, emergency>>

ExpireFlash ==
  /\ flash /\ ~Pulsing
  /\ \/ logical = "FLASH_OFF" /\ SettleFlash
     \/ /\ logical = "FLASH_ON"
        /\ BeginPulse(NoCommand, "OFF", TRUE)
        /\ stored' = [stored EXCEPT !.moving = TRUE]
        /\ UNCHANGED flash
  /\ UNCHANGED <<arm, journal, output, emergency>>

\* Faulty variant: the markers of a pulse and a flash are not looked at.
RestoreTrustsRecord(reset) ==
  LET restored == IF reset = "UNKNOWN" THEN "UNKNOWN"
                  ELSE IF reset = "SOFTWARE" THEN stored.state
                  ELSE IF SharedPower THEN "OFF" ELSE "UNKNOWN"
  IN  /\ output' \in
           IF reset = "POWERON" /\ SharedPower THEN {"OFF"}
           ELSE {output} \cup (IF Pulsing THEN Stable ELSE {})
                         \cup (IF reset # "SOFTWARE" THEN {"OFF"} ELSE {})
      /\ arm' = "DISARMED" /\ logical' = restored
      /\ pulse' = NoPulse /\ flash' = FALSE
      /\ stored' = Record(restored)
      /\ journal' = [c \in Commands |-> "none"]
      /\ UNCHANGED emergency

\* The controller restarts with what is in the record.  A pulse that was in
\* progress may have toggled the laser; what cut the controller's power may
\* have cut the laser's, and has where they are known to share it.
RestoreMachine(reset) ==
  LET interrupted == stored.moving \/ stored.flashing
      restored == IF interrupted \/ reset = "UNKNOWN" THEN "UNKNOWN"
                  ELSE IF reset = "SOFTWARE" THEN stored.state
                  ELSE IF SharedPower THEN "OFF" ELSE "UNKNOWN"
  IN  /\ output' \in
           IF reset = "POWERON" /\ SharedPower THEN {"OFF"}
           ELSE {output} \cup (IF Pulsing THEN Stable ELSE {})
                         \cup (IF reset # "SOFTWARE" THEN {"OFF"} ELSE {})
      /\ arm' = "DISARMED"
      /\ logical' = restored
      /\ pulse' = NoPulse
      /\ flash' = FALSE
      /\ stored' = Record(restored)
      /\ journal' = [c \in Commands |-> "none"]
      /\ UNCHANGED emergency

LaserStep == CompletePulse \/ AdvanceFlashPhase \/ ExpireFlash

LaserNext ==
  \/ \E c \in Commands : Execute(c)
  \/ LaserStep
  \/ \E reset \in ResetClasses : RestoreMachine(reset)

LaserSpec == LaserInit /\ [][LaserNext]_laserVars

-----------------------------------------------------------------------------

LaserTypeOK ==
  /\ arm \in {"ARMED", "DISARMED"}
  /\ logical \in Logical
  /\ pulse \in [target : Logical, command : Commands \cup {NoCommand},
                ends : BOOLEAN, on : BOOLEAN]
  /\ flash \in BOOLEAN
  /\ stored \in [state : Stable \cup {"UNKNOWN"}, moving : BOOLEAN, flashing : BOOLEAN]
  /\ journal \in [Commands -> Results]
  /\ output \in Stable
  /\ emergency \in [Commands -> {"none", "came", "rearmed"}]

(* What the machine says of a light that it believes it knows is what the   *)
(* light does, through pulses, flashes, resets in the middle of either, and *)
(* restarts from the stored record (CompletePulse, RestoreMachine).         *)
TrackedIsTrue ==
  /\ logical \in {"OFF", "FLASH_OFF"} => output = "OFF"
  /\ logical \in {"ON", "FLASH_ON"} => output = "ON"

=============================================================================
