------------------------- MODULE DeviceChannel_proofs -------------------------
(***************************************************************************)
(* Proofs about the device channel and the laser behind it, for any        *)
(* commands, sockets, snapshots, assignments and failures, whether or not  *)
(* laser and relay share their power.                                      *)
(***************************************************************************)
EXTENDS DeviceChannel, TLAPS

Targets == {"OFF", "ON", "FLASH_ON", "FLASH_OFF"}

(* A pulse is in progress exactly in the transient states, it is marked in  *)
(* the record, and it toggles a light that is not yet what it is to be.     *)
PulseIsMarked ==
  /\ Pulsing <=> logical \in {"TURNING_ON", "TURNING_OFF"}
  /\ stored.moving <=> Pulsing
  /\ Pulsing => /\ pulse.target \in Targets
                /\ pulse.target \in {"OFF", "FLASH_OFF"} <=> output = "ON"

(* A flash is marked in the record, and a light that flashes is either in   *)
(* one of its phases or on the way to one or to the end.                    *)
FlashIsMarked ==
  /\ stored.flashing <=> flash
  /\ logical \in {"FLASH_ON", "FLASH_OFF"} => flash
  /\ flash /\ ~Pulsing => logical \in {"FLASH_ON", "FLASH_OFF"}
  /\ flash /\ Pulsing => \/ pulse.target \in {"FLASH_ON", "FLASH_OFF"} /\ ~pulse.ends
                         \/ pulse.target = "OFF" /\ pulse.ends
  /\ ~flash /\ Pulsing => pulse.target \in Stable

(* A record without a marker holds the state that the machine is in.        *)
RecordIsState == ~Pulsing /\ ~flash => stored.state = logical

LaserInv ==
  LaserTypeOK /\ PulseIsMarked /\ FlashIsMarked /\ RecordIsState /\ TrackedIsTrue

USE DEF Targets, Stable

-----------------------------------------------------------------------------
(* Type correctness.                                                       *)

LEMMA AnswerType ==
  ASSUME LaserTypeOK, NEW c \in Commands \cup {NoCommand}, NEW result \in Results,
         Answer(c, result)
  PROVE  journal' \in [Commands -> Results] /\ emergency' \in [Commands -> {"none", "came", "rearmed"}]
  BY DEF LaserTypeOK, Answer

LEMMA BeginPulseType ==
  ASSUME NEW c \in Commands \cup {NoCommand}, NEW target \in Targets,
         NEW ends \in BOOLEAN, BeginPulse(c, target, ends)
  PROVE  /\ logical' \in Logical
         /\ pulse' \in [target : Logical, command : Commands \cup {NoCommand},
                        ends : BOOLEAN, on : BOOLEAN]
  BY DEF BeginPulse, Logical

\* What the machine is left with when it has nothing to do.
LEMMA RestingType ==
  /\ NoPulse \in [target : Logical, command : Commands \cup {NoCommand},
                  ends : BOOLEAN, on : BOOLEAN]
  /\ \A state \in Stable \cup {"UNKNOWN"} :
       Record(state) \in [state : Stable \cup {"UNKNOWN"}, moving : BOOLEAN,
                         flashing : BOOLEAN]
  BY DEF NoPulse, Record, Logical

LEMMA InitInv == LaserInit => LaserInv
  <1> SUFFICES ASSUME LaserInit PROVE LaserInv
    OBVIOUS
  <1>1. ~Pulsing /\ ~flash /\ ~stored.moving /\ ~stored.flashing /\ stored.state = "OFF"
    BY DEF LaserInit, Pulsing, NoPulse, Record
  <1>2. LaserTypeOK
    BY RestingType DEF LaserInit, LaserTypeOK, Results, Logical
  <1>3. PulseIsMarked /\ FlashIsMarked /\ RecordIsState /\ TrackedIsTrue
    BY <1>1 DEF LaserInit, PulseIsMarked, FlashIsMarked, RecordIsState, TrackedIsTrue
  <1> QED
    BY <1>2, <1>3 DEF LaserInv

-----------------------------------------------------------------------------
(* One lemma for what moves the laser's part of the state, and one for each *)
(* command of it.                                                           *)

\* An answer alone.
LEMMA AnswerKeepsInv ==
  ASSUME LaserInv, NEW c \in Commands \cup {NoCommand}, NEW result \in Results,
         Answer(c, result), arm' \in {"ARMED", "DISARMED"},
         UNCHANGED <<logical, pulse, flash, stored, output>>
  PROVE  LaserInv'
  <1>1. LaserTypeOK'
    BY AnswerType DEF LaserInv, LaserTypeOK
  <1>2. PulseIsMarked' /\ FlashIsMarked' /\ RecordIsState' /\ TrackedIsTrue'
    BY DEF LaserInv, PulseIsMarked, FlashIsMarked, RecordIsState, TrackedIsTrue, Pulsing
  <1> QED
    BY <1>1, <1>2 DEF LaserInv

\* A pulse that ends a light or begins one, outside a flash or at its end.
LEMMA AcceptKeepsInv ==
  ASSUME LaserInv, NEW c \in Commands \cup {NoCommand}, ~Pulsing,
         NEW target \in Targets, NEW ends \in BOOLEAN,
         BeginPulse(c, target, ends),
         target \in {"OFF", "FLASH_OFF"} <=> output = "ON",
         flash' \in BOOLEAN,
         flash' => \/ target \in {"FLASH_ON", "FLASH_OFF"} /\ ~ends
                   \/ target = "OFF" /\ ends,
         ~flash' => target \in Stable,
         stored' = [stored EXCEPT !.moving = TRUE, !.flashing = flash'],
         journal' \in [Commands -> Results], emergency' \in [Commands -> {"none", "came", "rearmed"}],
         arm' \in {"ARMED", "DISARMED"}, output' = output
  PROVE  LaserInv'
  <1>1. LaserTypeOK'
    BY BeginPulseType DEF LaserInv, LaserTypeOK
  <1>2. PulseIsMarked' /\ TrackedIsTrue'
    BY DEF PulseIsMarked, TrackedIsTrue, Pulsing, BeginPulse
  <1>3. FlashIsMarked' /\ RecordIsState'
    BY DEF FlashIsMarked, RecordIsState, Pulsing, BeginPulse
  <1> QED
    BY <1>1, <1>2, <1>3 DEF LaserInv

\* Whatever brings the machine to rest in a state that it knows, or to UNKNOWN.
LEMMA RestKeepsInv ==
  ASSUME LaserInv, NEW state \in Stable \cup {"UNKNOWN"},
         logical' = state, ~Pulsing', pulse' = pulse \/ pulse' = NoPulse,
         ~flash', flash' \in BOOLEAN, stored' = Record(state),
         output' \in Stable, state \in Stable => output' = state,
         journal' \in [Commands -> Results], emergency' \in [Commands -> {"none", "came", "rearmed"}],
         arm' \in {"ARMED", "DISARMED"}
  PROVE  LaserInv'
  <1>1. LaserTypeOK'
    <2>1. stored' \in [state : Stable \cup {"UNKNOWN"}, moving : BOOLEAN,
                       flashing : BOOLEAN]
      BY RestingType
    <2>2. logical' \in Logical
      BY DEF Logical
    <2> QED
      BY <2>2, RestingType DEF LaserInv, LaserTypeOK
  <1>2. PulseIsMarked' /\ FlashIsMarked' /\ RecordIsState' /\ TrackedIsTrue'
    BY DEF PulseIsMarked, FlashIsMarked, RecordIsState, TrackedIsTrue, Record
  <1> QED
    BY <1>1, <1>2 DEF LaserInv

LEMMA ArmKeepsInv ==
  ASSUME LaserInv, NEW c \in Commands, Arm(c)
  PROVE  LaserInv'
  BY AnswerKeepsInv DEF Arm, Results, LaserInv, LaserTypeOK

LEMMA ReadKeepsInv ==
  ASSUME LaserInv, NEW c \in Commands, Read(c)
  PROVE  LaserInv'
  BY AnswerKeepsInv DEF Read, Results, LaserInv, LaserTypeOK

\* Shared by DISARM, SAFE_OFF, SET_OFF, FLASH_STOP, and what a device does on
\* its own before it says that it is safe.
LEMMA TurnOffKeepsInv ==
  ASSUME LaserInv, NEW c \in Commands \cup {NoCommand}, TurnOff(c),
         arm' \in {"ARMED", "DISARMED"}, output' = output
  PROVE  LaserInv'
  <1> USE DEF LaserInv
  <1>1. CASE Pulsing /\ Answer(c, "REJECTED") /\ UNCHANGED <<logical, pulse, flash, stored>>
    BY <1>1, AnswerKeepsInv DEF Results
  <1>2. CASE logical = "OFF" /\ Answer(c, "COMPLETED") /\ UNCHANGED <<logical, pulse, flash, stored>>
    BY <1>2, AnswerKeepsInv DEF Results
  <1>3. CASE logical = "FLASH_OFF" /\ SettleFlash /\ Answer(c, "COMPLETED")
    <2>1. ~Pulsing /\ output = "OFF"
      BY <1>3 DEF PulseIsMarked, TrackedIsTrue
    <2>2. ~Pulsing' /\ ~flash' /\ flash' \in BOOLEAN /\ logical' = "OFF" /\ stored' = Record("OFF")
      BY <1>3, <2>1 DEF SettleFlash, Pulsing
    <2>3. journal' \in [Commands -> Results] /\ emergency' \in [Commands -> {"none", "came", "rearmed"}]
      BY <1>3, AnswerType DEF Results
    <2>4. pulse' = pulse
      BY <1>3 DEF SettleFlash
    <2> QED
      BY <2>1, <2>2, <2>3, <2>4, RestKeepsInv
  <1>4. CASE /\ logical \in {"FLASH_ON", "ON"}
             /\ AcceptPulse(c, "OFF", flash)
             /\ stored' = [stored EXCEPT !.moving = TRUE]
             /\ UNCHANGED flash
    <2>1. ~Pulsing /\ output = "ON"
      BY <1>4 DEF PulseIsMarked, TrackedIsTrue
    <2>2. stored' = [stored EXCEPT !.moving = TRUE, !.flashing = flash']
      BY <1>4 DEF FlashIsMarked, LaserTypeOK
    <2>3. BeginPulse(c, "OFF", flash) /\ Answer(c, "ACCEPTED")
      BY <1>4 DEF AcceptPulse
    <2>4. journal' \in [Commands -> Results] /\ emergency' \in [Commands -> {"none", "came", "rearmed"}]
      BY <2>3, AnswerType DEF Results
    <2>5. flash \in BOOLEAN /\ flash' = flash
      BY <1>4 DEF LaserTypeOK
    <2> QED
      BY <2>1, <2>2, <2>3, <2>4, <2>5, AcceptKeepsInv
  <1> QED
    BY <1>1, <1>2, <1>3, <1>4 DEF TurnOff

LEMMA EnterUnknownKeepsInv ==
  ASSUME LaserInv, NEW c \in Commands, EnterUnknown, Answer(c, "FAILED"), output' = output
  PROVE  LaserInv'
  <1>1. ~Pulsing' /\ ~flash' /\ flash' \in BOOLEAN /\ pulse' = NoPulse
    BY DEF EnterUnknown, NoPulse, Pulsing
  <1>2. journal' \in [Commands -> Results] /\ emergency' \in [Commands -> {"none", "came", "rearmed"}]
    BY AnswerType DEF LaserInv, Results
  <1>3. output' \in Stable
    BY DEF LaserInv, LaserTypeOK
  <1> QED
    BY <1>1, <1>2, <1>3, RestKeepsInv DEF EnterUnknown

LEMMA SetOffKeepsInv ==
  ASSUME LaserInv, NEW c \in Commands, SetOff(c)
  PROVE  LaserInv'
  <1>1. arm' \in {"ARMED", "DISARMED"} /\ output' = output
    BY DEF SetOff, LaserInv, LaserTypeOK
  <1>2. CASE TurnOff(c)
    BY <1>1, <1>2, TurnOffKeepsInv
  <1>3. CASE Answer(c, "FAILED") /\ UNCHANGED <<logical, pulse, flash, stored>>
    BY <1>1, <1>3, AnswerKeepsInv DEF Results
  <1> QED
    BY <1>2, <1>3 DEF SetOff

LEMMA DisarmKeepsInv ==
  ASSUME LaserInv, NEW c \in Commands, Disarm(c)
  PROVE  LaserInv'
  <1>1. CASE arm' = "DISARMED" /\ TurnOff(c)
    BY <1>1, TurnOffKeepsInv DEF Disarm
  <1>2. CASE EnterUnknown /\ Answer(c, "FAILED")
    BY <1>2, EnterUnknownKeepsInv DEF Disarm
  <1> QED
    BY <1>1, <1>2 DEF Disarm

LEMMA SetOnKeepsInv ==
  ASSUME LaserInv, NEW c \in Commands, SetOn(c)
  PROVE  LaserInv'
  <1>1. arm' \in {"ARMED", "DISARMED"} /\ output' = output /\ flash' = flash
    BY DEF SetOn, LaserInv, LaserTypeOK
  <1>2. CASE /\ ~Pulsing /\ logical = "OFF"
             /\ AcceptPulse(c, "ON", FALSE)
             /\ stored' = [stored EXCEPT !.moving = TRUE]
    <2>1. output = "OFF" /\ ~flash
      BY <1>2 DEF LaserInv, TrackedIsTrue, FlashIsMarked
    <2>2. stored' = [stored EXCEPT !.moving = TRUE, !.flashing = flash'] /\ flash' \in BOOLEAN
      BY <1>1, <1>2 DEF LaserInv, FlashIsMarked, LaserTypeOK
    <2>3. BeginPulse(c, "ON", FALSE) /\ Answer(c, "ACCEPTED")
      BY <1>2 DEF AcceptPulse
    <2>4. journal' \in [Commands -> Results] /\ emergency' \in [Commands -> {"none", "came", "rearmed"}]
      BY <2>3, AnswerType DEF LaserInv, Results
    <2> QED
      BY <1>1, <1>2, <2>1, <2>2, <2>3, <2>4, AcceptKeepsInv
  <1>3. CASE /\ Answer(c, IF arm = "ARMED" /\ logical = "ON" THEN "COMPLETED" ELSE "REJECTED")
             /\ UNCHANGED <<logical, pulse, stored>>
    BY <1>1, <1>3, AnswerKeepsInv DEF Results
  <1> QED
    BY <1>2, <1>3 DEF SetOn

LEMMA FlashStartKeepsInv ==
  ASSUME LaserInv, NEW c \in Commands, FlashStart(c)
  PROVE  LaserInv'
  <1>1. arm' \in {"ARMED", "DISARMED"} /\ output' = output
    BY DEF FlashStart, LaserInv, LaserTypeOK
  <1>2. CASE /\ ~Pulsing /\ logical = "OFF"
             /\ AcceptPulse(c, "FLASH_ON", FALSE)
             /\ flash' = TRUE
             /\ stored' = [stored EXCEPT !.moving = TRUE, !.flashing = TRUE]
    <2>1. output = "OFF"
      BY <1>2 DEF LaserInv, TrackedIsTrue
    <2>2. BeginPulse(c, "FLASH_ON", FALSE) /\ Answer(c, "ACCEPTED")
      BY <1>2 DEF AcceptPulse
    <2>3. journal' \in [Commands -> Results] /\ emergency' \in [Commands -> {"none", "came", "rearmed"}]
      BY <2>2, AnswerType DEF LaserInv, Results
    <2>4. stored' = [stored EXCEPT !.moving = TRUE, !.flashing = flash'] /\ flash' /\ flash' \in BOOLEAN
      BY <1>2
    <2> QED
      BY <1>1, <1>2, <2>1, <2>2, <2>3, AcceptKeepsInv
  <1>3. CASE Answer(c, "REJECTED") /\ UNCHANGED <<logical, pulse, flash, stored>>
    BY <1>1, <1>3, AnswerKeepsInv DEF Results
  <1> QED
    BY <1>2, <1>3 DEF FlashStart

LEMMA ResyncKeepsInv ==
  ASSUME LaserInv, NEW c \in Commands, Resync(c)
  PROVE  LaserInv'
  <1>1. CASE arm = "DISARMED" /\ ~Pulsing /\ ~flash
    <2>1. logical' = output /\ output \in Stable /\ output' = output
      BY <1>1 DEF Resync, LaserInv, LaserTypeOK
    <2>2. stored' = Record(output)
      BY <1>1 DEF Resync, Record, LaserInv, LaserTypeOK, FlashIsMarked
    <2>3. Answer(c, "COMPLETED") /\ UNCHANGED <<arm, pulse, flash>>
      BY <1>1 DEF Resync
    <2>4. journal' \in [Commands -> Results] /\ emergency' \in [Commands -> {"none", "came", "rearmed"}]
      BY <2>3, AnswerType DEF LaserInv, Results
    <2>5. ~Pulsing' /\ ~flash' /\ flash' \in BOOLEAN
      BY <1>1, <2>3 DEF Pulsing, LaserInv, LaserTypeOK
    <2> QED
      BY <1>1, <2>1, <2>2, <2>3, <2>4, <2>5, RestKeepsInv
  <1>2. CASE ~(arm = "DISARMED" /\ ~Pulsing /\ ~flash)
    BY <1>2, AnswerKeepsInv DEF Resync, Results, LaserInv, LaserTypeOK
  <1> QED
    BY <1>1, <1>2

LEMMA ExecuteKeepsInv ==
  ASSUME LaserInv, NEW c \in Commands, Execute(c)
  PROVE  LaserInv'
  <1>1. CASE UNCHANGED laserVars
    BY <1>1 DEF laserVars, LaserInv, LaserTypeOK, PulseIsMarked, FlashIsMarked,
       RecordIsState, TrackedIsTrue, Pulsing
  <1> QED
    BY <1>1, ArmKeepsInv, DisarmKeepsInv, SetOnKeepsInv, SetOffKeepsInv,
       FlashStartKeepsInv, ReadKeepsInv, ResyncKeepsInv DEF Execute

-----------------------------------------------------------------------------
(* The relay, the timers and the restart.                                   *)

LEMMA CompletePulseKeepsInv ==
  ASSUME LaserInv, CompletePulse
  PROVE  LaserInv'
  <1> USE DEF LaserInv
  <1>1. /\ pulse.target \in Targets /\ output \in Stable
        /\ pulse.target \in {"OFF", "FLASH_OFF"} <=> output = "ON"
    BY DEF CompletePulse, PulseIsMarked, LaserTypeOK
  <1>2. /\ output' \in Stable
        /\ pulse.target \in {"OFF", "FLASH_OFF"} <=> output' = "OFF"
    BY <1>1 DEF CompletePulse
  <1>3. ~Pulsing' /\ pulse' = NoPulse /\ logical' = pulse.target
    BY DEF CompletePulse, Pulsing, NoPulse
  <1>4. journal' \in [Commands -> Results] /\ emergency' \in [Commands -> {"none", "came", "rearmed"}]
    BY AnswerType DEF CompletePulse, LaserTypeOK, Results
  <1>5. CASE pulse.target \in Stable
    <2>1. ~flash' /\ flash' \in BOOLEAN
      BY <1>5 DEF CompletePulse, FlashIsMarked
    <2>2. stored' = Record(pulse.target)
      BY <2>1 DEF CompletePulse, FlashIsMarked, Record
    <2>3. output' = pulse.target /\ arm' \in {"ARMED", "DISARMED"}
      BY <1>2, <1>5 DEF CompletePulse, LaserTypeOK
    <2> QED
      BY <1>3, <1>4, <1>5, <2>1, <2>2, <2>3, RestKeepsInv
  <1>6. CASE pulse.target \in {"FLASH_ON", "FLASH_OFF"}
    <2>1. flash /\ ~pulse.ends
      BY <1>6 DEF CompletePulse, FlashIsMarked
    <2>2. flash' /\ flash' \in BOOLEAN
      BY <2>1 DEF CompletePulse
    <2>3. stored' = [state |-> stored.state, moving |-> FALSE, flashing |-> stored.flashing /\ ~pulse.ends]
      BY <1>6 DEF CompletePulse
    <2>4. stored'.state = stored.state /\ ~stored'.moving /\ stored'.flashing
      BY <2>1, <2>3 DEF FlashIsMarked
    <2>5. stored' \in [state : Stable \cup {"UNKNOWN"}, moving : BOOLEAN, flashing : BOOLEAN]
      BY <2>3 DEF LaserTypeOK
    <2>6. LaserTypeOK'
      BY <1>4, RestingType DEF CompletePulse, LaserTypeOK
    <2> QED
      BY <1>2, <1>3, <1>6, <2>2, <2>4, <2>6 DEF PulseIsMarked, FlashIsMarked,
         RecordIsState, TrackedIsTrue
  <1> QED
    BY <1>1, <1>5, <1>6

LEMMA AdvanceFlashPhaseKeepsInv ==
  ASSUME LaserInv, AdvanceFlashPhase
  PROVE  LaserInv'
  <1> DEFINE target == IF logical = "FLASH_ON" THEN "FLASH_OFF" ELSE "FLASH_ON"
  <1>1. flash /\ ~Pulsing /\ logical \in {"FLASH_ON", "FLASH_OFF"}
    BY DEF AdvanceFlashPhase, LaserInv, FlashIsMarked
  <1>2. target \in {"FLASH_ON", "FLASH_OFF"} /\ (target \in {"OFF", "FLASH_OFF"} <=> output = "ON")
    BY <1>1 DEF LaserInv, TrackedIsTrue
  <1>3. /\ BeginPulse(NoCommand, target, FALSE)
        /\ flash' /\ flash' \in BOOLEAN
        /\ stored' = [stored EXCEPT !.moving = TRUE]
        /\ UNCHANGED <<arm, journal, output, emergency>>
    BY DEF AdvanceFlashPhase
  <1>4. stored' = [stored EXCEPT !.moving = TRUE, !.flashing = flash']
    BY <1>1, <1>3 DEF LaserInv, FlashIsMarked
  <1>5. /\ journal' \in [Commands -> Results] /\ emergency' \in [Commands -> {"none", "came", "rearmed"}]
        /\ arm' \in {"ARMED", "DISARMED"} /\ output' = output
    <2>1. journal' = journal /\ emergency' = emergency /\ arm' = arm /\ output' = output
      BY <1>3
    <2> HIDE DEF target
    <2> QED
      BY <2>1 DEF LaserInv, LaserTypeOK
  <1>6. NoCommand \in Commands \cup {NoCommand} /\ FALSE \in BOOLEAN /\ target \in Targets
    BY <1>2
  <1>7. BeginPulse(NoCommand, target, FALSE) /\ flash' /\ flash' \in BOOLEAN
    BY <1>3
  <1> HIDE DEF target
  <1> QED
    BY <1>1, <1>2, <1>4, <1>5, <1>7, AcceptKeepsInv

LEMMA ExpireFlashKeepsInv ==
  ASSUME LaserInv, ExpireFlash
  PROVE  LaserInv'
  <1>1. /\ journal' \in [Commands -> Results] /\ emergency' \in [Commands -> {"none", "came", "rearmed"}]
        /\ arm' \in {"ARMED", "DISARMED"} /\ output' = output /\ output \in Stable
        /\ flash /\ ~Pulsing
    BY DEF ExpireFlash, LaserInv, LaserTypeOK
  <1>2. CASE logical = "FLASH_OFF" /\ SettleFlash
    <2>1. output = "OFF" /\ pulse' = pulse /\ ~Pulsing' /\ ~flash' /\ flash' \in BOOLEAN
      BY <1>1, <1>2 DEF SettleFlash, Pulsing, LaserInv, TrackedIsTrue
    <2> QED
      BY <1>1, <1>2, <2>1, RestKeepsInv DEF SettleFlash
  <1>3. CASE /\ logical = "FLASH_ON"
             /\ BeginPulse(NoCommand, "OFF", TRUE)
             /\ stored' = [stored EXCEPT !.moving = TRUE]
             /\ UNCHANGED flash
    <2>1. output = "ON" /\ flash' /\ flash' \in BOOLEAN
      BY <1>1, <1>3 DEF LaserInv, TrackedIsTrue
    <2>2. stored' = [stored EXCEPT !.moving = TRUE, !.flashing = flash']
      BY <1>3 DEF LaserInv, FlashIsMarked
    <2> QED
      BY <1>1, <1>3, <2>1, <2>2, AcceptKeepsInv
  <1> QED
    BY <1>2, <1>3 DEF ExpireFlash

LEMMA RestoreKeepsInv ==
  ASSUME LaserInv, NEW reset \in ResetClasses, RestoreMachine(reset)
  PROVE  LaserInv'
  <1> USE DEF LaserInv
  <1> DEFINE interrupted == stored.moving \/ stored.flashing
  <1>1. CASE interrupted \/ reset = "UNKNOWN" \/ (reset # "SOFTWARE" /\ ~SharedPower)
    <2>1. logical' = "UNKNOWN" /\ stored' = Record("UNKNOWN")
      BY <1>1 DEF RestoreMachine
    <2>2. output' \in Stable
      BY DEF RestoreMachine, LaserTypeOK
    <2>3. ~Pulsing' /\ pulse' = NoPulse /\ ~flash' /\ flash' \in BOOLEAN /\ arm' = "DISARMED"
      BY DEF RestoreMachine, Pulsing, NoPulse
    <2>4. journal' \in [Commands -> Results] /\ emergency' \in [Commands -> {"none", "came", "rearmed"}]
      BY DEF RestoreMachine, LaserTypeOK, Results
    <2> QED
      BY <2>1, <2>2, <2>3, <2>4, RestKeepsInv
  <1>2. CASE ~interrupted /\ reset = "SOFTWARE"
    <2>1. ~Pulsing /\ ~flash /\ stored.state = logical /\ stored.state \in Stable \cup {"UNKNOWN"}
      BY <1>2 DEF PulseIsMarked, FlashIsMarked, RecordIsState, LaserTypeOK
    <2>2. logical' = stored.state /\ stored' = Record(stored.state) /\ output' = output
      BY <1>2, <2>1 DEF RestoreMachine
    <2>3. output \in Stable /\ (stored.state \in Stable => output = stored.state)
      BY <2>1 DEF TrackedIsTrue, LaserTypeOK
    <2>4. ~Pulsing' /\ pulse' = NoPulse /\ ~flash' /\ flash' \in BOOLEAN /\ arm' = "DISARMED"
      BY DEF RestoreMachine, Pulsing, NoPulse
    <2>5. journal' \in [Commands -> Results] /\ emergency' \in [Commands -> {"none", "came", "rearmed"}]
      BY DEF RestoreMachine, LaserTypeOK, Results
    <2> QED
      BY <2>1, <2>2, <2>3, <2>4, <2>5, RestKeepsInv
  <1>3. CASE ~interrupted /\ reset = "POWERON" /\ SharedPower
    <2>1. logical' = "OFF" /\ stored' = Record("OFF") /\ output' = "OFF"
      BY <1>3 DEF RestoreMachine
    <2>2. ~Pulsing' /\ pulse' = NoPulse /\ ~flash' /\ flash' \in BOOLEAN /\ arm' = "DISARMED"
      BY DEF RestoreMachine, Pulsing, NoPulse
    <2>3. journal' \in [Commands -> Results] /\ emergency' \in [Commands -> {"none", "came", "rearmed"}]
      BY DEF RestoreMachine, LaserTypeOK, Results
    <2> QED
      BY <2>1, <2>2, <2>3, RestKeepsInv
  <1> QED
    BY <1>1, <1>2, <1>3 DEF ResetClasses

LEMMA NextInv == LaserInv /\ [LaserNext]_laserVars => LaserInv'
  <1> SUFFICES ASSUME LaserInv, [LaserNext]_laserVars PROVE LaserInv'
    OBVIOUS
  <1>1. CASE UNCHANGED laserVars
    BY <1>1 DEF laserVars, LaserInv, LaserTypeOK, PulseIsMarked, FlashIsMarked,
       RecordIsState, TrackedIsTrue, Pulsing
  <1> QED
    BY <1>1, ExecuteKeepsInv, CompletePulseKeepsInv, AdvanceFlashPhaseKeepsInv,
       ExpireFlashKeepsInv, RestoreKeepsInv DEF LaserNext, LaserStep

-----------------------------------------------------------------------------

(* The machine, its record and the light stay in their domains, and the     *)
(* markers of the record are those of the pulse and the flash in progress   *)
(* (beginPulse, flashStart, CompletePulse, persistStable).                  *)
THEOREM LaserInvariant == LaserSpec => []LaserInv
  <1> QED
    BY InitInv, NextInv, PTL DEF LaserSpec

(* TypeOK of the runs, for the laser. *)
THEOREM LaserTypeCorrect == LaserSpec => []LaserTypeOK
  <1>1. LaserInv => LaserTypeOK
    BY DEF LaserInv
  <1> QED
    BY <1>1, LaserInvariant, PTL

(* What the machine says of a light that it believes it knows is what the   *)
(* light does (CompletePulse, RestoreMachine).                              *)
THEOREM TrackedLight == LaserSpec => []TrackedIsTrue
  <1>1. LaserInv => TrackedIsTrue
    BY DEF LaserInv
  <1> QED
    BY <1>1, LaserInvariant, PTL

-----------------------------------------------------------------------------
(* The channel.                                                            *)

DownMessages ==
  [kind : {"execute"}, about : Commands] \cup [kind : {"scope", "prepare"}, about : Scopes]
UpMessages ==
  [kind : {"scope", "safe"}, about : Scopes]
    \cup [kind : {"result"}, about : [command : Commands, status : Results]]

\* TypeOK, and what the wires may carry.
ChannelTyped ==
  /\ TypeOK
  /\ down \in [Sockets -> Seq(DownMessages)]
  /\ up \in [Sockets -> Seq(UpMessages)]

\* The positions of the messages of a kind on a wire.
Positions(wire, kind) == {i \in 1..Len(wire) : wire[i].kind = kind}

\* The steps of the handler of a socket that has been registered and not yet
\* unregistered.
Live == {"registered", "displaced", "serving", "activating", "leaving"}

(* The newest socket is the only one that can be current here or there, and *)
(* nothing is known of a socket that was never opened.                      *)
SocketsOK ==
  /\ link # NoSocket => link = generation
  /\ current # NoSocket => current = generation /\ handler[current] \in Live
  /\ \A g \in open : g <= generation
  /\ \A g \in Sockets : g > generation =>
       handler[g] = "none" /\ scope[g] = Nothing /\ up[g] = <<>>
  /\ \A g \in Sockets : g # link => down[g] = <<>>

(* A command that is bound belongs to a live socket.                        *)
BoundOK ==
  \A c \in Commands :
    /\ bound[c] # NoSocket => handler[bound[c]] \in Live
    /\ dispatch[c].step \in {"idle", "created"} => bound[c] = NoSocket

(* A command that was cut off belongs to the handler that has to fail it.   *)
CutOK ==
  \A g \in Sockets : \A c \in cut[g] :
    /\ handler[g] = "unregistered" /\ bound[c] = NoSocket
    /\ dispatch[c].step \notin {"idle", "created"}

(* Every other command that waits has ended.                                *)
OwnersOK ==
  \A c \in Commands :
    /\ dispatch[c].step = "created" => c \in Outstanding
    /\ dispatch[c].step \in {"idle", "done"} => c \notin Outstanding
    /\ dispatch[c].step = "send" =>
         /\ dispatch[c].socket \in Sockets /\ dispatch[c].socket <= generation
         /\ dispatch[c].socket \in open => c \in Outstanding /\ bound[c] = dispatch[c].socket
    /\ dispatch[c].step = "wait" /\ c \in Outstanding =>
         bound[c] # NoSocket \/ \E g \in Sockets : c \in cut[g]

\* The device has never seen the command.
Unseen(c) ==
  /\ journal[c] = "none" /\ emergency[c] = "none" /\ pulse.command # c
  /\ row[c].status # "COMPLETED"
  /\ \A g \in Sockets : \A i \in Positions(up[g], "result") : up[g][i].about.command # c

(* A command reaches the device once: the device has not seen what the Hub  *)
(* has not sent, nor what is still on the wire, where a command is once.    *)
UnsentOK ==
  \A c \in Commands : dispatch[c].step \in {"idle", "created", "send"} => Unseen(c)

SentOnce ==
  link # NoSocket =>
    /\ \A i \in Positions(down[link], "execute") :
         /\ Unseen(down[link][i].about)
         /\ dispatch[down[link][i].about].step \notin {"idle", "created", "send"}
    /\ \A i, j \in Positions(down[link], "execute") :
         down[link][i].about = down[link][j].about => i = j

Dark == output = "OFF" /\ ~Pulsing /\ ~flash /\ arm = "DISARMED"

Confirmed(c) ==
  \/ row[c].status = "COMPLETED"
  \/ \E g \in Sockets : \E i \in Positions(up[g], "result") :
       up[g][i].about = [command |-> c, status |-> "COMPLETED"]

(* A blackout that the device has confirmed left it dark until an ARM, also *)
(* while the confirmation is on its way; and the pulse of a blackout goes   *)
(* to OFF in a machine that is disarmed.                                    *)
BlackoutOK ==
  \A c \in Commands : TypeOf[c] = "SAFE_OFF" =>
    /\ Confirmed(c) => emergency[c] # "none" /\ (emergency[c] = "came" => Dark)
    /\ Pulsing /\ pulse.command = c => pulse.target = "OFF" /\ arm = "DISARMED"

(* While an assignment is under way no command is about to be sent.         *)
AssignerOK ==
  assigner = Idle \/
    /\ assigner.step \in {"reserved", "waiting", "answered"}
    /\ assigner.socket \in Sockets /\ assigner.socket <= generation
    /\ assignment.epoch < MaxEpoch
    /\ \A c \in Commands : dispatch[c].step = "send" => dispatch[c].socket \notin open

(* The handshake of an assignment: on an open socket a prepare message or   *)
(* its answer means that the assignment waits for that socket, there is one *)
(* of them, nothing to execute is behind it, and from the answer on the     *)
(* device is dark with nothing to execute on its wire.                      *)
Handshake(g) ==
  LET prepares == Positions(down[g], "prepare")
      answers == Positions(up[g], "safe")
  IN  /\ prepares \cup answers # {} => assigner.step = "waiting" /\ assigner.socket = g
      /\ \A i, j \in prepares : i = j
      /\ \A i, j \in answers : i = j
      /\ prepares = {} \/ answers = {}
      /\ \A i \in prepares : \A j \in Positions(down[g], "execute") : j < i
      /\ g = current /\ (answers # {} \/ (assigner.step = "answered" /\ assigner.socket = g)) =>
           Dark /\ (link # NoSocket => Positions(down[link], "execute") = {})

HandshakeOK == \A g \in open : Handshake(g)

(* The acknowledgement that a socket is being enabled for.                  *)
ActivationsOK ==
  \A g \in Sockets : handler[g] = "activating" =>
    /\ up[g] # <<>> /\ Head(up[g]).kind = "scope"
    /\ g = current /\ g \in open => Head(up[g]).about = assignment

(* What is about to be sent, or on its way, is of the assignment of now.    *)
SendsOK ==
  \A c \in Commands : dispatch[c].step = "send" /\ dispatch[c].socket \in open =>
    row[c].snapshot = assignment.snapshot

ScopeOK == current \in open => scope[current] \in {Nothing, assignment}

WireOK ==
  link # NoSocket =>
    \A i \in Positions(down[link], "execute") :
      row[down[link][i].about].snapshot = assignment.snapshot

ChannelInv ==
  /\ ChannelTyped /\ LaserInv
  /\ SocketsOK /\ BoundOK /\ CutOK /\ OwnersOK
  /\ UnsentOK /\ SentOnce /\ BlackoutOK
  /\ AssignerOK /\ HandshakeOK /\ ActivationsOK /\ SendsOK /\ ScopeOK /\ WireOK

-----------------------------------------------------------------------------
(* Wires.                                                                  *)

LEMMA Appended ==
  ASSUME NEW M, NEW s \in Seq(M), NEW m \in M
  PROVE  /\ Append(s, m) \in Seq(M) /\ Len(s) \in Nat
         /\ \A kind : \A i \in Positions(Append(s, m), kind) :
              \/ i \in Positions(s, kind) /\ i <= Len(s) /\ Append(s, m)[i] = s[i]
              \/ i = Len(s) + 1 /\ m.kind = kind /\ Append(s, m)[i] = m
         /\ s # <<>> => Head(Append(s, m)) = Head(s) /\ Append(s, m) # <<>>
  BY DEF Positions

LEMMA Consumed ==
  ASSUME NEW M, NEW s \in Seq(M), s # <<>>
  PROVE  /\ Tail(s) \in Seq(M) /\ Head(s) \in M /\ Head(s) = s[1] /\ 1 \in 1..Len(s)
         /\ \A kind : \A i \in Positions(Tail(s), kind) :
              i \in Nat /\ i >= 1 /\ i + 1 \in Positions(s, kind) /\ Tail(s)[i] = s[i + 1]
  BY DEF Positions

LEMMA EmptyWire == \A kind : Positions(<<>>, kind) = {}
  BY DEF Positions

\* A message to the device reaches the wire of the socket that the device has.
LEMMA ToDeviceMoves ==
  ASSUME ChannelTyped, NEW g \in Sockets, NEW m \in DownMessages, ToDevice(g, m)
  PROVE  /\ down' \in [Sockets -> Seq(DownMessages)]
         /\ g # link => down' = down
         /\ \A h \in Sockets : h # g => down'[h] = down[h]
         /\ \A h \in Sockets : Len(down[h]) \in Nat
         /\ \A h \in Sockets : \A kind : \A i \in Positions(down'[h], kind) :
              \/ i \in Positions(down[h], kind) /\ i <= Len(down[h]) /\ down'[h][i] = down[h][i]
              \/ /\ h = g /\ g = link /\ i = Len(down[h]) + 1
                 /\ m.kind = kind /\ down'[h][i] = m
<1>1. \A h \in Sockets : down[h] \in Seq(DownMessages)
  BY DEF ChannelTyped
<1>2. \A h \in Sockets : Len(down[h]) \in Nat
  BY <1>1
<1>3. \A h \in Sockets : \A kind : \A i \in Positions(down[h], kind) : i <= Len(down[h])
  BY <1>2 DEF Positions
<1>4. CASE g = link
  <2>1. Append(down[g], m) \in Seq(DownMessages)
    BY <1>1, Appended
  <2>2. down' = [down EXCEPT ![g] = Append(down[g], m)] /\ down \in [Sockets -> Seq(DownMessages)]
    BY <1>4 DEF ToDevice, ChannelTyped
  <2>3. down'[g] = Append(down[g], m) /\ \A h \in Sockets : h # g => down'[h] = down[h]
    BY <2>2
  <2>4. down' \in [Sockets -> Seq(DownMessages)]
    BY <2>1, <2>2
  <2>5. \A kind : \A i \in Positions(down'[g], kind) :
          \/ i \in Positions(down[g], kind) /\ i <= Len(down[g]) /\ down'[g][i] = down[g][i]
          \/ i = Len(down[g]) + 1 /\ m.kind = kind /\ down'[g][i] = m
    <3>1. \A kind : \A i \in Positions(Append(down[g], m), kind) :
            \/ i \in Positions(down[g], kind) /\ i <= Len(down[g]) /\ Append(down[g], m)[i] = down[g][i]
            \/ i = Len(down[g]) + 1 /\ m.kind = kind /\ Append(down[g], m)[i] = m
      <4>1. down[g] \in Seq(DownMessages) /\ m \in DownMessages
        BY <1>1
      <4> QED
        BY <4>1 DEF Positions
    <3> QED
      BY <2>3, <3>1
  <2> QED
    BY <1>2, <1>3, <1>4, <2>3, <2>4, <2>5
<1>5. CASE g # link
  <2>1. down' = down
    BY <1>5 DEF ToDevice
  <2> QED
    BY <1>3, <2>1 DEF ChannelTyped
<1> QED
  BY <1>4, <1>5

\* A message to the Hub reaches the wire of that socket, when the Hub has not
\* closed it.
LEMMA ToHubMoves ==
  ASSUME ChannelTyped, NEW m \in UpMessages, ToHub(m), link # NoSocket
  PROVE  /\ up' \in [Sockets -> Seq(UpMessages)]
         /\ link \notin open => up' = up
         /\ \A h \in Sockets : h # link => up'[h] = up[h]
         /\ \A h \in Sockets : Len(up[h]) \in Nat
         /\ \A h \in Sockets : up[h] # <<>> => up'[h] # <<>> /\ Head(up'[h]) = Head(up[h])
         /\ \A h \in Sockets : \A kind : \A i \in Positions(up'[h], kind) :
              \/ i \in Positions(up[h], kind) /\ i <= Len(up[h]) /\ up'[h][i] = up[h][i]
              \/ /\ h = link /\ link \in open /\ i = Len(up[h]) + 1
                 /\ m.kind = kind /\ up'[h][i] = m
<1>1. \A h \in Sockets : up[h] \in Seq(UpMessages)
  BY DEF ChannelTyped
<1>2. \A h \in Sockets : Len(up[h]) \in Nat
  BY <1>1
<1>3. \A h \in Sockets : \A kind : \A i \in Positions(up[h], kind) : i <= Len(up[h])
  BY <1>2 DEF Positions
<1>4. link \in Sockets
  BY DEF ChannelTyped, TypeOK
<1>5. CASE link \in open
  <2>1. Append(up[link], m) \in Seq(UpMessages)
    BY <1>1, <1>4, Appended
  <2>2. up' = [up EXCEPT ![link] = Append(up[link], m)] /\ up \in [Sockets -> Seq(UpMessages)]
    BY <1>5 DEF ToHub, ChannelTyped
  <2>3. up'[link] = Append(up[link], m) /\ \A h \in Sockets : h # link => up'[h] = up[h]
    BY <1>4, <2>2
  <2>4. up' \in [Sockets -> Seq(UpMessages)]
    BY <1>4, <2>1, <2>2
  <2>5. /\ \A kind : \A i \in Positions(up'[link], kind) :
             \/ i \in Positions(up[link], kind) /\ i <= Len(up[link]) /\ up'[link][i] = up[link][i]
             \/ i = Len(up[link]) + 1 /\ m.kind = kind /\ up'[link][i] = m
        /\ up[link] # <<>> => up'[link] # <<>> /\ Head(up'[link]) = Head(up[link])
    <3>1. /\ \A kind : \A i \in Positions(Append(up[link], m), kind) :
               \/ /\ i \in Positions(up[link], kind) /\ i <= Len(up[link])
                  /\ Append(up[link], m)[i] = up[link][i]
               \/ i = Len(up[link]) + 1 /\ m.kind = kind /\ Append(up[link], m)[i] = m
          /\ up[link] # <<>> => Head(Append(up[link], m)) = Head(up[link]) /\ Append(up[link], m) # <<>>
      <4>1. up[link] \in Seq(UpMessages) /\ m \in UpMessages
        BY <1>1, <1>4
      <4> QED
        BY <4>1 DEF Positions
    <3> QED
      BY <2>3, <3>1
  <2> QED
    BY <1>2, <1>3, <1>5, <2>3, <2>4, <2>5
<1>6. CASE link \notin open
  <2>1. up' = up
    BY <1>6 DEF ToHub
  <2> QED
    BY <1>3, <2>1 DEF ChannelTyped
<1> QED
  BY <1>5, <1>6

\* The Hub takes the first message off a wire.
LEMMA ConsumeMoves ==
  ASSUME ChannelTyped, NEW g \in Sockets, up[g] # <<>>, Consume(g)
  PROVE  /\ up' \in [Sockets -> Seq(UpMessages)]
         /\ Head(up[g]) \in UpMessages /\ Head(up[g]) = up[g][1]
         /\ 1 \in Positions(up[g], Head(up[g]).kind)
         /\ \A h \in Sockets : h # g => up'[h] = up[h]
         /\ \A kind : \A i \in Positions(up'[g], kind) :
              i \in Nat /\ i >= 1 /\ i + 1 \in Positions(up[g], kind) /\ up'[g][i] = up[g][i + 1]
<1>1. up[g] \in Seq(UpMessages) /\ up \in [Sockets -> Seq(UpMessages)]
  BY DEF ChannelTyped
<1>2. up' = [up EXCEPT ![g] = Tail(up[g])] /\ Tail(up[g]) \in Seq(UpMessages)
  BY <1>1, Consumed DEF Consume
<1>3. up'[g] = Tail(up[g]) /\ \A h \in Sockets : h # g => up'[h] = up[h]
  BY <1>1, <1>2
<1>4. up' \in [Sockets -> Seq(UpMessages)]
  BY <1>1, <1>2
<1>5. 1 \in Positions(up[g], Head(up[g]).kind)
  BY <1>1, Consumed DEF Positions
<1>7. /\ Head(up[g]) \in UpMessages /\ Head(up[g]) = up[g][1]
      /\ \A kind : \A i \in Positions(Tail(up[g]), kind) :
           i \in Nat /\ i >= 1 /\ i + 1 \in Positions(up[g], kind) /\ Tail(up[g])[i] = up[g][i + 1]
  BY <1>1, Consumed
<1> QED
  BY <1>3, <1>4, <1>5, <1>7

\* The device takes the first message off its wire.
LEMMA ReadOnMoves ==
  ASSUME ChannelTyped, link # NoSocket, down[link] # <<>>, ReadOn
  PROVE  /\ link \in Sockets
         /\ down' \in [Sockets -> Seq(DownMessages)]
         /\ Head(down[link]) \in DownMessages /\ Head(down[link]) = down[link][1]
         /\ 1 \in Positions(down[link], Head(down[link]).kind)
         /\ \A h \in Sockets : h # link => down'[h] = down[h]
         /\ \A kind : \A i \in Positions(down'[link], kind) :
              /\ i \in Nat /\ i >= 1 /\ i + 1 \in Positions(down[link], kind)
              /\ down'[link][i] = down[link][i + 1]
<1>1. link \in Sockets
  BY DEF ChannelTyped, TypeOK
<1>2. down[link] \in Seq(DownMessages) /\ down \in [Sockets -> Seq(DownMessages)]
  BY <1>1 DEF ChannelTyped
<1>3. down' = [down EXCEPT ![link] = Tail(down[link])] /\ Tail(down[link]) \in Seq(DownMessages)
  BY <1>2, Consumed DEF ReadOn
<1>4. down'[link] = Tail(down[link]) /\ \A h \in Sockets : h # link => down'[h] = down[h]
  BY <1>1, <1>2, <1>3
<1>5. down' \in [Sockets -> Seq(DownMessages)]
  BY <1>2, <1>3
<1>6. 1 \in Positions(down[link], Head(down[link]).kind)
  BY <1>2, Consumed DEF Positions
<1>7. /\ Head(down[link]) \in DownMessages /\ Head(down[link]) = down[link][1]
      /\ \A kind : \A i \in Positions(Tail(down[link]), kind) :
           i \in Nat /\ i >= 1 /\ i + 1 \in Positions(down[link], kind) /\ Tail(down[link])[i] = down[link][i + 1]
  BY <1>2, Consumed
<1> QED
  BY <1>1, <1>4, <1>5, <1>6, <1>7

-----------------------------------------------------------------------------
(* Rows.                                                                   *)

LEMMA CompleteMoves ==
  ASSUME ChannelTyped, NEW cs \in SUBSET Commands, NEW status \in Statuses, status # "ACCEPTED",
         Complete(cs, status)
  PROVE  /\ row' \in [Commands -> [status : Statuses, snapshot : Snapshots \cup {NoSnapshot}]]
         /\ Outstanding' = Outstanding \ cs
         /\ \A c \in Commands : row'[c].snapshot = row[c].snapshot
         /\ \A c \in Commands : row'[c].status = row[c].status \/
              (c \in cs /\ c \in Outstanding /\ row'[c].status = status)
<1> DEFINE Row == [status : Statuses, snapshot : Snapshots \cup {NoSnapshot}]
<1>1. \A r \in Row : /\ [r EXCEPT !.status = status] \in Row
                     /\ [r EXCEPT !.status = status].snapshot = r.snapshot
                     /\ [r EXCEPT !.status = status].status = status
  OBVIOUS
<1>2. row \in [Commands -> Row]
  BY DEF ChannelTyped, TypeOK
<1>3. \A c \in Commands : row'[c] = IF c \in cs \cap Outstanding
                                   THEN [row[c] EXCEPT !.status = status] ELSE row[c]
  BY DEF Complete
<1>4. row' = [c \in Commands |-> row'[c]]
  BY <1>3 DEF Complete
<1> HIDE DEF Row
<1>5. row' \in [Commands -> Row]
  BY <1>1, <1>2, <1>3, <1>4
<1>6. \A c \in Commands : row[c] \in Row
  BY <1>2
<1>7. \A c \in Commands : row'[c].snapshot = row[c].snapshot
  BY <1>1, <1>3, <1>6
<1>8. \A c \in Commands : row'[c].status = IF c \in cs /\ row[c].status = "ACCEPTED"
                                           THEN status ELSE row[c].status
  BY <1>1, <1>3, <1>6 DEF Outstanding
<1>9. Outstanding' = Outstanding \ cs
  BY <1>8 DEF Outstanding
<1> QED
  BY <1>5, <1>7, <1>8 DEF Row, Outstanding

-----------------------------------------------------------------------------
(* What the laser does for one command leaves the others as they are, and a *)
(* dark laser dark unless an ARM is completed.                              *)

Heeds(c) ==
  /\ \A d \in Commands : d # c =>
       /\ journal'[d] = journal[d]
       /\ emergency'[d] = "none" <=> emergency[d] = "none"
       /\ emergency'[d] = "came" => emergency[d] = "came"
       /\ pulse.command # d => pulse'.command # d
       /\ Pulsing' /\ pulse'.command = d =>
            pulse' = pulse /\ (arm = "DISARMED" => arm' = "DISARMED")
  /\ Dark => Dark' \/ \A d \in Commands : d # c => emergency'[d] # "came"

\* What is common to every answer.
LEMMA AnswerHeeds ==
  ASSUME LaserInv, NEW c \in Commands \cup {NoCommand}, NEW result \in Results, Answer(c, result)
  PROVE  /\ \A d \in Commands : d # c =>
              /\ journal'[d] = journal[d]
              /\ emergency'[d] = "none" <=> emergency[d] = "none"
              /\ emergency'[d] = "came" => emergency[d] = "came"
         /\ c \in Commands /\ TypeOf[c] = "ARM" /\ result = "COMPLETED" =>
              \A d \in Commands : d # c => emergency'[d] # "came"
         /\ c \in Commands => journal'[c] = result
         /\ c \in Commands /\ TypeOf[c] = "SAFE_OFF" => emergency'[c] = "came"
  BY StageLaserAssumption DEF LaserInv, LaserTypeOK, Answer

LEMMA RestingHeeds ==
  ASSUME LaserInv, NEW c \in Commands \cup {NoCommand}, NEW result \in Results, Answer(c, result),
         UNCHANGED <<pulse, flash, output>>, arm' = arm \/ arm' = "DISARMED"
  PROVE  Heeds(c)
  BY AnswerHeeds DEF Heeds, Dark, Pulsing

LEMMA ArmHeeds ==
  ASSUME LaserInv, NEW c \in Commands, Arm(c)
  PROVE  Heeds(c)
<1>1. CASE ~Pulsing /\ logical = "OFF"
  <2>1. Answer(c, "COMPLETED") /\ TypeOf[c] = "ARM" /\ UNCHANGED pulse /\ ~Pulsing'
    BY <1>1 DEF Arm, Pulsing
  <2> QED
    BY <2>1, AnswerHeeds DEF Heeds, Results
<1>2. CASE ~(~Pulsing /\ logical = "OFF")
  <2>1. Answer(c, "REJECTED") /\ UNCHANGED <<pulse, flash, output, arm>>
    BY <1>2 DEF Arm
  <2> QED
    BY <2>1, RestingHeeds DEF Results
<1> QED
  BY <1>1, <1>2

\* A pulse for c begins in a machine that is not pulsing, with the light to turn
\* off or a machine that is armed.
LEMMA PulseHeeds ==
  ASSUME LaserInv, NEW c \in Commands \cup {NoCommand}, NEW target, NEW ends,
         BeginPulse(c, target, ends), Answer(c, "ACCEPTED"),
         output = "ON" \/ arm = "ARMED"
  PROVE  Heeds(c)
  BY AnswerHeeds DEF Heeds, Dark, BeginPulse, Results

LEMMA TurnOffHeeds ==
  ASSUME LaserInv, NEW c \in Commands \cup {NoCommand}, TurnOff(c),
         arm' = arm \/ arm' = "DISARMED", output' = output
  PROVE  Heeds(c)
<1>1. CASE \/ Pulsing /\ Answer(c, "REJECTED") /\ UNCHANGED <<logical, pulse, flash, stored>>
           \/ logical = "OFF" /\ Answer(c, "COMPLETED") /\ UNCHANGED <<logical, pulse, flash, stored>>
  BY <1>1, RestingHeeds DEF Results
<1>2. CASE logical = "FLASH_OFF" /\ SettleFlash /\ Answer(c, "COMPLETED")
  <2>1. UNCHANGED pulse /\ ~flash'
    BY <1>2 DEF SettleFlash
  <2> QED
    BY <1>2, <2>1, AnswerHeeds DEF Heeds, Dark, Pulsing, Results
<1>3. CASE logical \in {"FLASH_ON", "ON"} /\ AcceptPulse(c, "OFF", flash)
  <2>1. output = "ON"
    BY <1>3 DEF LaserInv, TrackedIsTrue
  <2> QED
    BY <1>3, <2>1, PulseHeeds DEF AcceptPulse
<1> QED
  BY <1>1, <1>2, <1>3 DEF TurnOff

LEMMA ExecuteHeeds ==
  ASSUME LaserInv, NEW c \in Commands, Execute(c)
  PROVE  Heeds(c)
<1>1. CASE UNCHANGED laserVars
  BY <1>1 DEF laserVars, Heeds, Dark, Pulsing
<1>2. CASE Disarm(c)
  <2>1. CASE arm' = "DISARMED" /\ TurnOff(c)
    BY <1>2, <2>1, TurnOffHeeds DEF Disarm
  <2>2. CASE EnterUnknown /\ Answer(c, "FAILED")
    <3>1. pulse' = NoPulse /\ ~flash' /\ arm' = "DISARMED" /\ output' = output
      BY <1>2, <2>2 DEF EnterUnknown, Disarm
    <3>2. ~Pulsing' /\ \A d \in Commands : pulse'.command # d
      BY <3>1, StageLaserAssumption DEF NoPulse, Pulsing
    <3> QED
      BY <2>2, <3>1, <3>2, AnswerHeeds DEF Heeds, Dark, Results
  <2> QED
    BY <1>2, <2>1, <2>2 DEF Disarm
<1>3. CASE SetOn(c)
  <2>1. CASE arm = "ARMED" /\ AcceptPulse(c, "ON", FALSE)
    BY <2>1, PulseHeeds DEF AcceptPulse
  <2>2. CASE Answer(c, IF arm = "ARMED" /\ logical = "ON" THEN "COMPLETED" ELSE "REJECTED")
             /\ UNCHANGED <<logical, pulse, stored>>
    BY <1>3, <2>2, RestingHeeds DEF SetOn, Results
  <2> QED
    BY <1>3, <2>1, <2>2 DEF SetOn
<1>4. CASE SetOff(c)
  <2>1. CASE TurnOff(c)
    BY <1>4, <2>1, TurnOffHeeds DEF SetOff
  <2>2. CASE Answer(c, "FAILED") /\ UNCHANGED <<logical, pulse, flash, stored>>
    BY <1>4, <2>2, RestingHeeds DEF SetOff, Results
  <2> QED
    BY <1>4, <2>1, <2>2 DEF SetOff
<1>5. CASE FlashStart(c)
  <2>1. CASE arm = "ARMED" /\ AcceptPulse(c, "FLASH_ON", FALSE)
    BY <2>1, PulseHeeds DEF AcceptPulse
  <2>2. CASE Answer(c, "REJECTED") /\ UNCHANGED <<logical, pulse, flash, stored>>
    BY <1>5, <2>2, RestingHeeds DEF FlashStart, Results
  <2> QED
    BY <1>5, <2>1, <2>2 DEF FlashStart
<1>6. CASE Read(c) \/ Resync(c)
  BY <1>6, RestingHeeds DEF Read, Resync, Results
<1> QED
  BY <1>1, <1>2, <1>3, <1>4, <1>5, <1>6, ArmHeeds DEF Execute

\* A SAFE_OFF that comes for the first time is COMPLETED only in the dark, and
\* its pulse goes to OFF in a machine that is disarmed.
LEMMA SafeOffComes ==
  ASSUME LaserInv, NEW c \in Commands, TypeOf[c] = "SAFE_OFF",
         journal[c] = "none", pulse.command # c, Execute(c)
  PROVE  /\ emergency'[c] = "came"
         /\ journal'[c] = "COMPLETED" => Dark'
         /\ Pulsing' /\ pulse'.command = c => pulse'.target = "OFF" /\ arm' = "DISARMED"
<1>1. Disarm(c)
  BY DEF Execute, Arm, SetOn, SetOff, FlashStart, Read, Resync
<1>2. output' = output
  BY <1>1 DEF Disarm
<1>3. CASE Pulsing /\ Answer(c, "REJECTED") /\ UNCHANGED <<logical, pulse, flash, stored>>
  BY <1>3, AnswerHeeds DEF Results
<1>4. CASE logical = "OFF" /\ arm' = "DISARMED" /\ Answer(c, "COMPLETED")
           /\ UNCHANGED <<logical, pulse, flash, stored>>
  <2>1. ~Pulsing /\ ~flash /\ output = "OFF"
    BY <1>4 DEF LaserInv, PulseIsMarked, FlashIsMarked, TrackedIsTrue
  <2> QED
    BY <1>2, <1>4, <2>1, AnswerHeeds DEF Results, Dark, Pulsing
<1>5. CASE logical = "FLASH_OFF" /\ arm' = "DISARMED" /\ SettleFlash /\ Answer(c, "COMPLETED")
  <2>1. ~Pulsing /\ output = "OFF" /\ ~flash' /\ UNCHANGED pulse
    BY <1>5 DEF LaserInv, PulseIsMarked, TrackedIsTrue, SettleFlash
  <2> QED
    BY <1>2, <1>5, <2>1, AnswerHeeds DEF Results, Dark, Pulsing
<1>6. CASE arm' = "DISARMED" /\ AcceptPulse(c, "OFF", flash)
  <2>1. pulse'.target = "OFF"
    BY <1>6 DEF AcceptPulse, BeginPulse
  <2> QED
    BY <1>6, <2>1, AnswerHeeds DEF Results, AcceptPulse
<1>7. CASE EnterUnknown /\ Answer(c, "FAILED")
  <2>1. ~Pulsing'
    BY <1>7 DEF EnterUnknown, NoPulse, Pulsing
  <2> QED
    BY <1>7, <2>1, AnswerHeeds DEF Results
<1> QED
  BY <1>1, <1>3, <1>4, <1>5, <1>6, <1>7 DEF Disarm, TurnOff

LEMMA PulseEnds ==
  ASSUME LaserInv, CompletePulse
  PROVE  /\ Heeds(pulse.command) /\ pulse'.command = NoCommand /\ ~Pulsing' /\ ~Dark
         /\ pulse.command \in Commands => journal'[pulse.command] = "COMPLETED"
         /\ pulse.command \in Commands /\ TypeOf[pulse.command] = "SAFE_OFF" =>
              /\ emergency'[pulse.command] = "came"
              /\ pulse.target = "OFF" /\ arm = "DISARMED" => Dark'
<1>1. /\ Answer(pulse.command, "COMPLETED") /\ pulse.command \in Commands \cup {NoCommand}
      /\ pulse' = NoPulse /\ arm' = arm
  BY DEF CompletePulse, LaserInv, LaserTypeOK
<1>2. ~Pulsing' /\ pulse'.command = NoCommand /\ Pulsing
  BY DEF NoPulse, Pulsing, CompletePulse
<1>3. pulse.target = "OFF" => output' = "OFF" /\ ~flash'
  BY DEF LaserInv, PulseIsMarked, FlashIsMarked, CompletePulse
<1> QED
  BY <1>1, <1>2, <1>3, AnswerHeeds, StageLaserAssumption DEF Heeds, Dark, Results

LEMMA TimersHeed ==
  ASSUME LaserInv, AdvanceFlashPhase \/ ExpireFlash
  PROVE  Heeds(NoCommand) /\ ~Dark /\ journal' = journal /\ emergency' = emergency
<1>1. flash /\ ~Pulsing /\ UNCHANGED <<journal, emergency, arm>>
  BY DEF AdvanceFlashPhase, ExpireFlash
<1>2. pulse' = pulse \/ pulse'.command = NoCommand
  BY DEF AdvanceFlashPhase, ExpireFlash, BeginPulse, SettleFlash
<1> QED
  BY <1>1, <1>2 DEF Heeds, Dark

LEMMA MakeSafeHeeds ==
  ASSUME LaserInv, MakeSafe
  PROVE  Heeds(NoCommand) /\ (Dark => Dark') /\ journal' = journal /\ emergency' = emergency /\ LaserInv'
<1>1. TurnOff(NoCommand) /\ arm' = "DISARMED" /\ output' = output /\ ~Pulsing
  BY DEF MakeSafe
<1>2. Heeds(NoCommand)
  BY <1>1, TurnOffHeeds
<1>3. \E result \in Results : Answer(NoCommand, result)
  BY <1>1 DEF TurnOff, AcceptPulse, Results
<1>4. journal' = journal /\ emergency' = emergency
  BY <1>3, StageLaserAssumption DEF Answer, LaserInv, LaserTypeOK
<1>5. Dark => Dark'
  BY <1>1 DEF TurnOff, Dark, Pulsing, SettleFlash, LaserInv, TrackedIsTrue
<1>6. LaserInv'
  BY <1>1, TurnOffKeepsInv
<1> QED
  BY <1>2, <1>4, <1>5, <1>6

LEMMA RestoreHeeds ==
  ASSUME LaserInv, NEW reset \in ResetClasses, RestoreMachine(reset)
  PROVE  /\ journal' = [c \in Commands |-> "none"] /\ emergency' = emergency
         /\ pulse'.command = NoCommand /\ ~Pulsing' /\ (Dark => Dark')
<1>1. pulse' = NoPulse /\ ~flash' /\ arm' = "DISARMED" /\ emergency' = emergency
      /\ journal' = [c \in Commands |-> "none"]
  BY DEF RestoreMachine
<1>2. Dark => output' = "OFF"
  BY DEF Dark, RestoreMachine
<1> QED
  BY <1>1, <1>2 DEF NoPulse, Pulsing, Dark

LEMMA SafeIsDark == LaserInv /\ Safe => Dark
  BY DEF LaserInv, Safe, Dark, TrackedIsTrue, FlashIsMarked

-----------------------------------------------------------------------------
(* The dispatch of a command and the handler of a socket.                  *)

LEMMA StepMoves ==
  ASSUME ChannelTyped, NEW c \in Commands, NEW step \in Steps, NEW g \in Sockets \cup {NoSocket},
         Step(c, step, g)
  PROVE  /\ dispatch' \in [Commands -> [step : Steps, socket : Sockets \cup {NoSocket}]]
         /\ dispatch'[c].step = step /\ dispatch'[c].socket = g
         /\ \A d \in Commands : d # c => dispatch'[d] = dispatch[d]
  BY DEF ChannelTyped, TypeOK, Step

LEMMA BecomeMoves ==
  ASSUME ChannelTyped, NEW g \in Sockets, NEW step \in HandlerSteps, Become(g, step)
  PROVE  /\ handler' \in [Sockets -> HandlerSteps] /\ handler'[g] = step
         /\ \A h \in Sockets : h # g => handler'[h] = handler[h]
  BY DEF ChannelTyped, TypeOK, Become

LEMMA TypesStay ==
  ASSUME ChannelTyped, UNCHANGED <<hubVars, down, up, link>>, LaserTypeOK'
  PROVE  ChannelTyped'
  BY DEF ChannelTyped, TypeOK, hubVars

\* The first message of a socket that its handler looks at.
LEMMA ArrivedMoves ==
  ASSUME ChannelTyped, NEW g \in Sockets, NEW kind \in {"scope", "safe", "result"}, Arrived(g, kind)
  PROVE  /\ handler[g] = "serving" /\ g \in open /\ up[g] # <<>>
         /\ Head(up[g]).kind = kind /\ Head(up[g]) = up[g][1] /\ 1 \in Positions(up[g], kind)
         /\ kind \in {"scope", "safe"} => Head(up[g]).about \in Scopes
         /\ kind = "result" => Head(up[g]).about \in [command : Commands, status : Results]
<1>1. up[g] \in Seq(UpMessages) /\ up[g] # <<>> /\ Head(up[g]).kind = kind
  BY DEF Arrived, ChannelTyped
<1>2. Head(up[g]) \in UpMessages /\ Head(up[g]) = up[g][1] /\ 1 \in Positions(up[g], kind)
  BY <1>1, Consumed DEF Positions
<1>3. kind \in {"scope", "safe"} => Head(up[g]).about \in Scopes
  BY <1>1, <1>2 DEF UpMessages
<1>4. kind = "result" => Head(up[g]).about \in [command : Commands, status : Results]
  BY <1>1, <1>2 DEF UpMessages
<1> QED
  BY <1>2, <1>3, <1>4 DEF Arrived

\* The first message that the device looks at.
LEMMA ReadingMoves ==
  ASSUME ChannelTyped, NEW kind \in {"scope", "prepare", "execute"}, Reading(kind)
  PROVE  /\ link \in Sockets /\ link # NoSocket /\ down[link] # <<>>
         /\ Head(down[link]).kind = kind /\ Head(down[link]) = down[link][1]
         /\ 1 \in Positions(down[link], kind)
         /\ kind \in {"scope", "prepare"} => Head(down[link]).about \in Scopes
         /\ kind = "execute" => Head(down[link]).about \in Commands
<1>1. link \in Sockets /\ down[link] # <<>> /\ Head(down[link]).kind = kind /\ link # NoSocket
  BY DEF Reading, ChannelTyped, TypeOK
<1>2. down[link] \in Seq(DownMessages)
  BY <1>1 DEF ChannelTyped
<1>3. Head(down[link]) \in DownMessages /\ Head(down[link]) = down[link][1] /\ 1 \in Positions(down[link], kind)
  BY <1>1, <1>2 DEF Positions
<1>4. kind \in {"scope", "prepare"} => Head(down[link]).about \in Scopes
  BY <1>1, <1>3 DEF DownMessages
<1>5. kind = "execute" => Head(down[link]).about \in Commands
  BY <1>1, <1>3 DEF DownMessages
<1> QED
  BY <1>1, <1>3, <1>4, <1>5

\* What is on the wires is about commands.
LEMMA WireTypes ==
  ASSUME ChannelTyped
  PROVE  /\ \A g \in Sockets : cut[g] \subseteq Commands
         /\ \A c \in Commands : bound[c] # NoSocket => bound[c] \in Sockets
         /\ link # NoSocket => /\ link \in Sockets
                               /\ \A i \in Positions(down[link], "execute") :
                                    down[link][i].about \in Commands
         /\ \A g \in Sockets : \A i \in Positions(up[g], "result") :
              up[g][i].about \in [command : Commands, status : Results]
<1>1. \A m \in DownMessages : m.kind = "execute" => m.about \in Commands
  BY DEF DownMessages
<1>2. \A m \in UpMessages : m.kind = "result" => m.about \in [command : Commands, status : Results]
  BY DEF UpMessages
<1>3. \A g \in Sockets : \A i \in Positions(down[g], "execute") : down[g][i] \in DownMessages
  BY DEF ChannelTyped, Positions
<1>4. \A g \in Sockets : \A i \in Positions(up[g], "result") : up[g][i] \in UpMessages
  BY DEF ChannelTyped, Positions
<1>5. \A g \in Sockets : cut[g] \subseteq Commands
  BY DEF ChannelTyped, TypeOK
<1>6. /\ link # NoSocket => link \in Sockets
      /\ \A c \in Commands : bound[c] # NoSocket => bound[c] \in Sockets
  BY DEF ChannelTyped, TypeOK
<1> QED
  BY <1>1, <1>2, <1>3, <1>4, <1>5, <1>6 DEF Positions

\* A socket that is closed takes its handshake with it.
LEMMA HandshakeShrinks ==
  ASSUME HandshakeOK, open' \subseteq open,
         UNCHANGED <<assigner, down, up, current, link, arm, pulse, flash, output>>
  PROVE  HandshakeOK'
<1>1. ASSUME NEW g \in open, Handshake(g)
      PROVE  Handshake(g)'
  BY <1>1 DEF Handshake, Dark, Pulsing
<1> QED
  BY <1>1 DEF HandshakeOK

\* What is taken off a wire cannot break the handshake, when a laser that is
\* dark with nothing to execute stays dark.
LEMMA HandshakeKept ==
  ASSUME HandshakeOK, ChannelTyped, open' \subseteq open, UNCHANGED <<assigner, current, link>>,
         NEW D \in [Sockets -> Nat], NEW U \in [Sockets -> Nat],
         \A g \in Sockets : \A kind \in {"prepare", "execute"} : \A i \in Positions(down'[g], kind) :
           i \in Nat /\ i + D[g] \in Positions(down[g], kind),
         \A g \in Sockets : \A i \in Positions(up'[g], "safe") :
           i \in Nat /\ i + U[g] \in Positions(up[g], "safe"),
         Dark /\ (link # NoSocket => Positions(down[link], "execute") = {}) => Dark'
  PROVE  HandshakeOK'
<1>1. ASSUME NEW g \in open, Handshake(g), g \in Sockets
      PROVE  Handshake(g)'
  <2>2. D[g] \in Nat /\ U[g] \in Nat
    BY <1>1
  <2>3. ASSUME NEW i \in Positions(down'[g], "prepare"), NEW j \in Positions(down'[g], "prepare")
        PROVE  i = j
    <3>1. /\ i \in Nat /\ j \in Nat
          /\ i + D[g] \in Positions(down[g], "prepare") /\ j + D[g] \in Positions(down[g], "prepare")
      BY <1>1
    <3>2. i + D[g] = j + D[g]
      BY <1>1, <3>1 DEF Handshake
    <3> QED
      BY <2>2, <3>1, <3>2
  <2>4. ASSUME NEW i \in Positions(up'[g], "safe"), NEW j \in Positions(up'[g], "safe")
        PROVE  i = j
    <3>1. /\ i \in Nat /\ j \in Nat
          /\ i + U[g] \in Positions(up[g], "safe") /\ j + U[g] \in Positions(up[g], "safe")
      BY <1>1
    <3>2. i + U[g] = j + U[g]
      BY <1>1, <3>1 DEF Handshake
    <3> QED
      BY <2>2, <3>1, <3>2
  <2>5. \A i \in Positions(down'[g], "prepare") : \A j \in Positions(down'[g], "execute") : j < i
    <3>1. SUFFICES ASSUME NEW i \in Positions(down'[g], "prepare"), NEW j \in Positions(down'[g], "execute")
                   PROVE  j < i
      OBVIOUS
    <3>2. i \in Nat /\ j \in Nat /\ j + D[g] < i + D[g]
      BY <1>1 DEF Handshake
    <3> QED
      BY <2>2, <3>2
  <2>6. /\ Positions(down'[g], "prepare") # {} => Positions(down[g], "prepare") # {}
        /\ Positions(up'[g], "safe") # {} => Positions(up[g], "safe") # {}
        /\ link \in Sockets /\ Positions(down[link], "execute") = {} => Positions(down'[link], "execute") = {}
    BY <1>1
  <2>7. link # NoSocket => link \in Sockets
    BY DEF ChannelTyped, TypeOK
  <2> QED
    BY <1>1, <2>3, <2>4, <2>5, <2>6, <2>7 DEF Handshake
<1> QED
  BY <1>1 DEF HandshakeOK, ChannelTyped, TypeOK

\* What the Hub has read, it may have recorded.
LEMMA LessToRead ==
  ASSUME ChannelTyped, UNCHANGED <<journal, emergency, pulse>>, NEW g \in Sockets, NEW n \in Nat,
         \A h \in Sockets : h # g => up'[h] = up[h],
         \A i \in Positions(up'[g], "result") :
           i + n \in Positions(up[g], "result") /\ up'[g][i] = up[g][i + n],
         \A c \in Commands : row'[c].status = "COMPLETED" =>
           \/ row[c].status = "COMPLETED"
           \/ \E i \in Positions(up[g], "result") :
                up[g][i].about = [command |-> c, status |-> "COMPLETED"]
  PROVE  \A c \in Commands : (Unseen(c) => Unseen(c)') /\ (Confirmed(c)' => Confirmed(c))
<1> SUFFICES ASSUME NEW c \in Commands
             PROVE  (Unseen(c) => Unseen(c)') /\ (Confirmed(c)' => Confirmed(c))
  OBVIOUS
<1>1. \A h \in Sockets : \A i \in Positions(up'[h], "result") :
        \E j \in Positions(up[h], "result") : up'[h][i] = up[h][j]
  OBVIOUS
<1>2. Unseen(c) => row'[c].status # "COMPLETED"
  <2>1. \A about : about = [command |-> c, status |-> "COMPLETED"] => about.command = c
    OBVIOUS
  <2> QED
    BY <2>1 DEF Unseen
<1>3. Unseen(c) => Unseen(c)'
  BY <1>1, <1>2 DEF Unseen
<1>4. Confirmed(c)' => Confirmed(c)
  BY <1>1 DEF Confirmed
<1> QED
  BY <1>3, <1>4

\* A handler that goes on leaves the order of the sockets alone.
LEMMA SocketsKept ==
  ASSUME SocketsOK, ChannelTyped, NEW g \in Sockets, handler[g] # "none", handler'[g] \in Live,
         \A h \in Sockets : h # g => handler'[h] = handler[h],
         \A h \in Sockets : h # g => up'[h] = up[h] /\ scope'[h] = scope[h],
         open' \subseteq open, UNCHANGED <<generation, current, link>>,
         \A h \in Sockets : h # link => down'[h] = down[h]
  PROVE  SocketsOK'
<1>1. current # NoSocket => current \in Sockets
  BY DEF ChannelTyped, TypeOK
<1>2. ~(g > generation)
  BY DEF SocketsOK
<1>3. current # NoSocket => current = generation /\ handler'[current] \in Live
  BY <1>1 DEF SocketsOK
<1>4. \A h \in Sockets : h > generation => handler'[h] = "none" /\ scope'[h] = Nothing /\ up'[h] = <<>>
  BY <1>2 DEF SocketsOK
<1>5. /\ link' # NoSocket => link' = generation'
      /\ \A h \in open' : h <= generation'
      /\ \A h \in Sockets : h # link' => down'[h] = <<>>
  BY DEF SocketsOK
<1> QED
  BY <1>3 DEF SocketsOK

\* What is left on the wire to the device is still to be seen.
LEMMA SentKept ==
  ASSUME SentOnce, ChannelTyped, UNCHANGED <<dispatch, link>>,
         NEW n \in Nat, NEW S \in SUBSET Commands, \A c \in S : Unseen(c) => Unseen(c)',
         link # NoSocket =>
           \A i \in Positions(down'[link], "execute") :
             /\ i \in Nat /\ i + n \in Positions(down[link], "execute")
             /\ down'[link][i] = down[link][i + n] /\ down'[link][i].about \in S
  PROVE  SentOnce'
<1>1. CASE link = NoSocket
  BY <1>1 DEF SentOnce
<1>2. CASE link # NoSocket
  <2>1. (\A i \in Positions(down[link], "execute") :
           /\ Unseen(down[link][i].about)
           /\ dispatch[down[link][i].about].step \notin {"idle", "created", "send"})'
    <3>1. SUFFICES ASSUME NEW i \in Positions(down'[link], "execute"),
                          NEW c \in S, c = down'[link][i].about
                   PROVE  Unseen(c)' /\ dispatch'[c].step \notin {"idle", "created", "send"}
      BY <1>2 DEF Unseen
    <3>2. Unseen(c) /\ dispatch[c].step \notin {"idle", "created", "send"}
      BY <1>2, <3>1 DEF SentOnce
    <3> QED
      BY <3>2
  <2>2. \A i, j \in Positions(down'[link], "execute") : down'[link][i].about = down'[link][j].about => i = j
    BY <1>2 DEF SentOnce
  <2> QED
    BY DEF SentOnce
<1> QED
  BY <1>1, <1>2

-----------------------------------------------------------------------------
(* What an invariant does not depend on leaves it alone.                   *)

LEMMA LaserInvStays ==
  ASSUME LaserInv, UNCHANGED laserVars
  PROVE  LaserInv'
  BY DEF LaserInv, LaserTypeOK, PulseIsMarked, FlashIsMarked, RecordIsState,
     TrackedIsTrue, Pulsing, laserVars

LEMMA SocketsOKStays ==
  ASSUME SocketsOK, UNCHANGED <<generation, current, scope, open, handler, down, up, link>>
  PROVE  SocketsOK'
  BY DEF SocketsOK, Live

LEMMA BoundOKStays ==
  ASSUME BoundOK, UNCHANGED <<bound, handler, dispatch>>
  PROVE  BoundOK'
  BY DEF BoundOK, Live

LEMMA CutOKStays ==
  ASSUME CutOK, UNCHANGED <<bound, handler, cut, dispatch>>
  PROVE  CutOK'
  BY DEF CutOK

LEMMA OwnersOKStays ==
  ASSUME OwnersOK, UNCHANGED <<generation, row, bound, open, cut, dispatch>>
  PROVE  OwnersOK'
  BY DEF OwnersOK, Outstanding

LEMMA UnsentOKStays ==
  ASSUME UnsentOK, UNCHANGED <<row, dispatch, pulse, journal, emergency, up>>
  PROVE  UnsentOK'
  BY DEF UnsentOK, Unseen

LEMMA SentOnceStays ==
  ASSUME SentOnce, UNCHANGED <<row, dispatch, pulse, journal, emergency, down, up, link>>
  PROVE  SentOnce'
  BY DEF SentOnce, Unseen

LEMMA BlackoutOKStays ==
  ASSUME BlackoutOK, UNCHANGED <<row, arm, pulse, flash, output, emergency, up>>
  PROVE  BlackoutOK'
  BY DEF BlackoutOK, Confirmed, Dark, Pulsing

LEMMA AssignerOKStays ==
  ASSUME AssignerOK, UNCHANGED <<generation, assignment, assigner, open, dispatch>>
  PROVE  AssignerOK'
  BY DEF AssignerOK

LEMMA HandshakeOKStays ==
  ASSUME HandshakeOK, UNCHANGED <<current, assigner, open, arm, pulse, flash, output, down,
                     up, link>>
  PROVE  HandshakeOK'
  BY DEF HandshakeOK, Handshake, Dark, Pulsing

LEMMA ActivationsOKStays ==
  ASSUME ActivationsOK, UNCHANGED <<assignment, current, open, handler, up>>
  PROVE  ActivationsOK'
  BY DEF ActivationsOK

LEMMA SendsOKStays ==
  ASSUME SendsOK, UNCHANGED <<assignment, row, open, dispatch>>
  PROVE  SendsOK'
  BY DEF SendsOK

LEMMA ScopeOKStays ==
  ASSUME ScopeOK, UNCHANGED <<assignment, current, scope, open>>
  PROVE  ScopeOK'
  BY DEF ScopeOK

LEMMA WireOKStays ==
  ASSUME WireOK, UNCHANGED <<assignment, row, down, link>>
  PROVE  WireOK'
  BY DEF WireOK

-----------------------------------------------------------------------------
(* Commands.                                                               *)

LEMMA CreateCommandKeepsInv ==
  ASSUME ChannelInv, NEW c \in Commands, CreateCommand(c)
  PROVE  ChannelInv'
<1>1. /\ ChannelTyped /\ LaserInv /\ SocketsOK /\ BoundOK /\ CutOK /\ OwnersOK
      /\ UnsentOK /\ SentOnce /\ BlackoutOK /\ AssignerOK /\ HandshakeOK
      /\ ActivationsOK /\ SendsOK /\ ScopeOK /\ WireOK
      /\ UNCHANGED <<generation, assignment, current, scope, bound, assigner,
                    open, handler, replaced, cut, arm, logical, pulse, flash,
                    stored, journal, output, emergency, down, up, link>>
      /\ UNCHANGED laserVars
  BY DEF ChannelInv, CreateCommand, laserVars
<1>2. /\ dispatch' \in [Commands -> [step : Steps, socket : Sockets \cup {NoSocket}]]
      /\ dispatch'[c].step = "created" /\ dispatch'[c].socket = NoSocket
      /\ \A d \in Commands : d # c => dispatch'[d] = dispatch[d]
  BY <1>1, StepMoves DEF Steps, CreateCommand
<1>3. /\ row' \in [Commands -> [status : Statuses, snapshot : Snapshots \cup {NoSnapshot}]]
      /\ \A d \in Commands : d # c => row'[d] = row[d]
      /\ row'[c].status = "ACCEPTED" /\ dispatch[c].step = "idle"
  BY <1>1 DEF CreateCommand, ChannelTyped, TypeOK, Scopes, Statuses
<1>4. Outstanding' = Outstanding \cup {c}
  BY <1>1, <1>3 DEF Outstanding
<1>5. (Dark' <=> Dark) /\ (Pulsing' <=> Pulsing)
  BY <1>1 DEF Dark, Pulsing
<1>6. LaserInv'
  BY <1>1, LaserInvStays
<1>7. ChannelTyped'
  BY <1>1, <1>2, <1>3, <1>6 DEF LaserInv, ChannelTyped, TypeOK
<1>8. BoundOK'
  BY <1>1, <1>2, <1>3 DEF BoundOK
<1>9. CutOK'
  BY <1>1, <1>2, <1>3, WireTypes DEF CutOK
<1>10. OwnersOK'
  BY <1>1, <1>2, <1>4 DEF OwnersOK
<1>11. UnsentOK'
  BY <1>1, <1>2, <1>3 DEF UnsentOK, Unseen
<1>12. SentOnce'
  BY <1>1, <1>2, <1>3, WireTypes DEF SentOnce, Unseen
<1>13. BlackoutOK'
  BY <1>1, <1>3, <1>5 DEF BlackoutOK, Confirmed
<1>14. AssignerOK'
  BY <1>1, <1>2 DEF AssignerOK
<1>15. SendsOK'
  BY <1>1, <1>2, <1>3 DEF SendsOK
<1>16. WireOK'
  BY <1>1, <1>3, WireTypes DEF WireOK, SentOnce
<1> QED
  BY <1>1, <1>6, <1>7, <1>8, <1>9, <1>10, <1>11, <1>12, <1>13, <1>14, <1>15, <1>16,
     SocketsOKStays, HandshakeOKStays, ActivationsOKStays, ScopeOKStays DEF ChannelInv

LEMMA BindTrustedKeepsInv ==
  ASSUME ChannelInv, NEW c \in Commands, Bind(c), Trusted(current, c)
  PROVE  ChannelInv'
<1>1. /\ ChannelTyped /\ LaserInv /\ SocketsOK /\ BoundOK /\ CutOK /\ OwnersOK
      /\ UnsentOK /\ SentOnce /\ BlackoutOK /\ AssignerOK /\ HandshakeOK
      /\ ActivationsOK /\ SendsOK /\ ScopeOK /\ WireOK
      /\ UNCHANGED <<generation, assignment, row, current, scope, assigner, open,
                    handler, replaced, cut, arm, logical, pulse, flash, stored,
                    journal, output, emergency, down, up, link>>
      /\ UNCHANGED laserVars
  BY DEF ChannelInv, Bind, laserVars
<1>2. current \in Sockets /\ current # NoSocket
  BY <1>1 DEF Trusted, ChannelTyped, TypeOK
<1>3. /\ dispatch' \in [Commands -> [step : Steps, socket : Sockets \cup {NoSocket}]]
      /\ dispatch'[c].step = "send" /\ dispatch'[c].socket = current
      /\ \A d \in Commands : d # c => dispatch'[d] = dispatch[d]
  BY <1>1, <1>2, StepMoves DEF Steps, Bind
<1>4. /\ bound' \in [Commands -> Sockets \cup {NoSocket}] /\ bound'[c] = current
      /\ \A d \in Commands : d # c => bound'[d] = bound[d]
  BY <1>1 DEF Bind, ChannelTyped, TypeOK
<1>5. /\ dispatch[c].step = "created" /\ c \in Outstanding
      /\ assigner = Idle /\ (current \in open => row[c].snapshot = assignment.snapshot)
      /\ handler[current] \in Live /\ current <= generation
  BY <1>1 DEF Bind, Trusted, OwnersOK, ScopeOK, SocketsOK, ChannelTyped, TypeOK
<1>6. /\ Outstanding' = Outstanding
      /\ Dark' <=> Dark
      /\ Pulsing' <=> Pulsing
  BY <1>1 DEF Outstanding, Dark, Pulsing
<1>7. LaserInv'
  BY <1>1, LaserInvStays
<1>8. ChannelTyped'
  BY <1>1, <1>3, <1>4, <1>7 DEF LaserInv, ChannelTyped, TypeOK
<1>9. BoundOK'
  BY <1>1, <1>3, <1>4, <1>5 DEF BoundOK
<1>10. CutOK'
  BY <1>1, <1>3, <1>4, <1>5, WireTypes DEF CutOK
<1>11. OwnersOK'
  BY <1>1, <1>2, <1>3, <1>4, <1>5, <1>6 DEF OwnersOK
<1>12. UnsentOK'
  BY <1>1, <1>3, <1>5 DEF UnsentOK, Unseen
<1>13. SentOnce'
  BY <1>1, <1>3, <1>5, WireTypes DEF SentOnce, Unseen
<1>14. AssignerOK'
  BY <1>1, <1>5 DEF AssignerOK
<1>15. SendsOK'
  BY <1>1, <1>3, <1>5 DEF SendsOK
<1> QED
  BY <1>1, <1>7, <1>8, <1>9, <1>10, <1>11, <1>12, <1>13, <1>14, <1>15, SocketsOKStays,
     BlackoutOKStays, HandshakeOKStays, ActivationsOKStays, ScopeOKStays, WireOKStays
     DEF ChannelInv

LEMMA BindRefusedKeepsInv ==
  ASSUME ChannelInv, NEW c \in Commands, Bind(c), ~Trusted(current, c)
  PROVE  ChannelInv'
<1>1. /\ ChannelTyped /\ LaserInv /\ SocketsOK /\ BoundOK /\ CutOK /\ OwnersOK
      /\ UnsentOK /\ SentOnce /\ BlackoutOK /\ AssignerOK /\ HandshakeOK
      /\ ActivationsOK /\ SendsOK /\ ScopeOK /\ WireOK
      /\ UNCHANGED <<generation, assignment, row, current, scope, bound, assigner,
                    open, handler, replaced, cut, arm, logical, pulse, flash,
                    stored, journal, output, emergency, down, up, link>>
      /\ UNCHANGED laserVars
  BY DEF ChannelInv, Bind, laserVars
<1>2. /\ dispatch' \in [Commands -> [step : Steps, socket : Sockets \cup {NoSocket}]]
      /\ dispatch'[c].step = "fail" /\ dispatch'[c].socket = NoSocket
      /\ \A d \in Commands : d # c => dispatch'[d] = dispatch[d]
  BY <1>1, StepMoves DEF Steps, Bind
<1>3. dispatch[c].step = "created"
  BY <1>1 DEF Bind
<1>4. /\ Outstanding' = Outstanding
      /\ Dark' <=> Dark
      /\ Pulsing' <=> Pulsing
  BY <1>1 DEF Outstanding, Dark, Pulsing
<1>5. LaserInv'
  BY <1>1, LaserInvStays
<1>6. ChannelTyped'
  BY <1>1, <1>2, <1>5 DEF LaserInv, ChannelTyped, TypeOK
<1>7. BoundOK'
  BY <1>1, <1>2 DEF BoundOK
<1>8. CutOK'
  BY <1>1, <1>2, WireTypes DEF CutOK
<1>9. OwnersOK'
  BY <1>1, <1>2, <1>4 DEF OwnersOK
<1>10. UnsentOK'
  BY <1>1, <1>2 DEF UnsentOK, Unseen
<1>11. SentOnce'
  BY <1>1, <1>2, WireTypes DEF SentOnce, Unseen
<1>12. AssignerOK'
  BY <1>1, <1>2 DEF AssignerOK
<1>13. SendsOK'
  BY <1>1, <1>2 DEF SendsOK
<1> QED
  BY <1>1, <1>5, <1>6, <1>7, <1>8, <1>9, <1>10, <1>11, <1>12, <1>13, SocketsOKStays,
     BlackoutOKStays, HandshakeOKStays, ActivationsOKStays, ScopeOKStays, WireOKStays
     DEF ChannelInv

LEMMA BindKeepsInv ==
  ASSUME ChannelInv, NEW c \in Commands, Bind(c)
  PROVE  ChannelInv'
  BY BindTrustedKeepsInv, BindRefusedKeepsInv

LEMMA SendReachesKeepsInv ==
  ASSUME ChannelInv, NEW c \in Commands, Send(c), dispatch[c].socket \in open,
         ToDevice(dispatch[c].socket, Message("execute", c)), Step(c, "wait", NoSocket),
         UNCHANGED <<bound, open>>
  PROVE  ChannelInv'
<1>1. /\ ChannelTyped /\ LaserInv /\ SocketsOK /\ BoundOK /\ CutOK /\ OwnersOK
      /\ UnsentOK /\ SentOnce /\ BlackoutOK /\ AssignerOK /\ HandshakeOK
      /\ ActivationsOK /\ SendsOK /\ ScopeOK /\ WireOK
      /\ UNCHANGED <<generation, assignment, row, current, scope, bound, assigner,
                    open, handler, replaced, cut, arm, logical, pulse, flash,
                    stored, journal, output, emergency, up, link>>
      /\ UNCHANGED laserVars
  BY DEF ChannelInv, Send, laserVars
<1>2. /\ dispatch' \in [Commands -> [step : Steps, socket : Sockets \cup {NoSocket}]]
      /\ dispatch'[c].step = "wait" /\ dispatch'[c].socket = NoSocket
      /\ \A d \in Commands : d # c => dispatch'[d] = dispatch[d]
  BY <1>1, StepMoves DEF Steps
<1>3. /\ dispatch[c].step = "send" /\ dispatch[c].socket \in Sockets /\ c \in Outstanding
      /\ bound[c] = dispatch[c].socket /\ bound[c] # NoSocket
      /\ Unseen(c) /\ row[c].snapshot = assignment.snapshot /\ assigner = Idle
      /\ \A g \in Sockets : c \notin cut[g]
  BY <1>1 DEF Send, OwnersOK, UnsentOK, SendsOK, AssignerOK, CutOK, Sockets, NoSocket
<1>4. PICK m \in DownMessages : /\ m.kind = "execute" /\ m.about = c
                                 /\ ToDevice(dispatch[c].socket, m)
  BY DEF Message, DownMessages
<1>5. /\ down' \in [Sockets -> Seq(DownMessages)]
      /\ \A h \in Sockets : Len(down[h]) \in Nat
      /\ \A h \in Sockets : h # link => down'[h] = down[h]
      /\ \A h \in Sockets : \A kind : \A i \in Positions(down'[h], kind) :
           \/ i \in Positions(down[h], kind) /\ i <= Len(down[h]) /\ down'[h][i] = down[h][i]
           \/ /\ h = link /\ i = Len(down[h]) + 1
              /\ kind = "execute" /\ down'[h][i].about = c
  <2> DEFINE s == dispatch[c].socket
  <2>1. ChannelTyped /\ s \in Sockets /\ ToDevice(s, m) /\ m.kind = "execute" /\ m.about = c
    BY <1>1, <1>3, <1>4
  <2> HIDE DEF s
  <2>2. /\ down' \in [Sockets -> Seq(DownMessages)]
        /\ s # link => down' = down
        /\ \A h \in Sockets : h # s => down'[h] = down[h]
        /\ \A h \in Sockets : Len(down[h]) \in Nat
    BY <2>1, ToDeviceMoves
  <2>3. \A h \in Sockets : \A kind : \A i \in Positions(down'[h], kind) :
              \/ i \in Positions(down[h], kind) /\ i <= Len(down[h]) /\ down'[h][i] = down[h][i]
              \/ /\ h = s /\ s = link /\ i = Len(down[h]) + 1
                 /\ m.kind = kind /\ down'[h][i] = m
    BY <2>1, ToDeviceMoves
  <2> QED
    BY <2>1, <2>2, <2>3
<1>6. /\ Outstanding' = Outstanding
      /\ Dark' <=> Dark
      /\ Pulsing' <=> Pulsing
  BY <1>1 DEF Outstanding, Dark, Pulsing
<1>7. LaserInv'
  BY <1>1, LaserInvStays
<1>8. ChannelTyped'
  BY <1>1, <1>2, <1>5, <1>7 DEF LaserInv, ChannelTyped, TypeOK
<1>9. SocketsOK'
  BY <1>1, <1>2, <1>3, <1>4, <1>5, <1>6 DEF SocketsOK, Live
<1>10. BoundOK'
  BY <1>1, <1>2 DEF BoundOK
<1>11. CutOK'
  BY <1>1, <1>2, WireTypes DEF CutOK
<1>12. OwnersOK'
  BY <1>1, <1>2, <1>3, <1>4, <1>6 DEF OwnersOK
<1>13. UnsentOK'
  BY <1>1, <1>2 DEF UnsentOK, Unseen
<1>14. SentOnce'
  <2>1. CASE link = NoSocket
    BY <1>1, <2>1 DEF SentOnce
  <2>2. CASE link # NoSocket
    <3>1. \A d \in Commands : Unseen(d)' <=> Unseen(d)
      BY <1>1 DEF Unseen
    <3>2. \A i \in Positions(down'[link], "execute") :
            \/ i \in Positions(down[link], "execute") /\ i <= Len(down[link]) /\ down'[link][i] = down[link][i]
            \/ i = Len(down[link]) + 1 /\ down'[link][i].about = c
      BY <1>1, <1>5, <2>2, WireTypes
    <3>3. \A i \in Positions(down[link], "execute") :
            /\ down[link][i].about \in Commands /\ down[link][i].about # c
            /\ Unseen(down[link][i].about)
            /\ dispatch[down[link][i].about].step \notin {"idle", "created", "send"}
      BY <1>1, <1>3, <2>2, WireTypes DEF SentOnce
    <3>4. \A i, j \in Positions(down[link], "execute") : down[link][i].about = down[link][j].about => i = j
      BY <1>1, <2>2 DEF SentOnce
    <3> QED
      BY <1>1, <1>2, <1>3, <3>1, <3>2, <3>3 DEF SentOnce
  <2> QED
    BY <2>1, <2>2
<1>15. AssignerOK'
  BY <1>1, <1>3 DEF AssignerOK
<1>16. HandshakeOK'
  <2>1. ASSUME NEW g \in open, Handshake(g), g \in Sockets
        PROVE  Handshake(g)'
    <3>1. Positions(down'[g], "prepare") \subseteq Positions(down[g], "prepare")
      BY <1>5, <2>1
    <3>2. Positions(up[g], "safe") = {} /\ Positions(down[g], "prepare") = {}
      BY <1>3, <2>1 DEF Handshake, Idle
    <3>3. assigner.step = "idle"
      BY <1>3 DEF Idle
    <3> QED
      BY <1>1, <3>1, <3>2, <3>3 DEF Handshake
  <2> QED
    BY <1>1, <2>1 DEF HandshakeOK, ChannelTyped, TypeOK
<1>17. SendsOK'
  BY <1>1, <1>2, <1>3, <1>4, <1>5, <1>6 DEF SendsOK
<1>18. WireOK'
  <2>1. ASSUME link # NoSocket, NEW i \in Positions(down'[link], "execute")
        PROVE  row[down'[link][i].about].snapshot = assignment.snapshot
    BY <1>1, <1>3, <1>5, <2>1, WireTypes DEF WireOK
  <2> QED
    BY <1>1, <2>1 DEF WireOK
<1> QED
  BY <1>1, <1>7, <1>8, <1>9, <1>10, <1>11, <1>12, <1>13, <1>14, <1>15, <1>16, <1>17,
     <1>18, BlackoutOKStays, ActivationsOKStays, ScopeOKStays DEF ChannelInv

LEMMA SendFailsKeepsInv ==
  ASSUME ChannelInv, NEW c \in Commands, Send(c), Unbind(c, dispatch[c].socket), open' = open \ {dispatch[c].socket},
         Step(c, "fail", NoSocket), UNCHANGED down
  PROVE  ChannelInv'
<1>1. /\ ChannelTyped /\ LaserInv /\ SocketsOK /\ BoundOK /\ CutOK /\ OwnersOK
      /\ UnsentOK /\ SentOnce /\ BlackoutOK /\ AssignerOK /\ HandshakeOK
      /\ ActivationsOK /\ SendsOK /\ ScopeOK /\ WireOK
      /\ UNCHANGED <<generation, assignment, row, current, scope, assigner,
                    handler, replaced, cut, arm, logical, pulse, flash, stored,
                    journal, output, emergency, down, up, link>>
      /\ UNCHANGED laserVars
  BY DEF ChannelInv, Send, laserVars
<1>2. /\ dispatch' \in [Commands -> [step : Steps, socket : Sockets \cup {NoSocket}]]
      /\ dispatch'[c].step = "fail" /\ dispatch'[c].socket = NoSocket
      /\ \A d \in Commands : d # c => dispatch'[d] = dispatch[d]
  BY <1>1, StepMoves DEF Steps
<1>3. /\ bound' \in [Commands -> Sockets \cup {NoSocket}]
      /\ bound'[c] = NoSocket \/ bound'[c] = bound[c]
      /\ \A d \in Commands : d # c => bound'[d] = bound[d]
  BY <1>1 DEF Unbind, ChannelTyped, TypeOK
<1>4. dispatch[c].step = "send" /\ open' \subseteq open
  BY <1>1 DEF Send
<1>5. /\ Outstanding' = Outstanding
      /\ Dark' <=> Dark
      /\ Pulsing' <=> Pulsing
  BY <1>1 DEF Outstanding, Dark, Pulsing
<1>6. LaserInv'
  BY <1>1, LaserInvStays
<1>7. ChannelTyped'
  BY <1>1, <1>2, <1>3, <1>6 DEF LaserInv, ChannelTyped, TypeOK
<1>8. SocketsOK'
  BY <1>1 DEF SocketsOK
<1>9. BoundOK'
  BY <1>1, <1>2, <1>3 DEF BoundOK
<1>10. CutOK'
  BY <1>1, <1>2, <1>3, WireTypes DEF CutOK
<1>11. OwnersOK'
  BY <1>1, <1>2, <1>3, <1>5 DEF OwnersOK
<1>12. UnsentOK'
  BY <1>1, <1>2 DEF UnsentOK, Unseen
<1>13. SentOnce'
  BY <1>1, <1>2, WireTypes DEF SentOnce, Unseen
<1>14. AssignerOK'
  BY <1>1, <1>2 DEF AssignerOK
<1>15. HandshakeOK'
  BY <1>1, HandshakeShrinks
<1>16. ActivationsOK'
  BY <1>1 DEF ActivationsOK
<1>17. SendsOK'
  BY <1>1, <1>2 DEF SendsOK
<1>18. ScopeOK'
  BY <1>1 DEF ScopeOK
<1> QED
  BY <1>1, <1>6, <1>7, <1>8, <1>9, <1>10, <1>11, <1>12, <1>13, <1>14, <1>15, <1>16,
     <1>17, <1>18, BlackoutOKStays, WireOKStays DEF ChannelInv

LEMMA SendKeepsInv ==
  ASSUME ChannelInv, NEW c \in Commands, Send(c)
  PROVE  ChannelInv'
  BY SendReachesKeepsInv, SendFailsKeepsInv DEF Send

LEMMA FailCommandWritesKeepsInv ==
  ASSUME ChannelInv, NEW c \in Commands, FailCommand(c), Complete({c}, "FAILED"), Step(c, "done", NoSocket)
  PROVE  ChannelInv'
<1>1. /\ ChannelTyped /\ LaserInv /\ SocketsOK /\ BoundOK /\ CutOK /\ OwnersOK
      /\ UnsentOK /\ SentOnce /\ BlackoutOK /\ AssignerOK /\ HandshakeOK
      /\ ActivationsOK /\ SendsOK /\ ScopeOK /\ WireOK
      /\ UNCHANGED <<generation, assignment, current, scope, bound, assigner,
                    open, handler, replaced, cut, arm, logical, pulse, flash,
                    stored, journal, output, emergency, down, up, link>>
      /\ UNCHANGED laserVars
  BY DEF ChannelInv, FailCommand, laserVars
<1>2. /\ dispatch' \in [Commands -> [step : Steps, socket : Sockets \cup {NoSocket}]]
      /\ dispatch'[c].step = "done" /\ dispatch'[c].socket = NoSocket
      /\ \A d \in Commands : d # c => dispatch'[d] = dispatch[d]
  BY <1>1, StepMoves DEF Steps
<1>3. /\ row' \in [Commands -> [status : Statuses, snapshot : Snapshots \cup {NoSnapshot}]]
      /\ Outstanding' = Outstanding \ {c}
      /\ \A d \in Commands : row'[d].snapshot = row[d].snapshot
      /\ \A d \in Commands : row'[d].status = row[d].status \/ row'[d].status = "FAILED"
  BY <1>1, CompleteMoves DEF Statuses
<1>4. dispatch[c].step = "fail"
  BY DEF FailCommand
<1>5. (Dark' <=> Dark) /\ (Pulsing' <=> Pulsing)
  BY <1>1 DEF Dark, Pulsing
<1>6. LaserInv'
  BY <1>1, LaserInvStays
<1>7. ChannelTyped'
  BY <1>1, <1>2, <1>3, <1>6 DEF LaserInv, ChannelTyped, TypeOK
<1>8. BoundOK'
  BY <1>1, <1>2 DEF BoundOK
<1>9. CutOK'
  BY <1>1, <1>2, WireTypes DEF CutOK
<1>10. OwnersOK'
  BY <1>1, <1>2, <1>3 DEF OwnersOK
<1>11. UnsentOK'
  BY <1>1, <1>2, <1>3 DEF UnsentOK, Unseen
<1>12. SentOnce'
  BY <1>1, <1>2, <1>3, WireTypes DEF SentOnce, Unseen
<1>13. BlackoutOK'
  BY <1>1, <1>3, <1>5 DEF BlackoutOK, Confirmed
<1>14. AssignerOK'
  BY <1>1, <1>2 DEF AssignerOK
<1>15. SendsOK'
  BY <1>1, <1>2, <1>3 DEF SendsOK
<1>16. WireOK'
  BY <1>1, <1>3, WireTypes DEF WireOK
<1> QED
  BY <1>1, <1>6, <1>7, <1>8, <1>9, <1>10, <1>11, <1>12, <1>13, <1>14, <1>15, <1>16,
     SocketsOKStays, HandshakeOKStays, ActivationsOKStays, ScopeOKStays DEF ChannelInv

LEMMA FailCommandLosesKeepsInv ==
  ASSUME ChannelInv, NEW c \in Commands, FailCommand(c), UNCHANGED row, Step(c, "lost", NoSocket)
  PROVE  ChannelInv'
<1>1. /\ ChannelTyped /\ LaserInv /\ SocketsOK /\ BoundOK /\ CutOK /\ OwnersOK
      /\ UnsentOK /\ SentOnce /\ BlackoutOK /\ AssignerOK /\ HandshakeOK
      /\ ActivationsOK /\ SendsOK /\ ScopeOK /\ WireOK
      /\ UNCHANGED <<generation, assignment, row, current, scope, bound, assigner,
                    open, handler, replaced, cut, arm, logical, pulse, flash,
                    stored, journal, output, emergency, down, up, link>>
      /\ UNCHANGED laserVars
  BY DEF ChannelInv, FailCommand, laserVars
<1>2. /\ dispatch' \in [Commands -> [step : Steps, socket : Sockets \cup {NoSocket}]]
      /\ dispatch'[c].step = "lost" /\ dispatch'[c].socket = NoSocket
      /\ \A d \in Commands : d # c => dispatch'[d] = dispatch[d]
  BY <1>1, StepMoves DEF Steps
<1>3. dispatch[c].step = "fail"
  BY <1>1 DEF FailCommand
<1>4. /\ Outstanding' = Outstanding
      /\ Dark' <=> Dark
      /\ Pulsing' <=> Pulsing
  BY <1>1 DEF Outstanding, Dark, Pulsing
<1>5. LaserInv'
  BY <1>1, LaserInvStays
<1>6. ChannelTyped'
  BY <1>1, <1>2, <1>5 DEF LaserInv, ChannelTyped, TypeOK
<1>7. BoundOK'
  BY <1>1, <1>2 DEF BoundOK
<1>8. CutOK'
  BY <1>1, <1>2, WireTypes DEF CutOK
<1>9. OwnersOK'
  BY <1>1, <1>2, <1>4 DEF OwnersOK
<1>10. UnsentOK'
  BY <1>1, <1>2 DEF UnsentOK, Unseen
<1>11. SentOnce'
  BY <1>1, <1>2, WireTypes DEF SentOnce, Unseen
<1>12. AssignerOK'
  BY <1>1, <1>2 DEF AssignerOK
<1>13. SendsOK'
  BY <1>1, <1>2 DEF SendsOK
<1> QED
  BY <1>1, <1>5, <1>6, <1>7, <1>8, <1>9, <1>10, <1>11, <1>12, <1>13, SocketsOKStays,
     BlackoutOKStays, HandshakeOKStays, ActivationsOKStays, ScopeOKStays, WireOKStays
     DEF ChannelInv

LEMMA FailCommandKeepsInv ==
  ASSUME ChannelInv, NEW c \in Commands, FailCommand(c)
  PROVE  ChannelInv'
  BY FailCommandWritesKeepsInv, FailCommandLosesKeepsInv DEF FailCommand

LEMMA InterruptCommandKeepsInv ==
  ASSUME ChannelInv, NEW c \in Commands, InterruptCommand(c)
  PROVE  ChannelInv'
<1>1. /\ ChannelTyped /\ LaserInv /\ SocketsOK /\ BoundOK /\ CutOK /\ OwnersOK
      /\ UnsentOK /\ SentOnce /\ BlackoutOK /\ AssignerOK /\ HandshakeOK
      /\ ActivationsOK /\ SendsOK /\ ScopeOK /\ WireOK
      /\ UNCHANGED <<generation, assignment, current, scope, bound, assigner,
                    open, handler, replaced, cut, arm, logical, pulse, flash,
                    stored, journal, output, emergency, down, up, link>>
      /\ UNCHANGED laserVars
  BY DEF ChannelInv, InterruptCommand, laserVars
<1>2. /\ dispatch' \in [Commands -> [step : Steps, socket : Sockets \cup {NoSocket}]]
      /\ dispatch'[c].step = "done" /\ dispatch'[c].socket = NoSocket
      /\ \A d \in Commands : d # c => dispatch'[d] = dispatch[d]
  BY <1>1, StepMoves DEF Steps, InterruptCommand
<1>3. /\ row' \in [Commands -> [status : Statuses, snapshot : Snapshots \cup {NoSnapshot}]]
      /\ Outstanding' = Outstanding \ {c}
      /\ \A d \in Commands : row'[d].snapshot = row[d].snapshot
      /\ \A d \in Commands : row'[d].status = row[d].status \/ row'[d].status = "FAILED"
  BY <1>1, CompleteMoves DEF Statuses, InterruptCommand
<1>4. dispatch[c].step = "wait"
  BY DEF InterruptCommand
<1>5. (Dark' <=> Dark) /\ (Pulsing' <=> Pulsing)
  BY <1>1 DEF Dark, Pulsing
<1>6. LaserInv'
  BY <1>1, LaserInvStays
<1>7. ChannelTyped'
  BY <1>1, <1>2, <1>3, <1>6 DEF LaserInv, ChannelTyped, TypeOK
<1>8. BoundOK'
  BY <1>1, <1>2 DEF BoundOK
<1>9. CutOK'
  BY <1>1, <1>2, WireTypes DEF CutOK
<1>10. OwnersOK'
  BY <1>1, <1>2, <1>3 DEF OwnersOK
<1>11. UnsentOK'
  BY <1>1, <1>2, <1>3 DEF UnsentOK, Unseen
<1>12. SentOnce'
  BY <1>1, <1>2, <1>3, WireTypes DEF SentOnce, Unseen
<1>13. BlackoutOK'
  BY <1>1, <1>3, <1>5 DEF BlackoutOK, Confirmed
<1>14. AssignerOK'
  BY <1>1, <1>2 DEF AssignerOK
<1>15. SendsOK'
  BY <1>1, <1>2, <1>3 DEF SendsOK
<1>16. WireOK'
  BY <1>1, <1>3, WireTypes DEF WireOK
<1> QED
  BY <1>1, <1>6, <1>7, <1>8, <1>9, <1>10, <1>11, <1>12, <1>13, <1>14, <1>15, <1>16,
     SocketsOKStays, HandshakeOKStays, ActivationsOKStays, ScopeOKStays DEF ChannelInv

-----------------------------------------------------------------------------
(* Sockets.                                                                *)

LEMMA RegisterKeepsInv ==
  ASSUME ChannelInv, Register
  PROVE  ChannelInv'
<1>1. /\ ChannelTyped /\ LaserInv /\ SocketsOK /\ BoundOK /\ CutOK /\ OwnersOK
      /\ UnsentOK /\ SentOnce /\ BlackoutOK /\ AssignerOK /\ HandshakeOK
      /\ ActivationsOK /\ SendsOK /\ ScopeOK /\ WireOK
      /\ UNCHANGED <<assignment, row, scope, bound, assigner, cut, dispatch, arm,
                    logical, pulse, flash, stored, journal, output, emergency,
                    down, up>>
      /\ UNCHANGED laserVars
  BY DEF ChannelInv, Register, laserVars
<1>2. PICK new \in Sockets :
        /\ new = generation + 1 /\ generation \in Nat /\ link = NoSocket
        /\ generation' = new /\ current' = new /\ link' = new
        /\ open' = open \cup {new} /\ Become(new, "registered")
        /\ new # NoSocket /\ new \in 0..MaxGeneration
  BY <1>1 DEF Register, ChannelTyped, TypeOK, Sockets, NoSocket
<1>3. /\ handler' \in [Sockets -> HandlerSteps] /\ handler'[new] = "registered"
      /\ \A h \in Sockets : h # new => handler'[h] = handler[h]
  BY <1>1, <1>2, BecomeMoves DEF HandlerSteps
<1>4. replaced' \in [Sockets -> Sockets \cup {NoSocket}]
  BY <1>1 DEF Register, ChannelTyped, TypeOK
<1>5. /\ handler[new] = "none" /\ scope[new] = Nothing
      /\ up[new] = <<>> /\ down[new] = <<>>
      /\ \A g \in open : g \in Sockets /\ g # new
      /\ \A g \in Sockets : g > new => g > generation /\ g # new
      /\ \A g \in Sockets : g <= generation => g <= new /\ g # new
  BY <1>1, <1>2 DEF SocketsOK, ChannelTyped, TypeOK
<1>6. /\ \A kind : Positions(up[new], kind) = {} /\ Positions(down[new], kind) = {}
  BY <1>5, EmptyWire
<1>7. /\ \A c \in Commands : dispatch[c].step = "send" => dispatch[c].socket # new
      /\ assigner = Idle \/ assigner.socket # new
  BY <1>1, <1>2 DEF OwnersOK, AssignerOK
<1>8. /\ Outstanding' = Outstanding
      /\ Dark' <=> Dark
      /\ Pulsing' <=> Pulsing
  BY <1>1 DEF Outstanding, Dark, Pulsing
<1>9. LaserInv'
  BY <1>1, LaserInvStays
<1>10. ChannelTyped'
  BY <1>1, <1>2, <1>3, <1>4, <1>9 DEF LaserInv, ChannelTyped, TypeOK
<1>11. SocketsOK'
  <2>1. generation' \in Nat /\ generation < generation'
    BY <1>2
  <2>2. \A g \in open' : g <= generation'
    BY <1>1, <1>2, <1>5 DEF SocketsOK, Sockets
  <2>3. \A g \in Sockets : g > generation' =>
          handler'[g] = "none" /\ scope'[g] = Nothing /\ up'[g] = <<>>
    BY <1>1, <1>2, <1>3 DEF SocketsOK
  <2>4. \A g \in Sockets : down'[g] = <<>>
    BY <1>1, <1>2 DEF SocketsOK, Sockets, NoSocket
  <2> QED
    BY <1>2, <1>3, <2>2, <2>3, <2>4 DEF SocketsOK, Live
<1>12. BoundOK'
  BY <1>1, <1>3, WireTypes DEF BoundOK, Live
<1>13. CutOK'
  BY <1>1, <1>3, <1>5 DEF CutOK
<1>14. OwnersOK'
  BY <1>1, <1>2, <1>5, <1>8 DEF OwnersOK
<1>15. SentOnce'
  BY <1>1, <1>2, <1>6 DEF SentOnce
<1>16. AssignerOK'
  BY <1>1, <1>2, <1>5, <1>7 DEF AssignerOK
<1>17. HandshakeOK'
  <2>1. ASSUME NEW g \in open, Handshake(g)
        PROVE  Handshake(g)'
    BY <1>1, <1>2, <1>5, <2>1 DEF Handshake
  <2>2. Handshake(new)'
    <3>1. /\ Positions(up'[new], "safe") = {} /\ Positions(down'[new], "prepare") = {}
          /\ Positions(down'[new], "execute") = {}
      BY <1>1, <1>6
    <3>2. ~(assigner'.step = "answered" /\ assigner'.socket = new)
      BY <1>1, <1>7 DEF Idle
    <3> QED
      BY <3>1, <3>2 DEF Handshake
  <2> QED
    BY <1>1, <1>2, <2>1, <2>2 DEF HandshakeOK
<1>18. ActivationsOK'
  BY <1>1, <1>2, <1>3 DEF ActivationsOK
<1>19. SendsOK'
  BY <1>1, <1>2, <1>7 DEF SendsOK
<1>20. ScopeOK'
  BY <1>1, <1>2, <1>5 DEF ScopeOK
<1>21. WireOK'
  BY <1>1, <1>2, <1>6 DEF WireOK
<1> QED
  BY <1>1, <1>9, <1>10, <1>11, <1>12, <1>13, <1>14, <1>15, <1>16, <1>17, <1>18, <1>19,
     <1>20, <1>21, UnsentOKStays, BlackoutOKStays DEF ChannelInv

LEMMA DisplaceKeepsInv ==
  ASSUME ChannelInv, NEW g \in Sockets, Displace(g)
  PROVE  ChannelInv'
<1>1. /\ ChannelTyped /\ LaserInv /\ SocketsOK /\ BoundOK /\ CutOK /\ OwnersOK
      /\ UnsentOK /\ SentOnce /\ BlackoutOK /\ AssignerOK /\ HandshakeOK
      /\ ActivationsOK /\ SendsOK /\ ScopeOK /\ WireOK
      /\ UNCHANGED <<generation, assignment, row, current, scope, bound, assigner,
                    cut, dispatch, arm, logical, pulse, flash, stored, journal,
                    output, emergency, down, up, link>>
      /\ UNCHANGED laserVars
  BY DEF ChannelInv, Displace, laserVars
<1>2. /\ handler' \in [Sockets -> HandlerSteps] /\ handler'[g] = "displaced"
      /\ \A h \in Sockets : h # g => handler'[h] = handler[h]
  BY <1>1, BecomeMoves DEF HandlerSteps, Displace
<1>3. /\ handler[g] = "registered" /\ open' = open \ {replaced[g]} /\ open' \subseteq open
      /\ replaced' \in [Sockets -> Sockets \cup {NoSocket}]
  BY <1>1 DEF Displace, ChannelTyped, TypeOK
<1>4. /\ Outstanding' = Outstanding
      /\ Dark' <=> Dark
      /\ Pulsing' <=> Pulsing
  BY <1>1 DEF Outstanding, Dark, Pulsing
<1>5. LaserInv'
  BY <1>1, LaserInvStays
<1>6. ChannelTyped'
  BY <1>1, <1>2, <1>3, <1>5 DEF LaserInv, ChannelTyped, TypeOK
<1>7. SocketsOK'
  BY <1>1, <1>2, <1>3, SocketsKept DEF Live
<1>8. BoundOK'
  BY <1>1, <1>2, WireTypes DEF BoundOK, Live
<1>9. CutOK'
  BY <1>1, <1>2, <1>3 DEF CutOK
<1>10. OwnersOK'
  BY <1>1, <1>3, <1>4 DEF OwnersOK
<1>11. AssignerOK'
  BY <1>1, <1>3 DEF AssignerOK
<1>12. HandshakeOK'
  BY <1>1, <1>3, HandshakeShrinks
<1>13. ActivationsOK'
  BY <1>1, <1>2, <1>3 DEF ActivationsOK
<1>14. SendsOK'
  BY <1>1, <1>3 DEF SendsOK
<1>15. ScopeOK'
  BY <1>1, <1>3 DEF ScopeOK
<1> QED
  BY <1>1, <1>5, <1>6, <1>7, <1>8, <1>9, <1>10, <1>11, <1>12, <1>13, <1>14, <1>15,
     UnsentOKStays, SentOnceStays, BlackoutOKStays, WireOKStays DEF ChannelInv

LEMMA AnnounceServesKeepsInv ==
  ASSUME ChannelInv, NEW g \in Sockets, Announce(g), Become(g, "serving"),
         down' = down \/ ToDevice(g, Message("scope", assignment))
  PROVE  ChannelInv'
<1>1. /\ ChannelTyped /\ LaserInv /\ SocketsOK /\ BoundOK /\ CutOK /\ OwnersOK
      /\ UnsentOK /\ SentOnce /\ BlackoutOK /\ AssignerOK /\ HandshakeOK
      /\ ActivationsOK /\ SendsOK /\ ScopeOK /\ WireOK
      /\ UNCHANGED <<generation, assignment, row, current, scope, bound, assigner,
                    open, replaced, cut, dispatch, arm, logical, pulse, flash,
                    stored, journal, output, emergency, up, link>>
      /\ UNCHANGED laserVars
  BY DEF ChannelInv, Announce, laserVars
<1>2. /\ handler' \in [Sockets -> HandlerSteps] /\ handler'[g] = "serving"
      /\ \A h \in Sockets : h # g => handler'[h] = handler[h]
  BY <1>1, BecomeMoves DEF HandlerSteps
<1>3. handler[g] = "displaced"
  BY DEF Announce
<1>4. /\ down' \in [Sockets -> Seq(DownMessages)]
      /\ \A h \in Sockets : h # link => down'[h] = down[h]
      /\ \A h \in Sockets : \A kind \in {"prepare", "execute"} : \A i \in Positions(down'[h], kind) :
           i \in Positions(down[h], kind) /\ down'[h][i] = down[h][i] /\ i \in Nat
  <2>1. CASE down' = down
    BY <1>1, <2>1 DEF ChannelTyped, Positions
  <2>2. CASE ToDevice(g, Message("scope", assignment))
    <3>1. PICK m \in DownMessages : m.kind = "scope" /\ ToDevice(g, m)
      BY <1>1, <2>2 DEF Message, DownMessages, ChannelTyped, TypeOK
    <3> QED
      BY <1>1, <3>1, ToDeviceMoves DEF Positions
  <2> QED
    BY <2>1, <2>2
<1>5. /\ Outstanding' = Outstanding
      /\ Dark' <=> Dark
      /\ Pulsing' <=> Pulsing
  BY <1>1 DEF Outstanding, Dark, Pulsing
<1>6. LaserInv'
  BY <1>1, LaserInvStays
<1>7. ChannelTyped'
  BY <1>1, <1>2, <1>4, <1>6 DEF LaserInv, ChannelTyped, TypeOK
<1>8. SocketsOK'
  BY <1>1, <1>2, <1>3, <1>4, SocketsKept DEF Live
<1>9. BoundOK'
  BY <1>1, <1>2, WireTypes DEF BoundOK, Live
<1>10. CutOK'
  BY <1>1, <1>2, <1>3 DEF CutOK
<1>11. SentOnce'
  <2>1. \A c \in Commands : Unseen(c) => Unseen(c)'
    BY <1>1 DEF Unseen
  <2>2. link # NoSocket =>
          \A i \in Positions(down'[link], "execute") :
            /\ i \in Nat /\ i + 0 \in Positions(down[link], "execute")
            /\ down'[link][i] = down[link][i + 0] /\ down'[link][i].about \in Commands
    BY <1>1, <1>4, WireTypes
  <2> QED
    BY <1>1, <2>1, <2>2, SentKept
<1>12. HandshakeOK'
  <2> DEFINE zero == [h \in Sockets |-> 0]
  <2>1. zero \in [Sockets -> Nat] /\ \A h \in Sockets : zero[h] = 0
    OBVIOUS
  <2> HIDE DEF zero
  <2>2. \A h \in Sockets : \A kind \in {"prepare", "execute"} : \A i \in Positions(down'[h], kind) :
          i \in Nat /\ i + zero[h] \in Positions(down[h], kind)
    BY <1>4, <2>1 DEF Positions
  <2>3. \A h \in Sockets : \A i \in Positions(up'[h], "safe") :
          i \in Nat /\ i + zero[h] \in Positions(up[h], "safe")
    BY <1>1, <2>1 DEF Positions
  <2> QED
    BY <1>1, <1>5, <2>1, <2>2, <2>3, HandshakeKept
<1>13. ActivationsOK'
  BY <1>1, <1>2 DEF ActivationsOK
<1>14. WireOK'
  BY <1>1, <1>4, WireTypes DEF WireOK
<1> QED
  BY <1>1, <1>6, <1>7, <1>8, <1>9, <1>10, <1>11, <1>12, <1>13, <1>14, OwnersOKStays,
     UnsentOKStays, BlackoutOKStays, AssignerOKStays, SendsOKStays, ScopeOKStays DEF
     ChannelInv

LEMMA AnnounceLeavesKeepsInv ==
  ASSUME ChannelInv, NEW g \in Sockets, Announce(g), Become(g, "leaving"), UNCHANGED down
  PROVE  ChannelInv'
<1>1. /\ ChannelTyped /\ LaserInv /\ SocketsOK /\ BoundOK /\ CutOK /\ OwnersOK
      /\ UnsentOK /\ SentOnce /\ BlackoutOK /\ AssignerOK /\ HandshakeOK
      /\ ActivationsOK /\ SendsOK /\ ScopeOK /\ WireOK
      /\ UNCHANGED <<generation, assignment, row, current, scope, bound, assigner,
                    open, replaced, cut, dispatch, arm, logical, pulse, flash,
                    stored, journal, output, emergency, down, up, link>>
      /\ UNCHANGED laserVars
  BY DEF ChannelInv, Announce, laserVars
<1>2. /\ handler' \in [Sockets -> HandlerSteps] /\ handler'[g] = "leaving"
      /\ \A h \in Sockets : h # g => handler'[h] = handler[h]
  BY <1>1, BecomeMoves DEF HandlerSteps
<1>3. handler[g] = "displaced"
  BY DEF Announce
<1>4. /\ Outstanding' = Outstanding
      /\ Dark' <=> Dark
      /\ Pulsing' <=> Pulsing
  BY <1>1 DEF Outstanding, Dark, Pulsing
<1>5. LaserInv'
  BY <1>1, LaserInvStays
<1>6. ChannelTyped'
  BY <1>1, <1>2, <1>5 DEF LaserInv, ChannelTyped, TypeOK
<1>7. SocketsOK'
  BY <1>1, <1>2, <1>3, SocketsKept DEF Live
<1>8. BoundOK'
  BY <1>1, <1>2, WireTypes DEF BoundOK, Live
<1>9. CutOK'
  BY <1>1, <1>2, <1>3 DEF CutOK
<1>10. ActivationsOK'
  BY <1>1, <1>2 DEF ActivationsOK
<1> QED
  BY <1>1, <1>5, <1>6, <1>7, <1>8, <1>9, <1>10, OwnersOKStays, UnsentOKStays,
     SentOnceStays, BlackoutOKStays, AssignerOKStays, HandshakeOKStays, SendsOKStays,
     ScopeOKStays, WireOKStays DEF ChannelInv

LEMMA AnnounceKeepsInv ==
  ASSUME ChannelInv, NEW g \in Sockets, Announce(g)
  PROVE  ChannelInv'
  BY AnnounceServesKeepsInv, AnnounceLeavesKeepsInv DEF Announce

LEMMA ReadScopeAckKeepsInv ==
  ASSUME ChannelInv, NEW g \in Sockets, ReadScopeAck(g)
  PROVE  ChannelInv'
<1>1. /\ ChannelTyped /\ LaserInv /\ SocketsOK /\ BoundOK /\ CutOK /\ OwnersOK
      /\ UnsentOK /\ SentOnce /\ BlackoutOK /\ AssignerOK /\ HandshakeOK
      /\ ActivationsOK /\ SendsOK /\ ScopeOK /\ WireOK
      /\ UNCHANGED <<generation, assignment, row, current, scope, bound, assigner,
                    open, replaced, cut, dispatch, arm, logical, pulse, flash,
                    stored, journal, output, emergency, down, up, link>>
      /\ UNCHANGED laserVars
  BY DEF ChannelInv, ReadScopeAck, laserVars
<1>2. /\ handler[g] = "serving" /\ g \in open /\ up[g] # <<>> /\ Head(up[g]).kind = "scope"
      /\ handler' \in [Sockets -> HandlerSteps]
      /\ \/ handler'[g] = "activating" /\ Head(up[g]).about = assignment
         \/ handler'[g] = "leaving"
      /\ \A h \in Sockets : h # g => handler'[h] = handler[h]
  BY <1>1, ArrivedMoves, BecomeMoves DEF ReadScopeAck, HandlerSteps
<1>3. /\ Outstanding' = Outstanding
      /\ Dark' <=> Dark
      /\ Pulsing' <=> Pulsing
  BY <1>1 DEF Outstanding, Dark, Pulsing
<1>4. LaserInv'
  BY <1>1, LaserInvStays
<1>5. ChannelTyped'
  BY <1>1, <1>2, <1>4 DEF LaserInv, ChannelTyped, TypeOK
<1>6. SocketsOK'
  BY <1>1, <1>2, SocketsKept DEF Live
<1>7. BoundOK'
  BY <1>1, <1>2, WireTypes DEF BoundOK, Live
<1>8. CutOK'
  BY <1>1, <1>2 DEF CutOK
<1>9. ActivationsOK'
  BY <1>1, <1>2 DEF ActivationsOK
<1> QED
  BY <1>1, <1>4, <1>5, <1>6, <1>7, <1>8, <1>9, OwnersOKStays, UnsentOKStays,
     SentOnceStays, BlackoutOKStays, AssignerOKStays, HandshakeOKStays, SendsOKStays,
     ScopeOKStays, WireOKStays DEF ChannelInv

LEMMA ActivateEnablesKeepsInv ==
  ASSUME ChannelInv, NEW g \in Sockets, ActivateScope(g), current = g, assigner = Idle, g \in open
  PROVE  ChannelInv'
<1>1. /\ ChannelTyped /\ LaserInv /\ SocketsOK /\ BoundOK /\ CutOK /\ OwnersOK
      /\ UnsentOK /\ SentOnce /\ BlackoutOK /\ AssignerOK /\ HandshakeOK
      /\ ActivationsOK /\ SendsOK /\ ScopeOK /\ WireOK
      /\ UNCHANGED <<generation, assignment, row, current, bound, assigner, open,
                    replaced, cut, dispatch, arm, logical, pulse, flash, stored,
                    journal, output, emergency, down, link>>
      /\ UNCHANGED laserVars
  BY DEF ChannelInv, ActivateScope, laserVars
<1>2. /\ handler[g] = "activating" /\ up[g] # <<>> /\ Consume(g)
      /\ Head(up[g]) \in UpMessages /\ Head(up[g]).kind = "scope" /\ Head(up[g]).about \in Scopes
  <2>1. handler[g] = "activating" /\ up[g] # <<>> /\ Consume(g) /\ Head(up[g]).kind = "scope"
    BY <1>1 DEF ActivateScope, ActivationsOK
  <2>2. Head(up[g]) \in UpMessages
    BY <1>1, <2>1, ConsumeMoves
  <2>3. \A m \in UpMessages : m.kind = "scope" => m.about \in Scopes
    BY DEF UpMessages
  <2> QED
    BY <2>1, <2>2, <2>3
<1>3. /\ up' \in [Sockets -> Seq(UpMessages)]
      /\ \A h \in Sockets : h # g => up'[h] = up[h]
      /\ \A kind : \A i \in Positions(up'[g], kind) :
           /\ i \in Nat /\ i >= 1 /\ i + 1 \in Positions(up[g], kind)
           /\ up'[g][i] = up[g][i + 1]
  BY <1>1, <1>2, ConsumeMoves
<1>4. \A c \in Commands : (Unseen(c) => Unseen(c)') /\ (Confirmed(c)' => Confirmed(c))
  BY <1>1, <1>3, LessToRead
<1>5. /\ handler' \in [Sockets -> HandlerSteps] /\ handler'[g] = "serving"
      /\ \A h \in Sockets : h # g => handler'[h] = handler[h]
  BY <1>1, BecomeMoves DEF HandlerSteps, ActivateScope
<1>6. /\ scope' \in [Sockets -> Scopes] /\ scope'[g] = assignment
      /\ \A h \in Sockets : h # g => scope'[h] = scope[h]
  BY <1>1, <1>2 DEF ActivateScope, ActivationsOK, ChannelTyped, TypeOK
<1>7. /\ Outstanding' = Outstanding
      /\ Dark' <=> Dark
      /\ Pulsing' <=> Pulsing
  BY <1>1 DEF Outstanding, Dark, Pulsing
<1>8. LaserInv'
  BY <1>1, LaserInvStays
<1>9. ChannelTyped'
  BY <1>1, <1>3, <1>5, <1>6, <1>8 DEF LaserInv, ChannelTyped, TypeOK
<1>10. SocketsOK'
  <2>1. current # NoSocket => current = generation /\ handler'[current] \in Live
    BY <1>1, <1>5 DEF SocketsOK, Live
  <2>2. \A h \in Sockets : h > generation =>
          handler'[h] = "none" /\ scope'[h] = Nothing /\ up'[h] = <<>>
    BY <1>1, <1>2, <1>3, <1>5, <1>6 DEF SocketsOK
  <2> QED
    BY <1>1, <2>1, <2>2 DEF SocketsOK
<1>11. BoundOK'
  BY <1>1, <1>5, WireTypes DEF BoundOK, Live
<1>12. CutOK'
  BY <1>1, <1>2, <1>3, <1>4, <1>5, <1>6, <1>7, WireTypes DEF CutOK
<1>13. UnsentOK'
  BY <1>1, <1>4 DEF UnsentOK
<1>14. SentOnce'
  <2>1. link # NoSocket =>
          \A i \in Positions(down'[link], "execute") :
            /\ i \in Nat /\ i + 0 \in Positions(down[link], "execute")
            /\ down'[link][i] = down[link][i + 0] /\ down'[link][i].about \in Commands
    BY <1>1, WireTypes DEF Positions
  <2> QED
    BY <1>1, <1>4, <2>1, SentKept
<1>15. BlackoutOK'
  BY <1>1, <1>4, <1>7 DEF BlackoutOK
<1>16. HandshakeOK'
  <2> DEFINE zero == [h \in Sockets |-> 0]
             first == [h \in Sockets |-> IF h = g THEN 1 ELSE 0]
  <2>1. /\ zero \in [Sockets -> Nat] /\ \A h \in Sockets : zero[h] = 0
        /\ first \in [Sockets -> Nat] /\ \A h \in Sockets : first[h] = IF h = g THEN 1 ELSE 0
    OBVIOUS
  <2> HIDE DEF zero, first
  <2>2. \A h \in Sockets : \A kind \in {"prepare", "execute"} : \A i \in Positions(down'[h], kind) :
          i \in Nat /\ i + zero[h] \in Positions(down[h], kind)
    BY <1>1, <2>1 DEF Positions
  <2>3. \A h \in Sockets : \A i \in Positions(up'[h], "safe") :
          i \in Nat /\ i + first[h] \in Positions(up[h], "safe")
    <3>1. ASSUME NEW h \in Sockets, h # g, NEW i \in Positions(up[h], "safe")
          PROVE  i \in Nat /\ i + first[h] = i
      BY <2>1, <3>1 DEF Positions
    <3>2. ASSUME NEW i \in Positions(up'[g], "safe")
          PROVE  i \in Nat /\ i + first[g] \in Positions(up[g], "safe")
      BY <1>3, <2>1, <3>2
    <3>3. \A h \in Sockets : h # g => up'[h] = up[h]
      BY <1>3
    <3> QED
      BY <3>1, <3>2, <3>3
  <2> QED
    BY <1>1, <1>7, <2>1, <2>2, <2>3, HandshakeKept
<1>17. ActivationsOK'
  BY <1>1, <1>3, <1>5 DEF ActivationsOK
<1>18. ScopeOK'
  BY <1>1, <1>6 DEF ScopeOK
<1> QED
  BY <1>1, <1>8, <1>9, <1>10, <1>11, <1>12, <1>13, <1>14, <1>15, <1>16, <1>17, <1>18,
     OwnersOKStays, AssignerOKStays, SendsOKStays, WireOKStays DEF ChannelInv

LEMMA ActivateLeavesKeepsInv ==
  ASSUME ChannelInv, NEW g \in Sockets, ActivateScope(g), ~(current = g /\ assigner = Idle /\ g \in open)
  PROVE  ChannelInv'
<1>1. /\ ChannelTyped /\ LaserInv /\ SocketsOK /\ BoundOK /\ CutOK /\ OwnersOK
      /\ UnsentOK /\ SentOnce /\ BlackoutOK /\ AssignerOK /\ HandshakeOK
      /\ ActivationsOK /\ SendsOK /\ ScopeOK /\ WireOK
      /\ UNCHANGED <<generation, assignment, row, current, scope, bound, assigner,
                    open, replaced, cut, dispatch, arm, logical, pulse, flash,
                    stored, journal, output, emergency, down, link>>
      /\ UNCHANGED laserVars
  BY DEF ChannelInv, ActivateScope, laserVars
<1>2. /\ handler[g] = "activating" /\ up[g] # <<>> /\ Consume(g)
      /\ Head(up[g]) \in UpMessages /\ Head(up[g]).kind = "scope" /\ Head(up[g]).about \in Scopes
  <2>1. handler[g] = "activating" /\ up[g] # <<>> /\ Consume(g) /\ Head(up[g]).kind = "scope"
    BY <1>1 DEF ActivateScope, ActivationsOK
  <2>2. Head(up[g]) \in UpMessages
    BY <1>1, <2>1, ConsumeMoves
  <2>3. \A m \in UpMessages : m.kind = "scope" => m.about \in Scopes
    BY DEF UpMessages
  <2> QED
    BY <2>1, <2>2, <2>3
<1>3. /\ up' \in [Sockets -> Seq(UpMessages)]
      /\ \A h \in Sockets : h # g => up'[h] = up[h]
      /\ \A kind : \A i \in Positions(up'[g], kind) :
           /\ i \in Nat /\ i >= 1 /\ i + 1 \in Positions(up[g], kind)
           /\ up'[g][i] = up[g][i + 1]
  BY <1>1, <1>2, ConsumeMoves
<1>4. \A c \in Commands : (Unseen(c) => Unseen(c)') /\ (Confirmed(c)' => Confirmed(c))
  BY <1>1, <1>3, LessToRead
<1>5. /\ handler' \in [Sockets -> HandlerSteps] /\ handler'[g] = "leaving"
      /\ \A h \in Sockets : h # g => handler'[h] = handler[h]
  BY <1>1, BecomeMoves DEF HandlerSteps, ActivateScope
<1>6. /\ Outstanding' = Outstanding
      /\ Dark' <=> Dark
      /\ Pulsing' <=> Pulsing
  BY <1>1 DEF Outstanding, Dark, Pulsing
<1>7. LaserInv'
  BY <1>1, LaserInvStays
<1>8. ChannelTyped'
  BY <1>1, <1>3, <1>5, <1>7 DEF LaserInv, ChannelTyped, TypeOK
<1>9. SocketsOK'
  BY <1>1, <1>2, <1>3, <1>5, SocketsKept DEF Live
<1>10. BoundOK'
  BY <1>1, <1>5, WireTypes DEF BoundOK, Live
<1>11. CutOK'
  BY <1>1, <1>2, <1>5 DEF CutOK
<1>12. UnsentOK'
  BY <1>1, <1>4 DEF UnsentOK
<1>13. SentOnce'
  <2>1. link # NoSocket =>
          \A i \in Positions(down'[link], "execute") :
            /\ i \in Nat /\ i + 0 \in Positions(down[link], "execute")
            /\ down'[link][i] = down[link][i + 0] /\ down'[link][i].about \in Commands
    BY <1>1, WireTypes DEF Positions
  <2> QED
    BY <1>1, <1>4, <2>1, SentKept
<1>14. BlackoutOK'
  BY <1>1, <1>4, <1>6 DEF BlackoutOK
<1>15. HandshakeOK'
  <2> DEFINE zero == [h \in Sockets |-> 0]
             first == [h \in Sockets |-> IF h = g THEN 1 ELSE 0]
  <2>1. /\ zero \in [Sockets -> Nat] /\ \A h \in Sockets : zero[h] = 0
        /\ first \in [Sockets -> Nat] /\ \A h \in Sockets : first[h] = IF h = g THEN 1 ELSE 0
    OBVIOUS
  <2> HIDE DEF zero, first
  <2>2. \A h \in Sockets : \A kind \in {"prepare", "execute"} : \A i \in Positions(down'[h], kind) :
          i \in Nat /\ i + zero[h] \in Positions(down[h], kind)
    BY <1>1, <2>1 DEF Positions
  <2>3. \A h \in Sockets : \A i \in Positions(up'[h], "safe") :
          i \in Nat /\ i + first[h] \in Positions(up[h], "safe")
    <3>1. ASSUME NEW h \in Sockets, h # g, NEW i \in Positions(up[h], "safe")
          PROVE  i \in Nat /\ i + first[h] = i
      BY <2>1, <3>1 DEF Positions
    <3>2. ASSUME NEW i \in Positions(up'[g], "safe")
          PROVE  i \in Nat /\ i + first[g] \in Positions(up[g], "safe")
      BY <1>3, <2>1, <3>2
    <3>3. \A h \in Sockets : h # g => up'[h] = up[h]
      BY <1>3
    <3> QED
      BY <3>1, <3>2, <3>3
  <2> QED
    BY <1>1, <1>6, <2>1, <2>2, <2>3, HandshakeKept
<1>16. ActivationsOK'
  BY <1>1, <1>3, <1>5 DEF ActivationsOK
<1> QED
  BY <1>1, <1>7, <1>8, <1>9, <1>10, <1>11, <1>12, <1>13, <1>14, <1>15, <1>16,
     OwnersOKStays, AssignerOKStays, SendsOKStays, ScopeOKStays, WireOKStays DEF
     ChannelInv

LEMMA ActivateScopeKeepsInv ==
  ASSUME ChannelInv, NEW g \in Sockets, ActivateScope(g)
  PROVE  ChannelInv'
  BY ActivateEnablesKeepsInv, ActivateLeavesKeepsInv DEF ActivateScope

LEMMA SafeAckTakenKeepsInv ==
  ASSUME ChannelInv, NEW g \in Sockets, DeliverSafeAck(g), assigner.step = "waiting", assigner.socket = g
  PROVE  ChannelInv'
<1>1. /\ ChannelTyped /\ LaserInv /\ SocketsOK /\ BoundOK /\ CutOK /\ OwnersOK
      /\ UnsentOK /\ SentOnce /\ BlackoutOK /\ AssignerOK /\ HandshakeOK
      /\ ActivationsOK /\ SendsOK /\ ScopeOK /\ WireOK
      /\ UNCHANGED <<generation, assignment, row, current, scope, bound, open,
                    handler, replaced, cut, dispatch, arm, logical, pulse, flash,
                    stored, journal, output, emergency, down, link>>
      /\ UNCHANGED laserVars
  BY DEF ChannelInv, DeliverSafeAck, laserVars
<1>2. /\ up[g] # <<>> /\ Consume(g) /\ g \in open /\ 1 \in Positions(up[g], "safe")
      /\ handler[g] = "serving"
  BY <1>1, ArrivedMoves DEF DeliverSafeAck
<1>3. /\ up' \in [Sockets -> Seq(UpMessages)]
      /\ \A h \in Sockets : h # g => up'[h] = up[h]
      /\ \A kind : \A i \in Positions(up'[g], kind) :
           /\ i \in Nat /\ i >= 1 /\ i + 1 \in Positions(up[g], kind)
           /\ up'[g][i] = up[g][i + 1]
  BY <1>1, <1>2, ConsumeMoves
<1>4. \A c \in Commands : (Unseen(c) => Unseen(c)') /\ (Confirmed(c)' => Confirmed(c))
  BY <1>1, <1>3, LessToRead
<1>5. /\ assigner'.step = "answered" /\ assigner'.socket = g
      /\ assigner' \in [step : {"idle", "reserved", "waiting", "answered"},
                       socket : Sockets \cup {NoSocket}, target : Snapshots \cup {NoSnapshot}]
  BY <1>1 DEF DeliverSafeAck, ChannelTyped, TypeOK
<1>6. assigner # Idle
  BY DEF Idle
<1>7. /\ Outstanding' = Outstanding
      /\ Dark' <=> Dark
      /\ Pulsing' <=> Pulsing
  BY <1>1 DEF Outstanding, Dark, Pulsing
<1>8. LaserInv'
  BY <1>1, LaserInvStays
<1>9. ChannelTyped'
  BY <1>1, <1>3, <1>5, <1>8 DEF LaserInv, ChannelTyped, TypeOK
<1>10. SocketsOK'
  BY <1>1, <1>2, <1>3 DEF SocketsOK
<1>11. UnsentOK'
  BY <1>1, <1>4 DEF UnsentOK
<1>12. SentOnce'
  <2>1. link # NoSocket =>
          \A i \in Positions(down'[link], "execute") :
            /\ i \in Nat /\ i + 0 \in Positions(down[link], "execute")
            /\ down'[link][i] = down[link][i + 0] /\ down'[link][i].about \in Commands
    BY <1>1, WireTypes DEF Positions
  <2> QED
    BY <1>1, <1>4, <2>1, SentKept
<1>13. BlackoutOK'
  BY <1>1, <1>4, <1>7 DEF BlackoutOK
<1>14. AssignerOK'
  BY <1>1, <1>5, <1>6 DEF AssignerOK
<1>15. HandshakeOK'
  <2>1. ASSUME NEW h \in open, h # g, h \in Sockets, Handshake(h)
        PROVE  Handshake(h)'
    <3>1. Positions(up[h], "safe") = {} /\ Positions(down[h], "prepare") = {}
      BY <2>1 DEF Handshake
    <3>2. assigner'.socket # h /\ up'[h] = up[h]
      BY <1>3, <1>5, <2>1
    <3> QED
      BY <1>1, <3>1, <3>2 DEF Handshake
  <2>2. Handshake(g)'
    <3>1. Handshake(g)
      BY <1>1, <1>2 DEF HandshakeOK
    <3>2. Positions(down[g], "prepare") = {}
      BY <1>2, <3>1 DEF Handshake
    <3>3. Positions(up'[g], "safe") = {}
      <4>1. ASSUME NEW i \in Positions(up'[g], "safe") PROVE FALSE
        <5>1. i \in Nat /\ i >= 1 /\ i + 1 \in Positions(up[g], "safe")
          BY <1>3
        <5>2. i + 1 = 1
          BY <1>2, <3>1, <5>1 DEF Handshake
        <5> QED
          BY <5>1, <5>2
      <4> QED
        BY <4>1
    <3>4. g = current => Dark /\ (link # NoSocket => Positions(down[link], "execute") = {})
      BY <1>2, <3>1 DEF Handshake
    <3> QED
      BY <1>1, <1>7, <3>2, <3>3, <3>4 DEF Handshake
  <2> QED
    BY <1>1, <2>1, <2>2 DEF HandshakeOK, ChannelTyped, TypeOK
<1>16. ActivationsOK'
  BY <1>1, <1>2, <1>3 DEF ActivationsOK
<1> QED
  BY <1>1, <1>8, <1>9, <1>10, <1>11, <1>12, <1>13, <1>14, <1>15, <1>16, BoundOKStays,
     CutOKStays, OwnersOKStays, SendsOKStays, ScopeOKStays, WireOKStays DEF ChannelInv

LEMMA SafeAckRefusedKeepsInv ==
  ASSUME ChannelInv, NEW g \in Sockets, DeliverSafeAck(g), ~(assigner.step = "waiting" /\ assigner.socket = g)
  PROVE  ChannelInv'
<1>1. /\ ChannelTyped /\ LaserInv /\ SocketsOK /\ BoundOK /\ CutOK /\ OwnersOK
      /\ UnsentOK /\ SentOnce /\ BlackoutOK /\ AssignerOK /\ HandshakeOK
      /\ ActivationsOK /\ SendsOK /\ ScopeOK /\ WireOK
      /\ UNCHANGED <<generation, assignment, row, current, scope, bound, assigner,
                    open, replaced, cut, dispatch, arm, logical, pulse, flash,
                    stored, journal, output, emergency, down, link>>
      /\ UNCHANGED laserVars
  BY DEF ChannelInv, DeliverSafeAck, laserVars
<1>2. /\ up[g] # <<>> /\ Consume(g) /\ handler[g] = "serving"
  BY <1>1, ArrivedMoves DEF DeliverSafeAck
<1>3. /\ up' \in [Sockets -> Seq(UpMessages)]
      /\ \A h \in Sockets : h # g => up'[h] = up[h]
      /\ \A kind : \A i \in Positions(up'[g], kind) :
           /\ i \in Nat /\ i >= 1 /\ i + 1 \in Positions(up[g], kind)
           /\ up'[g][i] = up[g][i + 1]
  BY <1>1, <1>2, ConsumeMoves
<1>4. \A c \in Commands : (Unseen(c) => Unseen(c)') /\ (Confirmed(c)' => Confirmed(c))
  BY <1>1, <1>3, LessToRead
<1>5. /\ handler' \in [Sockets -> HandlerSteps] /\ handler'[g] = "leaving"
      /\ \A h \in Sockets : h # g => handler'[h] = handler[h]
  BY <1>1, BecomeMoves DEF HandlerSteps, DeliverSafeAck
<1>6. /\ Outstanding' = Outstanding
      /\ Dark' <=> Dark
      /\ Pulsing' <=> Pulsing
  BY <1>1 DEF Outstanding, Dark, Pulsing
<1>7. LaserInv'
  BY <1>1, LaserInvStays
<1>8. ChannelTyped'
  BY <1>1, <1>3, <1>5, <1>7 DEF LaserInv, ChannelTyped, TypeOK
<1>9. SocketsOK'
  BY <1>1, <1>2, <1>3, <1>5, SocketsKept DEF Live
<1>10. BoundOK'
  BY <1>1, <1>5, WireTypes DEF BoundOK, Live
<1>11. CutOK'
  BY <1>1, <1>2, <1>5 DEF CutOK
<1>12. UnsentOK'
  BY <1>1, <1>4 DEF UnsentOK
<1>13. SentOnce'
  <2>1. link # NoSocket =>
          \A i \in Positions(down'[link], "execute") :
            /\ i \in Nat /\ i + 0 \in Positions(down[link], "execute")
            /\ down'[link][i] = down[link][i + 0] /\ down'[link][i].about \in Commands
    BY <1>1, WireTypes DEF Positions
  <2> QED
    BY <1>1, <1>4, <2>1, SentKept
<1>14. BlackoutOK'
  BY <1>1, <1>4, <1>6 DEF BlackoutOK
<1>15. HandshakeOK'
  <2> DEFINE zero == [h \in Sockets |-> 0]
             first == [h \in Sockets |-> IF h = g THEN 1 ELSE 0]
  <2>1. /\ zero \in [Sockets -> Nat] /\ \A h \in Sockets : zero[h] = 0
        /\ first \in [Sockets -> Nat] /\ \A h \in Sockets : first[h] = IF h = g THEN 1 ELSE 0
    OBVIOUS
  <2> HIDE DEF zero, first
  <2>2. \A h \in Sockets : \A kind \in {"prepare", "execute"} : \A i \in Positions(down'[h], kind) :
          i \in Nat /\ i + zero[h] \in Positions(down[h], kind)
    BY <1>1, <2>1 DEF Positions
  <2>3. \A h \in Sockets : \A i \in Positions(up'[h], "safe") :
          i \in Nat /\ i + first[h] \in Positions(up[h], "safe")
    <3>1. ASSUME NEW h \in Sockets, h # g, NEW i \in Positions(up[h], "safe")
          PROVE  i \in Nat /\ i + first[h] = i
      BY <2>1, <3>1 DEF Positions
    <3>2. ASSUME NEW i \in Positions(up'[g], "safe")
          PROVE  i \in Nat /\ i + first[g] \in Positions(up[g], "safe")
      BY <1>3, <2>1, <3>2
    <3>3. \A h \in Sockets : h # g => up'[h] = up[h]
      BY <1>3
    <3> QED
      BY <3>1, <3>2, <3>3
  <2> QED
    BY <1>1, <1>6, <2>1, <2>2, <2>3, HandshakeKept
<1>16. ActivationsOK'
  BY <1>1, <1>3, <1>5 DEF ActivationsOK
<1> QED
  BY <1>1, <1>7, <1>8, <1>9, <1>10, <1>11, <1>12, <1>13, <1>14, <1>15, <1>16,
     OwnersOKStays, AssignerOKStays, SendsOKStays, ScopeOKStays, WireOKStays DEF
     ChannelInv

LEMMA DeliverSafeAckKeepsInv ==
  ASSUME ChannelInv, NEW g \in Sockets, DeliverSafeAck(g)
  PROVE  ChannelInv'
  BY SafeAckTakenKeepsInv, SafeAckRefusedKeepsInv

LEMMA ResultEndsKeepsInv ==
  ASSUME ChannelInv, NEW g \in Sockets, NEW c \in Commands, NEW status \in Results, status # "ACCEPTED",
         ReadResult(g), current = g, scope[g] # Nothing, bound[c] = g,
         Head(up[g]).about = [command |-> c, status |-> status],
         Complete({c}, Ended(status)), bound' = [bound EXCEPT ![c] = NoSocket],
         UNCHANGED handler
  PROVE  ChannelInv'
<1>1. /\ ChannelTyped /\ LaserInv /\ SocketsOK /\ BoundOK /\ CutOK /\ OwnersOK
      /\ UnsentOK /\ SentOnce /\ BlackoutOK /\ AssignerOK /\ HandshakeOK
      /\ ActivationsOK /\ SendsOK /\ ScopeOK /\ WireOK
      /\ UNCHANGED <<generation, assignment, current, scope, assigner, open,
                    handler, replaced, cut, dispatch, arm, logical, pulse, flash,
                    stored, journal, output, emergency, down, link>>
      /\ UNCHANGED laserVars
  BY DEF ChannelInv, ReadResult, laserVars
<1>2. /\ up[g] # <<>> /\ Consume(g) /\ g \in open /\ handler[g] = "serving"
      /\ 1 \in Positions(up[g], "result") /\ Head(up[g]) = up[g][1]
  BY <1>1, ArrivedMoves DEF ReadResult
<1>3. /\ up' \in [Sockets -> Seq(UpMessages)]
      /\ \A h \in Sockets : h # g => up'[h] = up[h]
      /\ \A kind : \A i \in Positions(up'[g], kind) :
           /\ i \in Nat /\ i >= 1 /\ i + 1 \in Positions(up[g], kind)
           /\ up'[g][i] = up[g][i + 1]
  BY <1>1, <1>2, ConsumeMoves
<1>4. /\ row' \in [Commands -> [status : Statuses, snapshot : Snapshots \cup {NoSnapshot}]]
      /\ Outstanding' = Outstanding \ {c}
      /\ \A d \in Commands : row'[d].snapshot = row[d].snapshot
      /\ \A d \in Commands : row'[d].status = row[d].status \/ (d = c /\ row'[d].status = Ended(status))
  BY <1>1, CompleteMoves DEF Statuses, Ended
<1>5. \A d \in Commands : row'[d].status = "COMPLETED" =>
        \/ row[d].status = "COMPLETED"
        \/ \E i \in Positions(up[g], "result") :
             up[g][i].about = [command |-> d, status |-> "COMPLETED"]
  <2>1. Ended(status) = "COMPLETED" => up[g][1].about = [command |-> c, status |-> "COMPLETED"]
    BY <1>2 DEF Ended
  <2> QED
    BY <1>2, <1>4, <2>1
<1>6. \A d \in Commands : (Unseen(d) => Unseen(d)') /\ (Confirmed(d)' => Confirmed(d))
  <2>1. PICK n \in Nat : \A i \in Positions(up'[g], "result") :
          i + n \in Positions(up[g], "result") /\ up'[g][i] = up[g][i + n]
    BY <1>3
  <2>2. \A h \in Sockets : h # g => up'[h] = up[h]
    BY <1>3
  <2> QED
    BY <1>1, <1>5, <2>1, <2>2, LessToRead
<1>7. /\ bound' \in [Commands -> Sockets \cup {NoSocket}] /\ bound'[c] = NoSocket
      /\ \A d \in Commands : d # c => bound'[d] = bound[d]
  BY <1>1 DEF ChannelTyped, TypeOK
<1>8. dispatch[c].step \notin {"idle", "created", "send"}
  <2>1. \A about : about = [command |-> c, status |-> status] => about.command = c
    OBVIOUS
  <2>2. ~Unseen(c)
    BY <1>2, <2>1 DEF Unseen
  <2> QED
    BY <1>1, <2>2 DEF UnsentOK
<1>9. (Dark' <=> Dark) /\ (Pulsing' <=> Pulsing)
  BY <1>1 DEF Dark, Pulsing
<1>10. LaserInv'
  BY <1>1, LaserInvStays
<1>11. ChannelTyped'
  BY <1>1, <1>3, <1>4, <1>10 DEF LaserInv, ChannelTyped, TypeOK
<1>12. SocketsOK'
  BY <1>1, <1>3 DEF SocketsOK
<1>13. BoundOK'
  BY <1>1 DEF BoundOK
<1>14. CutOK'
  BY <1>1 DEF CutOK
<1>15. OwnersOK'
  BY <1>1, <1>4, <1>8 DEF OwnersOK
<1>16. UnsentOK'
  BY <1>1, <1>6 DEF UnsentOK
<1>17. SentOnce'
  <2>1. link # NoSocket =>
          \A i \in Positions(down'[link], "execute") :
            /\ i \in Nat /\ i + 0 \in Positions(down[link], "execute")
            /\ down'[link][i] = down[link][i + 0] /\ down'[link][i].about \in Commands
    BY <1>1, WireTypes DEF Positions
  <2> QED
    BY <1>1, <1>6, <2>1, SentKept
<1>18. BlackoutOK'
  BY <1>1, <1>6, <1>9 DEF BlackoutOK
<1>19. HandshakeOK'
  <2> DEFINE zero == [h \in Sockets |-> 0]
             first == [h \in Sockets |-> IF h = g THEN 1 ELSE 0]
  <2>1. /\ zero \in [Sockets -> Nat] /\ \A h \in Sockets : zero[h] = 0
        /\ first \in [Sockets -> Nat] /\ \A h \in Sockets : first[h] = IF h = g THEN 1 ELSE 0
    OBVIOUS
  <2> HIDE DEF zero, first
  <2>2. \A h \in Sockets : \A kind \in {"prepare", "execute"} : \A i \in Positions(down'[h], kind) :
          i \in Nat /\ i + zero[h] \in Positions(down[h], kind)
    BY <1>1, <2>1 DEF Positions
  <2>3. \A h \in Sockets : \A i \in Positions(up'[h], "safe") :
          i \in Nat /\ i + first[h] \in Positions(up[h], "safe")
    <3>1. ASSUME NEW h \in Sockets, h # g, NEW i \in Positions(up[h], "safe")
          PROVE  i \in Nat /\ i + first[h] = i
      BY <2>1, <3>1 DEF Positions
    <3>2. ASSUME NEW i \in Positions(up'[g], "safe")
          PROVE  i \in Nat /\ i + first[g] \in Positions(up[g], "safe")
      BY <1>3, <2>1, <3>2
    <3>3. \A h \in Sockets : h # g => up'[h] = up[h]
      BY <1>3
    <3> QED
      BY <3>1, <3>2, <3>3
  <2> QED
    BY <1>1, <1>9, <2>1, <2>2, <2>3, HandshakeKept
<1>20. ActivationsOK'
  BY <1>1, <1>2, <1>3 DEF ActivationsOK
<1>21. SendsOK'
  BY <1>1, <1>4 DEF SendsOK
<1>22. WireOK'
  <2>1. ASSUME link # NoSocket, NEW i \in Positions(down[link], "execute"), NEW d \in Commands, d = down[link][i].about
        PROVE  row'[d].snapshot = assignment.snapshot
    BY <1>1, <1>4, <2>1 DEF WireOK
  <2> QED
    BY <1>1, <2>1, WireTypes DEF WireOK
<1> QED
  BY <1>1, <1>10, <1>11, <1>12, <1>13, <1>14, <1>15, <1>16, <1>17, <1>18, <1>19, <1>20,
     <1>21, <1>22, AssignerOKStays, ScopeOKStays DEF ChannelInv

LEMMA ResultAloneKeepsInv ==
  ASSUME ChannelInv, NEW g \in Sockets, ReadResult(g), UNCHANGED <<row, bound, handler>>
  PROVE  ChannelInv'
<1>1. /\ ChannelTyped /\ LaserInv /\ SocketsOK /\ BoundOK /\ CutOK /\ OwnersOK
      /\ UnsentOK /\ SentOnce /\ BlackoutOK /\ AssignerOK /\ HandshakeOK
      /\ ActivationsOK /\ SendsOK /\ ScopeOK /\ WireOK
      /\ UNCHANGED <<generation, assignment, row, current, scope, bound, assigner,
                    open, handler, replaced, cut, dispatch, arm, logical, pulse,
                    flash, stored, journal, output, emergency, down, link>>
      /\ UNCHANGED laserVars
  BY DEF ChannelInv, ReadResult, laserVars
<1>2. /\ up[g] # <<>> /\ Consume(g) /\ handler[g] = "serving"
  BY <1>1, ArrivedMoves DEF ReadResult
<1>3. /\ up' \in [Sockets -> Seq(UpMessages)]
      /\ \A h \in Sockets : h # g => up'[h] = up[h]
      /\ \A kind : \A i \in Positions(up'[g], kind) :
           /\ i \in Nat /\ i >= 1 /\ i + 1 \in Positions(up[g], kind)
           /\ up'[g][i] = up[g][i + 1]
  BY <1>1, <1>2, ConsumeMoves
<1>4. \A c \in Commands : (Unseen(c) => Unseen(c)') /\ (Confirmed(c)' => Confirmed(c))
  BY <1>1, <1>3, LessToRead
<1>5. /\ Outstanding' = Outstanding
      /\ Dark' <=> Dark
      /\ Pulsing' <=> Pulsing
  BY <1>1 DEF Outstanding, Dark, Pulsing
<1>6. LaserInv'
  BY <1>1, LaserInvStays
<1>7. ChannelTyped'
  BY <1>1, <1>3, <1>6 DEF LaserInv, ChannelTyped, TypeOK
<1>8. SocketsOK'
  BY <1>1, <1>2, <1>3 DEF SocketsOK
<1>9. UnsentOK'
  BY <1>1, <1>4 DEF UnsentOK
<1>10. SentOnce'
  <2>1. link # NoSocket =>
          \A i \in Positions(down'[link], "execute") :
            /\ i \in Nat /\ i + 0 \in Positions(down[link], "execute")
            /\ down'[link][i] = down[link][i + 0] /\ down'[link][i].about \in Commands
    BY <1>1, WireTypes DEF Positions
  <2> QED
    BY <1>1, <1>4, <2>1, SentKept
<1>11. BlackoutOK'
  BY <1>1, <1>4, <1>5 DEF BlackoutOK
<1>12. HandshakeOK'
  <2> DEFINE zero == [h \in Sockets |-> 0]
             first == [h \in Sockets |-> IF h = g THEN 1 ELSE 0]
  <2>1. /\ zero \in [Sockets -> Nat] /\ \A h \in Sockets : zero[h] = 0
        /\ first \in [Sockets -> Nat] /\ \A h \in Sockets : first[h] = IF h = g THEN 1 ELSE 0
    OBVIOUS
  <2> HIDE DEF zero, first
  <2>2. \A h \in Sockets : \A kind \in {"prepare", "execute"} : \A i \in Positions(down'[h], kind) :
          i \in Nat /\ i + zero[h] \in Positions(down[h], kind)
    BY <1>1, <2>1 DEF Positions
  <2>3. \A h \in Sockets : \A i \in Positions(up'[h], "safe") :
          i \in Nat /\ i + first[h] \in Positions(up[h], "safe")
    <3>1. ASSUME NEW h \in Sockets, h # g, NEW i \in Positions(up[h], "safe")
          PROVE  i \in Nat /\ i + first[h] = i
      BY <2>1, <3>1 DEF Positions
    <3>2. ASSUME NEW i \in Positions(up'[g], "safe")
          PROVE  i \in Nat /\ i + first[g] \in Positions(up[g], "safe")
      BY <1>3, <2>1, <3>2
    <3>3. \A h \in Sockets : h # g => up'[h] = up[h]
      BY <1>3
    <3> QED
      BY <3>1, <3>2, <3>3
  <2> QED
    BY <1>1, <1>5, <2>1, <2>2, <2>3, HandshakeKept
<1>13. ActivationsOK'
  BY <1>1, <1>2, <1>3 DEF ActivationsOK
<1> QED
  BY <1>1, <1>6, <1>7, <1>8, <1>9, <1>10, <1>11, <1>12, <1>13, BoundOKStays, CutOKStays,
     OwnersOKStays, AssignerOKStays, SendsOKStays, ScopeOKStays, WireOKStays DEF
     ChannelInv

LEMMA ResultRefusedKeepsInv ==
  ASSUME ChannelInv, NEW g \in Sockets, ReadResult(g), Become(g, "leaving"), UNCHANGED <<row, bound>>
  PROVE  ChannelInv'
<1>1. /\ ChannelTyped /\ LaserInv /\ SocketsOK /\ BoundOK /\ CutOK /\ OwnersOK
      /\ UnsentOK /\ SentOnce /\ BlackoutOK /\ AssignerOK /\ HandshakeOK
      /\ ActivationsOK /\ SendsOK /\ ScopeOK /\ WireOK
      /\ UNCHANGED <<generation, assignment, row, current, scope, bound, assigner,
                    open, replaced, cut, dispatch, arm, logical, pulse, flash,
                    stored, journal, output, emergency, down, link>>
      /\ UNCHANGED laserVars
  BY DEF ChannelInv, ReadResult, laserVars
<1>2. /\ up[g] # <<>> /\ Consume(g) /\ handler[g] = "serving"
  BY <1>1, ArrivedMoves DEF ReadResult
<1>3. /\ up' \in [Sockets -> Seq(UpMessages)]
      /\ \A h \in Sockets : h # g => up'[h] = up[h]
      /\ \A kind : \A i \in Positions(up'[g], kind) :
           /\ i \in Nat /\ i >= 1 /\ i + 1 \in Positions(up[g], kind)
           /\ up'[g][i] = up[g][i + 1]
  BY <1>1, <1>2, ConsumeMoves
<1>4. \A c \in Commands : (Unseen(c) => Unseen(c)') /\ (Confirmed(c)' => Confirmed(c))
  BY <1>1, <1>3, LessToRead
<1>5. /\ handler' \in [Sockets -> HandlerSteps] /\ handler'[g] = "leaving"
      /\ \A h \in Sockets : h # g => handler'[h] = handler[h]
  BY <1>1, BecomeMoves DEF HandlerSteps
<1>6. /\ Outstanding' = Outstanding
      /\ Dark' <=> Dark
      /\ Pulsing' <=> Pulsing
  BY <1>1 DEF Outstanding, Dark, Pulsing
<1>7. LaserInv'
  BY <1>1, LaserInvStays
<1>8. ChannelTyped'
  BY <1>1, <1>3, <1>5, <1>7 DEF LaserInv, ChannelTyped, TypeOK
<1>9. SocketsOK'
  BY <1>1, <1>2, <1>3, <1>5, SocketsKept DEF Live
<1>10. BoundOK'
  BY <1>1, <1>5, WireTypes DEF BoundOK, Live
<1>11. CutOK'
  BY <1>1, <1>2, <1>5 DEF CutOK
<1>12. UnsentOK'
  BY <1>1, <1>4 DEF UnsentOK
<1>13. SentOnce'
  <2>1. link # NoSocket =>
          \A i \in Positions(down'[link], "execute") :
            /\ i \in Nat /\ i + 0 \in Positions(down[link], "execute")
            /\ down'[link][i] = down[link][i + 0] /\ down'[link][i].about \in Commands
    BY <1>1, WireTypes DEF Positions
  <2> QED
    BY <1>1, <1>4, <2>1, SentKept
<1>14. BlackoutOK'
  BY <1>1, <1>4, <1>6 DEF BlackoutOK
<1>15. HandshakeOK'
  <2> DEFINE zero == [h \in Sockets |-> 0]
             first == [h \in Sockets |-> IF h = g THEN 1 ELSE 0]
  <2>1. /\ zero \in [Sockets -> Nat] /\ \A h \in Sockets : zero[h] = 0
        /\ first \in [Sockets -> Nat] /\ \A h \in Sockets : first[h] = IF h = g THEN 1 ELSE 0
    OBVIOUS
  <2> HIDE DEF zero, first
  <2>2. \A h \in Sockets : \A kind \in {"prepare", "execute"} : \A i \in Positions(down'[h], kind) :
          i \in Nat /\ i + zero[h] \in Positions(down[h], kind)
    BY <1>1, <2>1 DEF Positions
  <2>3. \A h \in Sockets : \A i \in Positions(up'[h], "safe") :
          i \in Nat /\ i + first[h] \in Positions(up[h], "safe")
    <3>1. ASSUME NEW h \in Sockets, h # g, NEW i \in Positions(up[h], "safe")
          PROVE  i \in Nat /\ i + first[h] = i
      BY <2>1, <3>1 DEF Positions
    <3>2. ASSUME NEW i \in Positions(up'[g], "safe")
          PROVE  i \in Nat /\ i + first[g] \in Positions(up[g], "safe")
      BY <1>3, <2>1, <3>2
    <3>3. \A h \in Sockets : h # g => up'[h] = up[h]
      BY <1>3
    <3> QED
      BY <3>1, <3>2, <3>3
  <2> QED
    BY <1>1, <1>6, <2>1, <2>2, <2>3, HandshakeKept
<1>16. ActivationsOK'
  BY <1>1, <1>3, <1>5 DEF ActivationsOK
<1> QED
  BY <1>1, <1>7, <1>8, <1>9, <1>10, <1>11, <1>12, <1>13, <1>14, <1>15, <1>16,
     OwnersOKStays, AssignerOKStays, SendsOKStays, ScopeOKStays, WireOKStays DEF
     ChannelInv

LEMMA ReadResultKeepsInv ==
  ASSUME ChannelInv, NEW g \in Sockets, ReadResult(g)
  PROVE  ChannelInv'
<1>1. CASE ~(current = g /\ scope[g] # Nothing)
  BY <1>1, ResultRefusedKeepsInv DEF ReadResult
<1>2. CASE current = g /\ scope[g] # Nothing
  <2>1. Arrived(g, "result")
    BY DEF ReadResult
  <2>2. Head(up[g]).about \in [command : Commands, status : Results]
    BY <2>1, ArrivedMoves DEF ChannelInv
  <2>3. PICK c \in Commands, status \in Results :
          Head(up[g]).about = [command |-> c, status |-> status]
    BY <2>2
  <2>4. Head(up[g]).about.command = c /\ Head(up[g]).about.status = status
    BY <2>3
  <2>5. CASE bound[c] = g /\ status # "ACCEPTED"
    BY <1>2, <2>3, <2>4, <2>5, ResultEndsKeepsInv DEF ReadResult
  <2>6. CASE ~(bound[c] = g /\ status # "ACCEPTED")
    <3>1. /\ Complete({}, Ended(status)) /\ bound' = bound /\ handler' = handler
      BY <1>2, <2>4, <2>6 DEF ReadResult
    <3>2. row' = row
      BY <3>1 DEF Complete, ChannelInv, ChannelTyped, TypeOK
    <3> QED
      BY <3>1, <3>2, ResultAloneKeepsInv
  <2> QED
    BY <2>5, <2>6
<1> QED
  BY <1>1, <1>2

LEMMA CloseSocketKeepsInv ==
  ASSUME ChannelInv, NEW g \in Sockets, CloseSocket(g)
  PROVE  ChannelInv'
<1>1. /\ ChannelTyped /\ LaserInv /\ SocketsOK /\ BoundOK /\ CutOK /\ OwnersOK
      /\ UnsentOK /\ SentOnce /\ BlackoutOK /\ AssignerOK /\ HandshakeOK
      /\ ActivationsOK /\ SendsOK /\ ScopeOK /\ WireOK
      /\ UNCHANGED <<generation, assignment, row, current, scope, bound, assigner,
                    handler, replaced, cut, dispatch, arm, logical, pulse, flash,
                    stored, journal, output, emergency, down, up, link>>
      /\ UNCHANGED laserVars
  BY DEF ChannelInv, CloseSocket, laserVars
<1>2. open' \subseteq open
  BY DEF CloseSocket
<1>3. /\ Outstanding' = Outstanding
      /\ Dark' <=> Dark
      /\ Pulsing' <=> Pulsing
  BY <1>1 DEF Outstanding, Dark, Pulsing
<1>4. LaserInv'
  BY <1>1, LaserInvStays
<1>5. ChannelTyped'
  BY <1>1, <1>2, <1>4 DEF LaserInv, ChannelTyped, TypeOK
<1>6. SocketsOK'
  BY <1>1, <1>2 DEF SocketsOK
<1>7. OwnersOK'
  BY <1>1, <1>2, <1>3 DEF OwnersOK
<1>8. AssignerOK'
  BY <1>1, <1>2 DEF AssignerOK
<1>9. HandshakeOK'
  BY <1>1, <1>2, HandshakeShrinks
<1>10. ActivationsOK'
  BY <1>1, <1>2 DEF ActivationsOK
<1>11. SendsOK'
  BY <1>1, <1>2 DEF SendsOK
<1>12. ScopeOK'
  BY <1>1, <1>2 DEF ScopeOK
<1> QED
  BY <1>1, <1>4, <1>5, <1>6, <1>7, <1>8, <1>9, <1>10, <1>11, <1>12, BoundOKStays,
     CutOKStays, UnsentOKStays, SentOnceStays, BlackoutOKStays, WireOKStays DEF
     ChannelInv

LEMMA LeaveKeepsInv ==
  ASSUME ChannelInv, NEW g \in Sockets, Leave(g)
  PROVE  ChannelInv'
<1>1. /\ ChannelTyped /\ LaserInv /\ SocketsOK /\ BoundOK /\ CutOK /\ OwnersOK
      /\ UnsentOK /\ SentOnce /\ BlackoutOK /\ AssignerOK /\ HandshakeOK
      /\ ActivationsOK /\ SendsOK /\ ScopeOK /\ WireOK
      /\ UNCHANGED <<generation, assignment, row, current, scope, bound, assigner,
                    open, replaced, cut, dispatch, arm, logical, pulse, flash,
                    stored, journal, output, emergency, down, up, link>>
      /\ UNCHANGED laserVars
  BY DEF ChannelInv, Leave, laserVars
<1>2. /\ handler' \in [Sockets -> HandlerSteps] /\ handler'[g] = "leaving"
      /\ \A h \in Sockets : h # g => handler'[h] = handler[h]
  BY <1>1, BecomeMoves DEF HandlerSteps, Leave
<1>3. handler[g] = "serving"
  BY DEF Leave
<1>4. /\ Outstanding' = Outstanding
      /\ Dark' <=> Dark
      /\ Pulsing' <=> Pulsing
  BY <1>1 DEF Outstanding, Dark, Pulsing
<1>5. LaserInv'
  BY <1>1, LaserInvStays
<1>6. ChannelTyped'
  BY <1>1, <1>2, <1>5 DEF LaserInv, ChannelTyped, TypeOK
<1>7. SocketsOK'
  BY <1>1, <1>2, <1>3, SocketsKept DEF Live
<1>8. BoundOK'
  BY <1>1, <1>2, WireTypes DEF BoundOK, Live
<1>9. CutOK'
  BY <1>1, <1>2, <1>3 DEF CutOK
<1>10. ActivationsOK'
  BY <1>1, <1>2 DEF ActivationsOK
<1> QED
  BY <1>1, <1>5, <1>6, <1>7, <1>8, <1>9, <1>10, OwnersOKStays, UnsentOKStays,
     SentOnceStays, BlackoutOKStays, AssignerOKStays, HandshakeOKStays, SendsOKStays,
     ScopeOKStays, WireOKStays DEF ChannelInv

LEMMA UnregisterKeepsInv ==
  ASSUME ChannelInv, NEW g \in Sockets, Unregister(g)
  PROVE  ChannelInv'
<1>1. /\ ChannelTyped /\ LaserInv /\ SocketsOK /\ BoundOK /\ CutOK /\ OwnersOK
      /\ UnsentOK /\ SentOnce /\ BlackoutOK /\ AssignerOK /\ HandshakeOK
      /\ ActivationsOK /\ SendsOK /\ ScopeOK /\ WireOK
      /\ UNCHANGED <<generation, assignment, row, assigner, replaced, dispatch,
                    arm, logical, pulse, flash, stored, journal, output,
                    emergency, down, link>>
      /\ UNCHANGED laserVars
  BY DEF ChannelInv, Unregister, laserVars
<1>2. /\ handler' \in [Sockets -> HandlerSteps] /\ handler'[g] = "unregistered"
      /\ \A h \in Sockets : h # g => handler'[h] = handler[h]
  BY <1>1, BecomeMoves DEF HandlerSteps, Unregister
<1>3. /\ handler[g] = "leaving" /\ open' = open \ {g} /\ open' \subseteq open
      /\ current' = IF current = g THEN NoSocket ELSE current
      /\ cut' \in [Sockets -> SUBSET Commands]
      /\ \A c \in Commands : c \in cut'[g] <=> bound[c] = g
      /\ \A h \in Sockets : h # g => cut'[h] = cut[h]
      /\ bound' \in [Commands -> Sockets \cup {NoSocket}]
      /\ \A c \in Commands : bound'[c] = IF bound[c] = g THEN NoSocket ELSE bound[c]
      /\ g # NoSocket /\ NoSocket \notin open
  BY <1>1 DEF Unregister, ChannelTyped, TypeOK, Sockets, NoSocket
<1>4. /\ up' \in [Sockets -> Seq(UpMessages)] /\ up'[g] = <<>>
      /\ \A h \in Sockets : h # g => up'[h] = up[h] /\ scope'[h] = scope[h]
      /\ scope' \in [Sockets -> Scopes] /\ scope'[g] = Nothing
  BY <1>1, DeviceChannelAssumption DEF Unregister, ChannelTyped, TypeOK, Nothing, Scopes
<1>5. \A kind : Positions(up'[g], kind) = {}
  BY <1>4, EmptyWire
<1>6. \A d \in Commands : (Unseen(d) => Unseen(d)') /\ (Confirmed(d)' => Confirmed(d))
  <2>1. \A i \in Positions(up'[g], "result") :
          i + 0 \in Positions(up[g], "result") /\ up'[g][i] = up[g][i + 0]
    BY <1>5
  <2> QED
    BY <1>1, <1>4, <2>1, LessToRead
<1>7. /\ Outstanding' = Outstanding
      /\ Dark' <=> Dark
      /\ Pulsing' <=> Pulsing
  BY <1>1 DEF Outstanding, Dark, Pulsing
<1>8. LaserInv'
  BY <1>1, LaserInvStays
<1>9. ChannelTyped'
  BY <1>1, <1>2, <1>3, <1>4, <1>8 DEF LaserInv, ChannelTyped, TypeOK
<1>10. SocketsOK'
  <2>1. current' # NoSocket => current' = generation /\ handler'[current'] \in Live
    BY <1>1, <1>2, <1>3 DEF SocketsOK, ChannelTyped, TypeOK
  <2>2. \A h \in Sockets : h > generation =>
          handler'[h] = "none" /\ scope'[h] = Nothing /\ up'[h] = <<>>
    BY <1>1, <1>2, <1>3, <1>4 DEF SocketsOK
  <2> QED
    BY <1>1, <1>3, <2>1, <2>2 DEF SocketsOK
<1>11. BoundOK'
  BY <1>1, <1>2, <1>3 DEF BoundOK
<1>12. CutOK'
  <2>1. \A c \in cut'[g] : c \in Commands /\ bound[c] = g
    BY <1>3
  <2>2. \A c \in cut'[g] : bound'[c] = NoSocket /\ dispatch'[c].step \notin {"idle", "created"}
    BY <1>1, <1>3 DEF BoundOK
  <2>3. ASSUME NEW h \in Sockets, h # g, NEW c \in cut'[h]
        PROVE  /\ handler'[h] = "unregistered" /\ bound'[c] = NoSocket
               /\ dispatch'[c].step \notin {"idle", "created"}
    <3>1. c \in cut[h] /\ c \in Commands /\ handler'[h] = handler[h]
      BY <1>2, <1>3, <2>3
    <3>2. handler[h] = "unregistered" /\ bound[c] = NoSocket /\ dispatch[c].step \notin {"idle", "created"}
      BY <1>1, <3>1 DEF CutOK
    <3> QED
      BY <1>1, <1>3, <3>1, <3>2
  <2> QED
    BY <1>2, <2>2, <2>3 DEF CutOK
<1>13. OwnersOK'
  <2>1. \A c \in Commands : bound[c] # NoSocket => bound'[c] # NoSocket \/ c \in cut'[g]
    BY <1>3
  <2>2. \A h \in Sockets : \A c \in cut[h] : c \in cut'[h]
    <3>1. \A h \in Sockets : cut[h] # {} => h # g
      BY <1>1, <1>3 DEF CutOK
    <3> QED
      BY <1>3, <3>1
  <2>3. \A c \in Commands : bound[c] \in open' => bound'[c] = bound[c]
    BY <1>3
  <2> QED
    BY <1>1, <1>3, <1>7, <2>2 DEF OwnersOK
<1>14. UnsentOK'
  BY <1>1, <1>6 DEF UnsentOK
<1>15. SentOnce'
  <2>1. link # NoSocket =>
          \A i \in Positions(down'[link], "execute") :
            /\ i \in Nat /\ i + 0 \in Positions(down[link], "execute")
            /\ down'[link][i] = down[link][i + 0] /\ down'[link][i].about \in Commands
    BY <1>1, WireTypes DEF Positions
  <2> QED
    BY <1>1, <1>6, <2>1, SentKept
<1>16. BlackoutOK'
  BY <1>1, <1>6, <1>7 DEF BlackoutOK
<1>17. AssignerOK'
  BY <1>1, <1>3 DEF AssignerOK
<1>18. HandshakeOK'
  <2>1. ASSUME NEW h \in open, h # g, h \in Sockets, Handshake(h)
        PROVE  Handshake(h)'
    <3>1. up'[h] = up[h] /\ (h = current' => h = current)
      BY <1>3, <1>4, <2>1
    <3> QED
      BY <1>1, <1>7, <2>1, <3>1 DEF Handshake
  <2> QED
    BY <1>1, <1>3, <2>1 DEF HandshakeOK, ChannelTyped, TypeOK
<1>19. ActivationsOK'
  <2>1. ASSUME NEW h \in Sockets, handler'[h] = "activating"
        PROVE  h # g /\ handler[h] = "activating" /\ up'[h] = up[h] /\ (h = current' => h = current)
    <3>1. h # g
      BY <1>2, <2>1
    <3>2. h # NoSocket
      BY DEF Sockets, NoSocket
    <3> QED
      BY <1>2, <1>3, <1>4, <2>1, <3>2
  <2> QED
    BY <1>1, <1>3, <2>1 DEF ActivationsOK
<1>20. SendsOK'
  BY <1>1, <1>3 DEF SendsOK
<1>21. ScopeOK'
  <2>1. current' \in open' => current' = current /\ current # g /\ current \in open /\ current \in Sockets
    BY <1>1, <1>3 DEF ChannelTyped, TypeOK
  <2> QED
    BY <1>1, <1>4, <2>1 DEF ScopeOK
<1> QED
  BY <1>1, <1>8, <1>9, <1>10, <1>11, <1>12, <1>13, <1>14, <1>15, <1>16, <1>17, <1>18,
     <1>19, <1>20, <1>21, WireOKStays DEF ChannelInv

LEMMA FailInterruptedKeepsInv ==
  ASSUME ChannelInv, NEW g \in Sockets, FailInterrupted(g)
  PROVE  ChannelInv'
<1>1. /\ ChannelTyped /\ LaserInv /\ SocketsOK /\ BoundOK /\ CutOK /\ OwnersOK
      /\ UnsentOK /\ SentOnce /\ BlackoutOK /\ AssignerOK /\ HandshakeOK
      /\ ActivationsOK /\ SendsOK /\ ScopeOK /\ WireOK
      /\ UNCHANGED <<generation, assignment, current, scope, bound, assigner,
                    open, replaced, dispatch, arm, logical, pulse, flash, stored,
                    journal, output, emergency, down, up, link>>
      /\ UNCHANGED laserVars
  BY DEF ChannelInv, FailInterrupted, laserVars
<1>2. /\ handler' \in [Sockets -> HandlerSteps] /\ handler'[g] = "ended"
      /\ \A h \in Sockets : h # g => handler'[h] = handler[h]
  BY <1>1, BecomeMoves DEF HandlerSteps, FailInterrupted
<1>3. /\ handler[g] = "unregistered" /\ Complete(cut[g], "FAILED") /\ cut[g] \in SUBSET Commands
      /\ cut' \in [Sockets -> SUBSET Commands] /\ cut'[g] = {}
      /\ \A h \in Sockets : h # g => cut'[h] = cut[h]
  BY <1>1 DEF FailInterrupted, ChannelTyped, TypeOK
<1>4. /\ row' \in [Commands -> [status : Statuses, snapshot : Snapshots \cup {NoSnapshot}]]
      /\ Outstanding' = Outstanding \ cut[g]
      /\ \A d \in Commands : row'[d].snapshot = row[d].snapshot
      /\ \A d \in Commands : row'[d].status = row[d].status \/ row'[d].status = "FAILED"
  BY <1>1, <1>3, CompleteMoves DEF Statuses
<1>5. (Dark' <=> Dark) /\ (Pulsing' <=> Pulsing)
  BY <1>1 DEF Dark, Pulsing
<1>6. LaserInv'
  BY <1>1, LaserInvStays
<1>7. ChannelTyped'
  BY <1>1, <1>2, <1>3, <1>4, <1>6 DEF LaserInv, ChannelTyped, TypeOK
<1>8. SocketsOK'
  <2>1. current # g
    BY <1>1, <1>3 DEF SocketsOK, Live, Sockets, NoSocket
  <2>2. \A h \in Sockets : h > generation => h # g
    BY <1>1, <1>3 DEF SocketsOK
  <2>3. current # NoSocket => current \in Sockets
    BY <1>1 DEF ChannelTyped, TypeOK
  <2>4. current # NoSocket => handler'[current] \in Live
    BY <1>1, <1>2, <2>1, <2>3 DEF SocketsOK
  <2>5. \A h \in Sockets : h > generation => handler'[h] = "none"
    BY <1>1, <1>2, <2>2 DEF SocketsOK
  <2> QED
    BY <1>1, <2>4, <2>5 DEF SocketsOK
<1>9. BoundOK'
  BY <1>1, <1>2, <1>3, WireTypes DEF BoundOK, Live
<1>10. CutOK'
  BY <1>1, <1>2, <1>3 DEF CutOK
<1>11. OwnersOK'
  <2>1. \A c \in cut[g] : bound[c] = NoSocket /\ dispatch[c].step \notin {"idle", "created"}
    BY <1>1 DEF CutOK
  <2>2. \A c \in Commands : c \in Outstanding' <=> c \in Outstanding /\ c \notin cut[g]
    BY <1>4
  <2>3. \A c \in Commands : (\E h \in Sockets : c \in cut[h]) /\ c \notin cut[g] =>
          \E h \in Sockets : c \in cut'[h]
    BY <1>3
  <2>4. \A c \in Commands : dispatch[c].step = "send" /\ dispatch[c].socket \in open => c \notin cut[g]
    BY <1>1, <2>1 DEF OwnersOK, Sockets, NoSocket
  <2> QED
    BY <1>1, <2>1, <2>2, <2>3, <2>4 DEF OwnersOK
<1>12. UnsentOK'
  BY <1>1, <1>4 DEF UnsentOK, Unseen
<1>13. SentOnce'
  BY <1>1, <1>4, WireTypes DEF SentOnce, Unseen
<1>14. BlackoutOK'
  BY <1>1, <1>4, <1>5 DEF BlackoutOK, Confirmed
<1>15. ActivationsOK'
  BY <1>1, <1>2 DEF ActivationsOK
<1>16. SendsOK'
  BY <1>1, <1>4 DEF SendsOK
<1>17. WireOK'
  BY <1>1, <1>4, WireTypes DEF WireOK
<1> QED
  BY <1>1, <1>6, <1>7, <1>8, <1>9, <1>10, <1>11, <1>12, <1>13, <1>14, <1>15, <1>16,
     <1>17, AssignerOKStays, HandshakeOKStays, ScopeOKStays DEF ChannelInv

-----------------------------------------------------------------------------
(* The assignment.                                                         *)

LEMMA BeginAssignmentKeepsInv ==
  ASSUME ChannelInv, NEW target \in Snapshots, BeginAssignment(target)
  PROVE  ChannelInv'
<1>1. /\ ChannelTyped /\ LaserInv /\ SocketsOK /\ BoundOK /\ CutOK /\ OwnersOK
      /\ UnsentOK /\ SentOnce /\ BlackoutOK /\ AssignerOK /\ HandshakeOK
      /\ ActivationsOK /\ SendsOK /\ ScopeOK /\ WireOK
      /\ UNCHANGED <<generation, assignment, row, current, scope, bound, open,
                    handler, replaced, cut, dispatch, arm, logical, pulse, flash,
                    stored, journal, output, emergency, down, up, link>>
      /\ UNCHANGED laserVars
  BY DEF ChannelInv, BeginAssignment, laserVars
<1>2. /\ assigner = Idle /\ current \in open /\ Outstanding = {}
      /\ assigner'.step = "reserved" /\ assigner'.socket = current /\ assigner' \in [step : {"idle", "reserved", "waiting", "answered"},
                       socket : Sockets \cup {NoSocket}, target : Snapshots \cup {NoSnapshot}]
      /\ assignment.epoch < MaxEpoch
  BY DEF BeginAssignment, ChannelInv, ChannelTyped, TypeOK
<1>3. /\ assigner.step = "idle" /\ current \in Sockets /\ current = generation /\ generation \in Nat
  BY <1>1, <1>2 DEF Idle, SocketsOK, ChannelTyped, TypeOK, NoSocket, Sockets
<1>4. /\ Outstanding' = Outstanding
      /\ Dark' <=> Dark
      /\ Pulsing' <=> Pulsing
  BY <1>1 DEF Outstanding, Dark, Pulsing
<1>5. LaserInv'
  BY <1>1, LaserInvStays
<1>6. ChannelTyped'
  BY <1>1, <1>2, <1>5 DEF LaserInv, ChannelTyped, TypeOK
<1>7. AssignerOK'
  <2>1. \A c \in Commands : dispatch[c].step = "send" => dispatch[c].socket \notin open
    BY <1>1, <1>2 DEF OwnersOK
  <2>2. current <= generation
    BY <1>3
  <2> QED
    BY <1>1, <1>2, <1>3, <2>1 DEF AssignerOK
<1>8. HandshakeOK'
  <2>1. ASSUME NEW g \in open, Handshake(g)
        PROVE  Handshake(g)'
    BY <1>1, <1>2, <2>1 DEF Handshake, Idle
  <2> QED
    BY <1>1, <2>1 DEF HandshakeOK
<1> QED
  BY <1>1, <1>5, <1>6, <1>7, <1>8, SocketsOKStays, BoundOKStays, CutOKStays,
     OwnersOKStays, UnsentOKStays, SentOnceStays, BlackoutOKStays, ActivationsOKStays,
     SendsOKStays, ScopeOKStays, WireOKStays DEF ChannelInv

LEMMA PrepareSentKeepsInv ==
  ASSUME ChannelInv, NEW g \in Sockets, SendPrepare, assigner.socket = g, assigner.step = "reserved", g \in open,
         assigner' = [assigner EXCEPT !.step = "waiting"],
         ToDevice(g, Message("prepare", assignment)), UNCHANGED open
  PROVE  ChannelInv'
<1>1. /\ ChannelTyped /\ LaserInv /\ SocketsOK /\ BoundOK /\ CutOK /\ OwnersOK
      /\ UnsentOK /\ SentOnce /\ BlackoutOK /\ AssignerOK /\ HandshakeOK
      /\ ActivationsOK /\ SendsOK /\ ScopeOK /\ WireOK
      /\ UNCHANGED <<generation, assignment, row, current, scope, bound, open,
                    handler, replaced, cut, dispatch, arm, logical, pulse, flash,
                    stored, journal, output, emergency, up, link>>
      /\ UNCHANGED laserVars
  BY DEF ChannelInv, SendPrepare, laserVars
<1>2. /\ ToDevice(g, Message("prepare", assignment)) /\ g \in Sockets /\ assigner # Idle
      /\ assigner'.step = "waiting" /\ assigner'.socket = g /\ assigner' \in [step : {"idle", "reserved", "waiting", "answered"},
                       socket : Sockets \cup {NoSocket}, target : Snapshots \cup {NoSnapshot}]
  <2>1. assigner # Idle
    BY DEF Idle
  <2> QED
    BY <1>1, <2>1 DEF ChannelTyped, TypeOK
<1>3. /\ down' \in [Sockets -> Seq(DownMessages)]
      /\ \A h \in Sockets : Len(down[h]) \in Nat
      /\ \A h \in Sockets : h # link => down'[h] = down[h]
      /\ \A h \in Sockets : \A kind : \A i \in Positions(down'[h], kind) :
           \/ i \in Positions(down[h], kind) /\ i <= Len(down[h]) /\ down'[h][i] = down[h][i]
           \/ h = g /\ i = Len(down[h]) + 1 /\ kind = "prepare"
  <2>1. PICK m \in DownMessages : m.kind = "prepare" /\ ToDevice(g, m)
    BY <1>1 DEF Message, DownMessages, ChannelTyped, TypeOK
  <2>2. /\ down' \in [Sockets -> Seq(DownMessages)]
        /\ g # link => down' = down
        /\ \A h \in Sockets : h # g => down'[h] = down[h]
        /\ \A h \in Sockets : Len(down[h]) \in Nat
    BY <1>1, <2>1, ToDeviceMoves
  <2>3. \A h \in Sockets : \A kind : \A i \in Positions(down'[h], kind) :
          \/ i \in Positions(down[h], kind) /\ i <= Len(down[h]) /\ down'[h][i] = down[h][i]
          \/ /\ h = g /\ g = link /\ i = Len(down[h]) + 1
             /\ m.kind = kind /\ down'[h][i] = m
    <3>1. ChannelTyped /\ g \in Sockets
      BY <1>1
    <3> QED
      BY <2>1, <3>1, ToDeviceMoves
  <2> QED
    BY <2>1, <2>2, <2>3
<1>4. /\ Outstanding' = Outstanding
      /\ Dark' <=> Dark
      /\ Pulsing' <=> Pulsing
  BY <1>1 DEF Outstanding, Dark, Pulsing
<1>5. LaserInv'
  BY <1>1, LaserInvStays
<1>6. ChannelTyped'
  BY <1>1, <1>3, <1>5 DEF LaserInv, ChannelTyped, TypeOK
<1>7. SocketsOK'
  BY <1>1, <1>3 DEF SocketsOK
<1>8. SentOnce'
  <2>1. \A c \in Commands : Unseen(c) => Unseen(c)'
    BY <1>1 DEF Unseen
  <2>2. link # NoSocket =>
          \A i \in Positions(down'[link], "execute") :
            /\ i \in Nat /\ i + 0 \in Positions(down[link], "execute")
            /\ down'[link][i] = down[link][i + 0] /\ down'[link][i].about \in Commands
    <3>1. ASSUME link # NoSocket, NEW i \in Positions(down'[link], "execute")
          PROVE  i \in Positions(down[link], "execute") /\ down'[link][i] = down[link][i] /\ i \in Nat
      BY <1>1, <1>3, <3>1, WireTypes DEF Positions
    <3> QED
      BY <1>1, <3>1, WireTypes
  <2> QED
    BY <1>1, <2>1, <2>2, SentKept
<1>9. AssignerOK'
  BY <1>1, <1>2 DEF AssignerOK
<1>10. HandshakeOK'
  <2>1. ASSUME NEW h \in open, h # g, h \in Sockets, Handshake(h)
        PROVE  Handshake(h)'
    <3>1. /\ Positions(up[h], "safe") = {} /\ Positions(down[h], "prepare") = {}
          /\ assigner.step = "reserved"
      BY <1>1, <2>1 DEF Handshake
    <3>2. Positions(down'[h], "prepare") = {}
      BY <1>3, <2>1, <3>1
    <3> QED
      BY <1>1, <3>1, <3>2 DEF Handshake
  <2>2. Handshake(g)'
    <3>1. /\ Positions(up[g], "safe") = {} /\ Positions(down[g], "prepare") = {}
      BY <1>1 DEF HandshakeOK, Handshake
    <3>2. \A i \in Positions(down'[g], "prepare") : i = Len(down[g]) + 1
      BY <1>2, <1>3, <3>1
    <3>3. \A j \in Positions(down'[g], "execute") : j <= Len(down[g]) /\ j \in Nat
      BY <1>2, <1>3 DEF Positions
    <3>4. \A i \in Positions(down'[g], "prepare") : \A j \in Positions(down'[g], "execute") : j < i
      BY <3>2, <3>3
    <3> QED
      BY <1>1, <3>1, <3>2, <3>4 DEF Handshake
  <2> QED
    BY <1>1, <2>1, <2>2 DEF HandshakeOK, ChannelTyped, TypeOK
<1>11. WireOK'
  <2>1. ASSUME link # NoSocket, NEW i \in Positions(down'[link], "execute")
        PROVE  i \in Positions(down[link], "execute") /\ down'[link][i] = down[link][i]
    BY <1>1, <1>3, <2>1, WireTypes
  <2> QED
    BY <1>1, <2>1 DEF WireOK
<1> QED
  BY <1>1, <1>5, <1>6, <1>7, <1>8, <1>9, <1>10, <1>11, BoundOKStays, CutOKStays,
     OwnersOKStays, UnsentOKStays, BlackoutOKStays, ActivationsOKStays, SendsOKStays,
     ScopeOKStays DEF ChannelInv

LEMMA AssignmentDroppedKeepsInv ==
  ASSUME ChannelInv, assigner.step = "reserved", assigner' = Idle, open' \subseteq open,
         UNCHANGED <<generation, assignment, row, current, scope, bound, handler, replaced, cut,
                     dispatch, laserVars, down, up, link>>
  PROVE  ChannelInv'
<1>1. /\ ChannelTyped /\ LaserInv /\ SocketsOK /\ BoundOK /\ CutOK /\ OwnersOK
      /\ UnsentOK /\ SentOnce /\ BlackoutOK /\ AssignerOK /\ HandshakeOK
      /\ ActivationsOK /\ SendsOK /\ ScopeOK /\ WireOK
      /\ UNCHANGED <<generation, assignment, row, current, scope, bound, handler,
                    replaced, cut, dispatch, arm, logical, pulse, flash, stored,
                    journal, output, emergency, down, up, link>>
      /\ UNCHANGED laserVars
  BY DEF ChannelInv, laserVars
<1>2. assigner' = Idle /\ assigner' \in [step : {"idle", "reserved", "waiting", "answered"},
                       socket : Sockets \cup {NoSocket}, target : Snapshots \cup {NoSnapshot}] /\ open' \subseteq open
  BY <1>1 DEF Idle
<1>3. /\ Outstanding' = Outstanding
      /\ Dark' <=> Dark
      /\ Pulsing' <=> Pulsing
  BY <1>1 DEF Outstanding, Dark, Pulsing
<1>4. LaserInv'
  BY <1>1, LaserInvStays
<1>5. ChannelTyped'
  BY <1>1, <1>2, <1>4 DEF LaserInv, ChannelTyped, TypeOK
<1>6. SocketsOK'
  BY <1>1 DEF SocketsOK
<1>7. OwnersOK'
  BY <1>1, <1>3 DEF OwnersOK
<1>8. AssignerOK'
  BY <1>2 DEF AssignerOK
<1>9. HandshakeOK'
  <2>1. ASSUME NEW g \in open, Handshake(g)
        PROVE  Handshake(g)'
    BY <2>1 DEF Handshake, Idle
  <2> QED
    BY <1>1, <2>1 DEF HandshakeOK
<1>10. ActivationsOK'
  BY <1>1 DEF ActivationsOK
<1>11. SendsOK'
  BY <1>1 DEF SendsOK
<1>12. ScopeOK'
  BY <1>1 DEF ScopeOK
<1> QED
  BY <1>1, <1>4, <1>5, <1>6, <1>7, <1>8, <1>9, <1>10, <1>11, <1>12, BoundOKStays,
     CutOKStays, UnsentOKStays, SentOnceStays, BlackoutOKStays, WireOKStays DEF
     ChannelInv

LEMMA SendPrepareKeepsInv ==
  ASSUME ChannelInv, SendPrepare
  PROVE  ChannelInv'
<1>1. CASE assigner' = Idle /\ open' \in {open, open \ {assigner.socket}} /\ UNCHANGED down
  <2>1. open' \subseteq open
    BY <1>1
  <2> QED
    BY <1>1, AssignmentDroppedKeepsInv DEF SendPrepare
<1>2. CASE /\ assigner.socket \in open /\ assigner' = [assigner EXCEPT !.step = "waiting"]
           /\ ToDevice(assigner.socket, Message("prepare", assignment)) /\ UNCHANGED open
  <2>1. PICK g \in Sockets : g = assigner.socket
    BY <1>2 DEF ChannelInv, ChannelTyped, TypeOK
  <2>2. assigner.step = "reserved"
    BY DEF SendPrepare
  <2> QED
    BY <1>2, <2>1, <2>2, PrepareSentKeepsInv
<1> QED
  BY <1>1, <1>2 DEF SendPrepare

LEMMA AbandonAssignmentKeepsInv ==
  ASSUME ChannelInv, AbandonAssignment
  PROVE  ChannelInv'
<1>1. /\ ChannelTyped /\ LaserInv /\ SocketsOK /\ BoundOK /\ CutOK /\ OwnersOK
      /\ UnsentOK /\ SentOnce /\ BlackoutOK /\ AssignerOK /\ HandshakeOK
      /\ ActivationsOK /\ SendsOK /\ ScopeOK /\ WireOK
      /\ UNCHANGED <<generation, assignment, row, current, scope, bound, handler,
                    replaced, cut, dispatch, arm, logical, pulse, flash, stored,
                    journal, output, emergency, down, up, link>>
      /\ UNCHANGED laserVars
  BY DEF ChannelInv, AbandonAssignment, laserVars
<1>2. assigner' = Idle /\ assigner' \in [step : {"idle", "reserved", "waiting", "answered"},
                       socket : Sockets \cup {NoSocket}, target : Snapshots \cup {NoSnapshot}] /\ open' = open \ {assigner.socket}
      /\ open' \subseteq open
  BY <1>1 DEF AbandonAssignment, Idle
<1>3. /\ Outstanding' = Outstanding
      /\ Dark' <=> Dark
      /\ Pulsing' <=> Pulsing
  BY <1>1 DEF Outstanding, Dark, Pulsing
<1>4. LaserInv'
  BY <1>1, LaserInvStays
<1>5. ChannelTyped'
  BY <1>1, <1>2, <1>4 DEF LaserInv, ChannelTyped, TypeOK
<1>6. SocketsOK'
  BY <1>1, <1>2 DEF SocketsOK
<1>7. OwnersOK'
  BY <1>1, <1>2, <1>3 DEF OwnersOK
<1>8. AssignerOK'
  BY <1>2 DEF AssignerOK
<1>9. HandshakeOK'
  <2>1. ASSUME NEW g \in open', Handshake(g)
        PROVE  Handshake(g)'
    BY <1>1, <1>2, <2>1 DEF Handshake, Idle
  <2> QED
    BY <1>1, <1>2, <2>1 DEF HandshakeOK
<1>10. ActivationsOK'
  BY <1>1, <1>2 DEF ActivationsOK
<1>11. SendsOK'
  BY <1>1, <1>2 DEF SendsOK
<1>12. ScopeOK'
  BY <1>1, <1>2 DEF ScopeOK
<1> QED
  BY <1>1, <1>4, <1>5, <1>6, <1>7, <1>8, <1>9, <1>10, <1>11, <1>12, BoundOKStays,
     CutOKStays, UnsentOKStays, SentOnceStays, BlackoutOKStays, WireOKStays DEF
     ChannelInv

LEMMA CommitRefusedKeepsInv ==
  ASSUME ChannelInv, CommitAssignment, UNCHANGED <<assignment, open>>
  PROVE  ChannelInv'
<1>1. /\ ChannelTyped /\ LaserInv /\ SocketsOK /\ BoundOK /\ CutOK /\ OwnersOK
      /\ UnsentOK /\ SentOnce /\ BlackoutOK /\ AssignerOK /\ HandshakeOK
      /\ ActivationsOK /\ SendsOK /\ ScopeOK /\ WireOK
      /\ UNCHANGED <<generation, assignment, row, current, scope, bound, open,
                    handler, replaced, cut, dispatch, arm, logical, pulse, flash,
                    stored, journal, output, emergency, down, up, link>>
      /\ UNCHANGED laserVars
  BY DEF ChannelInv, CommitAssignment, laserVars
<1>2. /\ assigner' = Idle /\ assigner' \in [step : {"idle", "reserved", "waiting", "answered"},
                       socket : Sockets \cup {NoSocket}, target : Snapshots \cup {NoSnapshot}]
      /\ assigner.step = "answered"
  BY <1>1 DEF Idle, CommitAssignment
<1>3. /\ Outstanding' = Outstanding
      /\ Dark' <=> Dark
      /\ Pulsing' <=> Pulsing
  BY <1>1 DEF Outstanding, Dark, Pulsing
<1>4. LaserInv'
  BY <1>1, LaserInvStays
<1>5. ChannelTyped'
  BY <1>1, <1>2, <1>4 DEF LaserInv, ChannelTyped, TypeOK
<1>6. AssignerOK'
  BY <1>2 DEF AssignerOK
<1>7. HandshakeOK'
  <2>1. ASSUME NEW g \in open, Handshake(g)
        PROVE  Handshake(g)'
    BY <1>1, <1>2, <2>1 DEF Handshake, Idle
  <2> QED
    BY <1>1, <2>1 DEF HandshakeOK
<1> QED
  BY <1>1, <1>4, <1>5, <1>6, <1>7, SocketsOKStays, BoundOKStays, CutOKStays,
     OwnersOKStays, UnsentOKStays, SentOnceStays, BlackoutOKStays, ActivationsOKStays,
     SendsOKStays, ScopeOKStays, WireOKStays DEF ChannelInv

LEMMA CommitMovesKeepsInv ==
  ASSUME ChannelInv, NEW g \in Sockets, CommitAssignment, g = assigner.socket, current = g, g \in open, Outstanding = {},
         assignment' = [epoch |-> assignment.epoch + 1, snapshot |-> assigner.target],
         open' = open \ {g}
  PROVE  ChannelInv'
<1>1. /\ ChannelTyped /\ LaserInv /\ SocketsOK /\ BoundOK /\ CutOK /\ OwnersOK
      /\ UnsentOK /\ SentOnce /\ BlackoutOK /\ AssignerOK /\ HandshakeOK
      /\ ActivationsOK /\ SendsOK /\ ScopeOK /\ WireOK
      /\ UNCHANGED <<generation, row, current, scope, bound, handler, replaced,
                    cut, dispatch, arm, logical, pulse, flash, stored, journal,
                    output, emergency, down, up, link>>
      /\ UNCHANGED laserVars
  BY DEF ChannelInv, CommitAssignment, laserVars
<1>2. /\ assigner' = Idle /\ assigner' \in [step : {"idle", "reserved", "waiting", "answered"},
                       socket : Sockets \cup {NoSocket}, target : Snapshots \cup {NoSnapshot}]
      /\ assigner.step = "answered" /\ open' \subseteq open
  BY <1>1 DEF Idle, CommitAssignment
<1>3. assignment' \in Scopes
  BY <1>1, <1>2, DeviceChannelAssumption DEF AssignerOK, Idle, ChannelTyped, TypeOK,
     Scopes
<1>4. /\ \A c \in Commands : dispatch[c].step = "send" => dispatch[c].socket \notin open
      /\ link # NoSocket => Positions(down[link], "execute") = {}
  BY <1>1, <1>2 DEF AssignerOK, Idle, HandshakeOK, Handshake
<1>5. /\ Outstanding' = Outstanding
      /\ Dark' <=> Dark
      /\ Pulsing' <=> Pulsing
  BY <1>1 DEF Outstanding, Dark, Pulsing
<1>6. LaserInv'
  BY <1>1, LaserInvStays
<1>7. ChannelTyped'
  BY <1>1, <1>2, <1>3, <1>6 DEF LaserInv, ChannelTyped, TypeOK
<1>8. SocketsOK'
  BY <1>1 DEF SocketsOK
<1>9. OwnersOK'
  BY <1>1, <1>5 DEF OwnersOK
<1>10. AssignerOK'
  BY <1>2 DEF AssignerOK
<1>11. HandshakeOK'
  <2>1. ASSUME NEW k \in open, Handshake(k)
        PROVE  Handshake(k)'
    BY <1>1, <1>2, <2>1 DEF Handshake, Idle
  <2> QED
    BY <1>1, <2>1 DEF HandshakeOK
<1>12. ActivationsOK'
  BY <1>1 DEF ActivationsOK
<1>13. SendsOK'
  BY <1>1, <1>4 DEF SendsOK
<1>14. ScopeOK'
  BY <1>1 DEF ScopeOK
<1>15. WireOK'
  BY <1>1, <1>4 DEF WireOK
<1> QED
  BY <1>1, <1>6, <1>7, <1>8, <1>9, <1>10, <1>11, <1>12, <1>13, <1>14, <1>15,
     BoundOKStays, CutOKStays, UnsentOKStays, SentOnceStays, BlackoutOKStays DEF
     ChannelInv

LEMMA CommitAssignmentKeepsInv ==
  ASSUME ChannelInv, CommitAssignment
  PROVE  ChannelInv'
<1>1. CASE UNCHANGED <<assignment, open>>
  BY <1>1, CommitRefusedKeepsInv DEF CommitAssignment
<1>2. CASE current = assigner.socket /\ current \in open /\ Outstanding = {}
  <2>1. PICK g \in Sockets : g = assigner.socket
    BY <1>2 DEF ChannelInv, ChannelTyped, TypeOK
  <2> QED
    BY <1>2, <2>1, CommitMovesKeepsInv DEF CommitAssignment
<1> QED
  BY <1>1, <1>2 DEF CommitAssignment

-----------------------------------------------------------------------------
(* The device.                                                             *)

\* What the device does leaves the books of the Hub as they are.
LEMMA DeviceStepKeepsInv ==
  ASSUME ChannelInv, UNCHANGED <<hubVars, link>>, LaserInv', BlackoutOK', UnsentOK', SentOnce',
         HandshakeOK', WireOK',
         down' \in [Sockets -> Seq(DownMessages)], up' \in [Sockets -> Seq(UpMessages)],
         \A h \in Sockets : h # link => down'[h] = down[h] /\ up'[h] = up[h],
         \A h \in Sockets : up[h] # <<>> => up'[h] # <<>> /\ Head(up'[h]) = Head(up[h])
  PROVE  ChannelInv'
<1>1. /\ ChannelTyped /\ LaserInv /\ SocketsOK /\ BoundOK /\ CutOK /\ OwnersOK
      /\ UnsentOK /\ SentOnce /\ BlackoutOK /\ AssignerOK /\ HandshakeOK
      /\ ActivationsOK /\ SendsOK /\ ScopeOK /\ WireOK
      /\ UNCHANGED <<generation, assignment, row, current, scope, bound, assigner,
                    open, handler, replaced, cut, dispatch, link>>
  BY DEF ChannelInv, hubVars, hubVars
<1>2. Outstanding' = Outstanding
  BY <1>1 DEF Outstanding
<1>3. LaserInv'
  OBVIOUS
<1>4. ChannelTyped'
  BY <1>1 DEF LaserInv, ChannelTyped, TypeOK
<1>5. SocketsOK'
  <2>1. \A h \in Sockets : h > generation => h # link
    BY <1>1 DEF SocketsOK, ChannelTyped, TypeOK, NoSocket
  <2> QED
    BY <1>1, <2>1 DEF SocketsOK
<1>6. UnsentOK'
  OBVIOUS
<1>7. SentOnce'
  OBVIOUS
<1>8. BlackoutOK'
  OBVIOUS
<1>9. HandshakeOK'
  OBVIOUS
<1>10. ActivationsOK'
  BY <1>1, <1>2 DEF ActivationsOK
<1>11. WireOK'
  OBVIOUS
<1> QED
  BY <1>1, <1>4, <1>5, <1>10, BoundOKStays, CutOKStays, OwnersOKStays, AssignerOKStays,
     SendsOKStays, ScopeOKStays DEF ChannelInv

\* What the machine does by itself.
LEMMA QuietStepKeepsInv ==
  ASSUME ChannelInv, UNCHANGED <<hubVars, down, up, link>>, LaserInv',
         \A d \in Commands : Unseen(d) => Unseen(d)', BlackoutOK',
         Dark => Dark'
  PROVE  ChannelInv'
<1>1. /\ ChannelTyped /\ SentOnce /\ UnsentOK /\ HandshakeOK /\ WireOK
      /\ UNCHANGED <<assigner, current, open, dispatch, row, assignment, down, up, link>>
  BY DEF ChannelInv, hubVars
<1>2. UnsentOK'
  BY <1>1 DEF UnsentOK
<1>3. SentOnce'
  BY <1>1, WireTypes DEF SentOnce
<1>4. WireOK'
  BY <1>1 DEF WireOK
<1>5. HandshakeOK'
  <2>1. ASSUME NEW g \in open, Handshake(g)
        PROVE  Handshake(g)'
    BY <1>1, <2>1 DEF Handshake
  <2> QED
    BY <1>1, <2>1 DEF HandshakeOK
<1>6. /\ down' \in [Sockets -> Seq(DownMessages)] /\ up' \in [Sockets -> Seq(UpMessages)]
  BY <1>1 DEF ChannelTyped
<1> QED
  BY <1>2, <1>3, <1>4, <1>5, <1>6, DeviceStepKeepsInv

LEMMA MakeSafeKeepsInv ==
  ASSUME ChannelInv, MakeSafe
  PROVE  ChannelInv'
<1>1. LaserInv /\ BlackoutOK /\ UNCHANGED <<hubVars, row, down, up, link>>
  BY DEF ChannelInv, MakeSafe, hubVars
<1>2. /\ Heeds(NoCommand) /\ (Dark => Dark') /\ LaserInv'
      /\ journal' = journal /\ emergency' = emergency
  BY <1>1, MakeSafeHeeds
<1>3. \A d \in Commands : d # NoCommand
  BY StageLaserAssumption
<1>4. \A d \in Commands : /\ Unseen(d) => Unseen(d)'
                          /\ Confirmed(d)' => Confirmed(d)
                          /\ Pulsing' /\ pulse'.command = d =>
                               pulse' = pulse /\ (arm = "DISARMED" => arm' = "DISARMED")
  BY <1>1, <1>2, <1>3 DEF Unseen, Confirmed, Heeds
<1>5. BlackoutOK'
  BY <1>1, <1>2, <1>4 DEF BlackoutOK, Pulsing
<1> QED
  BY <1>1, <1>2, <1>4, <1>5, QuietStepKeepsInv

LEMMA FlashTimerKeepsInv ==
  ASSUME ChannelInv, FlashTimer
  PROVE  ChannelInv'
<1>1. LaserInv /\ BlackoutOK /\ UNCHANGED <<hubVars, row, down, up, link>>
  BY DEF ChannelInv, FlashTimer, hubVars
<1>2. /\ Heeds(NoCommand) /\ ~Dark /\ LaserInv' /\ journal' = journal /\ emergency' = emergency
  BY <1>1, TimersHeed, AdvanceFlashPhaseKeepsInv, ExpireFlashKeepsInv DEF FlashTimer
<1>3. \A d \in Commands : d # NoCommand
  BY StageLaserAssumption
<1>4. \A d \in Commands : /\ Unseen(d) => Unseen(d)'
                          /\ Confirmed(d)' => Confirmed(d)
                          /\ Pulsing' /\ pulse'.command = d =>
                               pulse' = pulse /\ (arm = "DISARMED" => arm' = "DISARMED")
  BY <1>1, <1>2, <1>3 DEF Unseen, Confirmed, Heeds
<1>5. BlackoutOK'
  BY <1>1, <1>2, <1>4 DEF BlackoutOK, Pulsing
<1> QED
  BY <1>1, <1>2, <1>4, <1>5, QuietStepKeepsInv

\* A result on its way to the Hub is about its command alone, and is nothing
\* that the handshakes look at.
LEMMA ResultMoves ==
  ASSUME ChannelTyped, link # NoSocket, NEW c \in Commands, NEW status \in Results,
         ToHub(Message("result", [command |-> c, status |-> status]))
  PROVE  /\ up' \in [Sockets -> Seq(UpMessages)]
         /\ \A h \in Sockets : h # link => up'[h] = up[h]
         /\ \A h \in Sockets : up[h] # <<>> => up'[h] # <<>> /\ Head(up'[h]) = Head(up[h])
         /\ \A h \in Sockets : Positions(up'[h], "safe") \subseteq Positions(up[h], "safe")
         /\ \A h \in Sockets : \A i \in Positions(up'[h], "result") :
              \/ i \in Positions(up[h], "result") /\ up'[h][i] = up[h][i]
              \/ up'[h][i].about = [command |-> c, status |-> status]
<1>1. PICK m \in UpMessages : /\ m.kind = "result" /\ ToHub(m)
                             /\ m.about = [command |-> c, status |-> status]
  BY DEF Message, UpMessages
<1>2. /\ up' \in [Sockets -> Seq(UpMessages)]
      /\ \A h \in Sockets : h # link => up'[h] = up[h]
      /\ \A h \in Sockets : up[h] # <<>> => up'[h] # <<>> /\ Head(up'[h]) = Head(up[h])
      /\ \A h \in Sockets : \A kind : \A i \in Positions(up'[h], kind) :
           \/ i \in Positions(up[h], kind) /\ i <= Len(up[h]) /\ up'[h][i] = up[h][i]
           \/ /\ h = link /\ link \in open /\ i = Len(up[h]) + 1
              /\ m.kind = kind /\ up'[h][i] = m
  BY <1>1, ToHubMoves
<1>3. \A h \in Sockets : Positions(up'[h], "safe") \subseteq Positions(up[h], "safe")
  BY <1>1, <1>2
<1>4. \A h \in Sockets : \A i \in Positions(up'[h], "result") :
        \/ i \in Positions(up[h], "result") /\ up'[h][i] = up[h][i]
        \/ up'[h][i].about = [command |-> c, status |-> status]
  BY <1>1, <1>2
<1> QED
  BY <1>2, <1>3, <1>4

\* What it means for the commands.
LEMMA ResultSeen ==
  ASSUME ChannelTyped, LaserInv, row' = row, NEW c \in Commands, NEW status \in Results, Heeds(c),
         \A h \in Sockets : \A i \in Positions(up'[h], "result") :
           \/ i \in Positions(up[h], "result") /\ up'[h][i] = up[h][i]
           \/ up'[h][i].about = [command |-> c, status |-> status]
  PROVE  /\ \A d \in Commands : d # c => (Unseen(d) => Unseen(d)') /\ (Confirmed(d)' => Confirmed(d))
         /\ Confirmed(c)' => Confirmed(c) \/ status = "COMPLETED"
<1>1. \A about, d : about = [command |-> c, status |-> status] =>
        about.command = c /\ (about = [command |-> d, status |-> "COMPLETED"] =>
                                d = c /\ status = "COMPLETED")
  OBVIOUS
<1>2. ASSUME NEW d \in Commands, d # c, Unseen(d)
      PROVE  Unseen(d)'
  <2>1. journal'[d] = "none" /\ emergency'[d] = "none" /\ pulse'.command # d
    BY <1>2 DEF Heeds, Unseen
  <2>2. \A h \in Sockets : \A i \in Positions(up'[h], "result") : up'[h][i].about.command # d
    BY <1>1, <1>2 DEF Unseen
  <2> QED
    BY <1>2, <2>1 DEF Unseen
<1>3. ASSUME NEW d \in Commands, Confirmed(d)', ~Confirmed(d)
      PROVE  d = c /\ status = "COMPLETED"
  BY <1>1, <1>3 DEF Confirmed
<1> QED
  BY <1>2, <1>3

\* What the device reads, and what it says that is no answer to a prepare.
LEMMA HandshakeShifts ==
  ASSUME HandshakeOK, ChannelTyped, UNCHANGED <<assigner, current, link, open>>, link \in Sockets,
         \A h \in Sockets : h # link => down'[h] = down[h],
         \A kind : \A i \in Positions(down'[link], kind) :
           /\ i \in Nat /\ i >= 1 /\ i + 1 \in Positions(down[link], kind)
           /\ down'[link][i] = down[link][i + 1],
         \A h \in Sockets : \A i \in Positions(up'[h], "safe") : i \in Positions(up[h], "safe"),
         Dark /\ (link # NoSocket => Positions(down[link], "execute") = {}) => Dark'
  PROVE  HandshakeOK'
  <1> DEFINE zero == [h \in Sockets |-> 0]
             first == [h \in Sockets |-> IF h = link THEN 1 ELSE 0]
  <1>1. /\ zero \in [Sockets -> Nat] /\ \A h \in Sockets : zero[h] = 0
        /\ first \in [Sockets -> Nat] /\ \A h \in Sockets : first[h] = IF h = link THEN 1 ELSE 0
    OBVIOUS
  <1> HIDE DEF zero, first
  <1>2. \A h \in Sockets : \A i \in Positions(up'[h], "safe") :
          i \in Nat /\ i + zero[h] \in Positions(up[h], "safe")
    <2>1. \A h \in Sockets : \A i \in Positions(up[h], "safe") : i \in Nat /\ i + zero[h] = i
      BY <1>1 DEF Positions
    <2> QED
      BY <2>1
  <1>3. \A h \in Sockets : \A kind \in {"prepare", "execute"} : \A i \in Positions(down'[h], kind) :
          i \in Nat /\ i + first[h] \in Positions(down[h], kind)
    <2>1. ASSUME NEW h \in Sockets, h # link, NEW kind, NEW i \in Positions(down[h], kind)
          PROVE  i \in Nat /\ i + first[h] = i
      BY <1>1, <2>1 DEF Positions
    <2>2. ASSUME NEW kind, NEW i \in Positions(down'[link], kind)
          PROVE  i \in Nat /\ i + first[link] \in Positions(down[link], kind)
      BY <1>1, <2>2
    <2> QED
      BY <2>1, <2>2
  <1>4. open' \subseteq open
    OBVIOUS
  <1> QED
    BY <1>1, <1>2, <1>3, HandshakeKept

LEMMA ExecuteCommandKeepsInv ==
  ASSUME ChannelInv, ExecuteCommand
  PROVE  ChannelInv'
<1>1. /\ ChannelTyped /\ LaserInv /\ SentOnce /\ UnsentOK /\ BlackoutOK /\ HandshakeOK /\ WireOK
      /\ UNCHANGED <<hubVars, link>> /\ Reading("execute") /\ ReadOn
      /\ UNCHANGED <<assigner, current, open, dispatch, row, assignment>>
  BY DEF ChannelInv, ExecuteCommand, hubVars
<1>2. /\ link \in Sockets /\ link # NoSocket /\ down[link] # <<>>
      /\ Head(down[link]) = down[link][1] /\ 1 \in Positions(down[link], "execute")
      /\ Head(down[link]).about \in Commands
  BY <1>1, ReadingMoves
<1>3. PICK c \in Commands : /\ c = down[link][1].about /\ Execute(c)
                           /\ ToHub(Message("result", [command |-> c, status |-> journal'[c]]))
  BY <1>2 DEF ExecuteCommand
<1>4. Unseen(c) /\ dispatch[c].step \notin {"idle", "created", "send"}
  BY <1>1, <1>2, <1>3 DEF SentOnce
<1>5. LaserInv' /\ Heeds(c) /\ journal[c] = "none" /\ pulse.command # c
  BY <1>1, <1>3, <1>4, ExecuteKeepsInv, ExecuteHeeds DEF Unseen
<1>6. PICK status \in Results :
        status = journal'[c] /\ ToHub(Message("result", [command |-> c, status |-> status]))
  BY <1>3, <1>5 DEF LaserInv, LaserTypeOK
<1>7. /\ up' \in [Sockets -> Seq(UpMessages)]
      /\ \A h \in Sockets : h # link => up'[h] = up[h]
      /\ \A h \in Sockets : up[h] # <<>> => up'[h] # <<>> /\ Head(up'[h]) = Head(up[h])
      /\ \A h \in Sockets : Positions(up'[h], "safe") \subseteq Positions(up[h], "safe")
      /\ \A h \in Sockets : \A i \in Positions(up'[h], "result") :
           \/ i \in Positions(up[h], "result") /\ up'[h][i] = up[h][i]
           \/ up'[h][i].about = [command |-> c, status |-> status]
  BY <1>1, <1>2, <1>6, ResultMoves
<1>8. /\ \A d \in Commands : d # c => (Unseen(d) => Unseen(d)') /\ (Confirmed(d)' => Confirmed(d))
      /\ Confirmed(c)' => Confirmed(c) \/ status = "COMPLETED"
  BY <1>1, <1>5, <1>7, ResultSeen
<1>9. /\ down' \in [Sockets -> Seq(DownMessages)]
      /\ \A h \in Sockets : h # link => down'[h] = down[h]
      /\ \A kind : \A i \in Positions(down'[link], kind) :
           /\ i \in Nat /\ i >= 1 /\ i + 1 \in Positions(down[link], kind)
           /\ down'[link][i] = down[link][i + 1]
  BY <1>1, <1>2, ReadOnMoves
<1>10. UnsentOK'
  BY <1>1, <1>4, <1>8 DEF UnsentOK
<1>11. BlackoutOK'
  <2>1. ASSUME NEW d \in Commands, d # c, TypeOf[d] = "SAFE_OFF"
        PROVE  /\ Confirmed(d)' => emergency'[d] # "none" /\ (emergency'[d] = "came" => Dark')
               /\ Pulsing' /\ pulse'.command = d => pulse'.target = "OFF" /\ arm' = "DISARMED"
    <3>1. /\ Confirmed(d) => emergency[d] # "none" /\ (emergency[d] = "came" => Dark)
          /\ Pulsing /\ pulse.command = d => pulse.target = "OFF" /\ arm = "DISARMED"
      BY <1>1, <2>1 DEF BlackoutOK
    <3>2. Confirmed(d)' => Confirmed(d)
      BY <1>8, <2>1
    <3> QED
      BY <1>5, <2>1, <3>1, <3>2 DEF Heeds, Pulsing
  <2>2. ASSUME TypeOf[c] = "SAFE_OFF"
        PROVE  /\ Confirmed(c)' => emergency'[c] # "none" /\ (emergency'[c] = "came" => Dark')
               /\ Pulsing' /\ pulse'.command = c => pulse'.target = "OFF" /\ arm' = "DISARMED"
    <3>1. /\ emergency'[c] = "came" /\ (status = "COMPLETED" => Dark')
          /\ Pulsing' /\ pulse'.command = c => pulse'.target = "OFF" /\ arm' = "DISARMED"
      BY <1>1, <1>3, <1>5, <1>6, <2>2, SafeOffComes
    <3>2. ~Confirmed(c)
      <4>1. \A about : about = [command |-> c, status |-> "COMPLETED"] => about.command = c
        OBVIOUS
      <4> QED
        BY <1>4 DEF Unseen, Confirmed
    <3> QED
      BY <1>8, <3>1, <3>2
  <2> QED
    BY <2>1, <2>2 DEF BlackoutOK
<1>12. /\ \A i \in Positions(down'[link], "execute") :
            /\ i \in Nat /\ i + 1 \in Positions(down[link], "execute")
            /\ down'[link][i] = down[link][i + 1]
            /\ down'[link][i].about \in Commands \ {c}
  <2>1. ASSUME NEW i \in Positions(down'[link], "execute")
        PROVE  /\ i \in Nat /\ i + 1 \in Positions(down[link], "execute")
               /\ down'[link][i] = down[link][i + 1]
               /\ down'[link][i].about \in Commands \ {c}
    <3>1. /\ i \in Nat /\ i >= 1 /\ i + 1 \in Positions(down[link], "execute")
          /\ down'[link][i] = down[link][i + 1]
      BY <1>9, <2>1
    <3>2. down[link][i + 1].about # c
      BY <1>1, <1>2, <1>3, <3>1 DEF SentOnce
    <3>3. down[link][i + 1].about \in Commands
      BY <1>1, <1>2, <3>1, WireTypes
    <3> QED
      BY <3>1, <3>2, <3>3
  <2> QED
    BY <2>1
<1>13. SentOnce'
  <2>1. PICK S \in SUBSET Commands : S = Commands \ {c}
    OBVIOUS
  <2>2. \A d \in S : Unseen(d) => Unseen(d)'
    BY <1>8, <2>1
  <2> QED
    BY <1>1, <1>12, <2>1, <2>2, SentKept
<1>14. HandshakeOK'
  <2>1. ~(link # NoSocket => Positions(down[link], "execute") = {})
    BY <1>2
  <2>2. \A h \in Sockets : \A i \in Positions(up'[h], "safe") : i \in Positions(up[h], "safe")
    BY <1>7
  <2> QED
    BY <1>1, <1>2, <1>9, <2>2, HandshakeShifts
<1>15. WireOK'
  <2>1. ASSUME NEW i \in Positions(down'[link], "execute")
        PROVE  row[down'[link][i].about].snapshot = assignment.snapshot
    BY <1>1, <1>2, <1>12 DEF WireOK
  <2> QED
    BY <1>1, <2>1 DEF WireOK
<1> QED
  BY <1>1, <1>5, <1>7, <1>9, <1>10, <1>11, <1>13, <1>14, <1>15, DeviceStepKeepsInv

LEMMA ReleaseRelayKeepsInv ==
  ASSUME ChannelInv, ReleaseRelay
  PROVE  ChannelInv'
<1>1. /\ ChannelTyped /\ LaserInv /\ SentOnce /\ UnsentOK /\ BlackoutOK /\ HandshakeOK /\ WireOK
      /\ UNCHANGED <<hubVars, down, link>> /\ CompletePulse
      /\ UNCHANGED <<assigner, current, open, dispatch, row, assignment>>
  BY DEF ChannelInv, ReleaseRelay, hubVars
<1>2. PICK c \in Commands \cup {NoCommand} : c = pulse.command
  BY <1>1 DEF LaserInv, LaserTypeOK
<1>3. /\ LaserInv' /\ Heeds(c) /\ pulse'.command = NoCommand /\ ~Pulsing' /\ ~Dark
      /\ c \in Commands => journal'[c] = "COMPLETED"
      /\ c \in Commands /\ TypeOf[c] = "SAFE_OFF" =>
           /\ emergency'[c] = "came"
           /\ pulse.target = "OFF" /\ arm = "DISARMED" => Dark'
  BY <1>1, <1>2, CompletePulseKeepsInv, PulseEnds
<1>4. /\ up' \in [Sockets -> Seq(UpMessages)]
      /\ \A h \in Sockets : h # link => up'[h] = up[h]
      /\ \A h \in Sockets : up[h] # <<>> => up'[h] # <<>> /\ Head(up'[h]) = Head(up[h])
      /\ \A h \in Sockets : Positions(up'[h], "safe") \subseteq Positions(up[h], "safe")
      /\ \A h \in Sockets : \A i \in Positions(up'[h], "result") :
           \/ i \in Positions(up[h], "result") /\ up'[h][i] = up[h][i]
           \/ c \in Commands /\ up'[h][i].about = [command |-> c, status |-> "COMPLETED"]
  <2>1. CASE up' = up
    BY <1>1, <2>1 DEF ChannelTyped
  <2>2. CASE /\ c \in Commands /\ link # NoSocket
             /\ ToHub(Message("result", [command |-> c, status |-> "COMPLETED"]))
    BY <1>1, <2>2, ResultMoves DEF Results
  <2> QED
    BY <1>2, <2>1, <2>2 DEF ReleaseRelay
<1>5. /\ \A d \in Commands : d # c => (Unseen(d) => Unseen(d)') /\ (Confirmed(d)' => Confirmed(d))
      /\ c \in Commands => ~Unseen(c)
  <2>1. CASE c \in Commands
    <3>1. PICK status \in Results : status = "COMPLETED"
      BY DEF Results
    <3>2. \A h \in Sockets : \A i \in Positions(up'[h], "result") :
            \/ i \in Positions(up[h], "result") /\ up'[h][i] = up[h][i]
            \/ up'[h][i].about = [command |-> c, status |-> status]
      BY <1>4, <3>1
    <3>3. \A d \in Commands : d # c => (Unseen(d) => Unseen(d)') /\ (Confirmed(d)' => Confirmed(d))
      BY <1>1, <1>3, <2>1, <3>2, ResultSeen
    <3> QED
      BY <1>2, <3>3 DEF Unseen
  <2>2. CASE c = NoCommand
    <3>1. \A d \in Commands : d # NoCommand
      BY StageLaserAssumption
    <3>2. \A h \in Sockets : \A i \in Positions(up'[h], "result") :
            i \in Positions(up[h], "result") /\ up'[h][i] = up[h][i]
      BY <1>4, <2>2, StageLaserAssumption
    <3> QED
      BY <1>1, <1>3, <2>2, <3>2, StageLaserAssumption DEF Unseen, Confirmed, Heeds
  <2> QED
    BY <2>1, <2>2
<1>6. UnsentOK'
  BY <1>1, <1>5 DEF UnsentOK
<1>7. BlackoutOK'
  <2>1. ASSUME NEW d \in Commands, d # c, TypeOf[d] = "SAFE_OFF", Confirmed(d)'
        PROVE  emergency'[d] # "none" /\ emergency'[d] # "came"
    <3>1. emergency[d] # "none" /\ emergency[d] # "came"
      BY <1>1, <1>3, <1>5, <2>1 DEF BlackoutOK
    <3> QED
      BY <1>3, <2>1, <3>1 DEF Heeds
  <2>2. ASSUME c \in Commands, TypeOf[c] = "SAFE_OFF"
        PROVE  emergency'[c] = "came" /\ Dark'
    <3>1. pulse.target = "OFF" /\ arm = "DISARMED"
      BY <1>1, <1>2, <2>2 DEF BlackoutOK, CompletePulse
    <3> QED
      BY <1>3, <2>2, <3>1
  <2> QED
    BY <1>3, <2>1, <2>2 DEF BlackoutOK
<1>8. SentOnce'
  <2>1. PICK S \in SUBSET Commands : S = Commands \ {c}
    OBVIOUS
  <2>2. \A d \in S : Unseen(d) => Unseen(d)'
    BY <1>5, <2>1
  <2>3. link # NoSocket =>
          \A i \in Positions(down'[link], "execute") :
            /\ i \in Nat /\ i + 0 \in Positions(down[link], "execute")
            /\ down'[link][i] = down[link][i + 0] /\ down'[link][i].about \in S
    <3>1. ASSUME link # NoSocket, NEW i \in Positions(down[link], "execute")
          PROVE  i \in Nat /\ i + 0 = i /\ down[link][i].about \in S
      <4>1. i \in Nat
        BY <3>1 DEF Positions
      <4>2. down[link][i].about \in Commands /\ Unseen(down[link][i].about)
        BY <1>1, <3>1, WireTypes DEF SentOnce
      <4> QED
        BY <1>5, <2>1, <4>1, <4>2
    <3> QED
      BY <1>1, <3>1
  <2> QED
    BY <1>1, <2>2, <2>3, SentKept
<1>9. HandshakeOK'
  <2>1. ASSUME NEW g \in open, Handshake(g), g \in Sockets
        PROVE  Handshake(g)'
    <3>1. Positions(up'[g], "safe") \subseteq Positions(up[g], "safe")
      BY <1>4, <2>1
    <3> QED
      BY <1>1, <1>3, <2>1, <3>1 DEF Handshake
  <2> QED
    BY <1>1, <2>1 DEF HandshakeOK, ChannelTyped, TypeOK
<1>10. WireOK'
  BY <1>1 DEF WireOK
<1>11. down' \in [Sockets -> Seq(DownMessages)]
  BY <1>1 DEF ChannelTyped
<1> QED
  BY <1>1, <1>3, <1>4, <1>6, <1>7, <1>8, <1>9, <1>10, <1>11, DeviceStepKeepsInv

LEMMA AckScopeKeepsInv ==
  ASSUME ChannelInv, AckScope
  PROVE  ChannelInv'
<1>1. /\ ChannelTyped /\ LaserInv /\ SentOnce /\ UnsentOK /\ BlackoutOK /\ HandshakeOK /\ WireOK
      /\ UNCHANGED <<hubVars, laserVars, link>> /\ Reading("scope") /\ ReadOn /\ Safe
      /\ UNCHANGED <<assigner, current, open, dispatch, row, assignment>>
      /\ UNCHANGED <<arm, logical, pulse, flash, stored, journal, output, emergency>>
  BY DEF ChannelInv, AckScope, hubVars, laserVars
<1>2. /\ link \in Sockets /\ link # NoSocket /\ down[link] # <<>>
      /\ 1 \in Positions(down[link], "scope") /\ Head(down[link]).about \in Scopes
  BY <1>1, ReadingMoves
<1>3. PICK m \in UpMessages : m.kind = "scope" /\ ToHub(m)
  BY <1>2 DEF AckScope, Message, UpMessages
<1>4. /\ up' \in [Sockets -> Seq(UpMessages)]
      /\ link \notin open => up' = up
      /\ \A h \in Sockets : h # link => up'[h] = up[h]
      /\ \A h \in Sockets : up[h] # <<>> => up'[h] # <<>> /\ Head(up'[h]) = Head(up[h])
      /\ \A h \in Sockets : \A kind : \A i \in Positions(up'[h], kind) :
           \/ i \in Positions(up[h], kind) /\ i <= Len(up[h]) /\ up'[h][i] = up[h][i]
           \/ /\ h = link /\ link \in open /\ i = Len(up[h]) + 1
              /\ m.kind = kind /\ up'[h][i] = m
  BY <1>1, <1>2, <1>3, ToHubMoves
<1>5. /\ down' \in [Sockets -> Seq(DownMessages)]
      /\ \A h \in Sockets : h # link => down'[h] = down[h]
      /\ \A kind : \A i \in Positions(down'[link], kind) :
           /\ i \in Nat /\ i >= 1 /\ i + 1 \in Positions(down[link], kind)
           /\ down'[link][i] = down[link][i + 1]
  BY <1>1, <1>2, ReadOnMoves
<1>6. \A h \in Sockets : \A i \in Positions(up'[h], "result") :
        i \in Positions(up[h], "result") /\ up'[h][i] = up[h][i]
  BY <1>3, <1>4
<1>7. \A d \in Commands : (Unseen(d) => Unseen(d)') /\ (Confirmed(d)' => Confirmed(d))
  BY <1>1, <1>6 DEF Unseen, Confirmed
<1>8. LaserInv'
  BY <1>1, LaserInvStays
<1>9. UnsentOK' /\ BlackoutOK'
  BY <1>1, <1>7 DEF UnsentOK, BlackoutOK, Dark, Pulsing
<1>10. \A i \in Positions(down'[link], "execute") :
         /\ i \in Nat /\ i + 1 \in Positions(down[link], "execute")
         /\ down'[link][i] = down[link][i + 1] /\ down'[link][i].about \in Commands
  BY <1>1, <1>2, <1>5, WireTypes
<1>11. SentOnce'
  BY <1>1, <1>7, <1>10, SentKept
<1>12. WireOK'
  <2>1. ASSUME NEW i \in Positions(down'[link], "execute")
        PROVE  row[down'[link][i].about].snapshot = assignment.snapshot
    BY <1>1, <1>2, <1>10 DEF WireOK
  <2> QED
    BY <1>1, <2>1 DEF WireOK
<1>13. HandshakeOK'
  <2>1. \A h \in Sockets : \A i \in Positions(up'[h], "safe") : i \in Positions(up[h], "safe")
    BY <1>3, <1>4
  <2>2. Dark => Dark'
    BY <1>1 DEF Dark, Pulsing
  <2> QED
    BY <1>1, <1>2, <1>5, <2>1, <2>2, HandshakeShifts
<1> QED
  BY <1>1, <1>4, <1>5, <1>8, <1>9, <1>11, <1>12, <1>13, DeviceStepKeepsInv

LEMMA AckSafeKeepsInv ==
  ASSUME ChannelInv, AckSafe
  PROVE  ChannelInv'
<1>1. /\ ChannelTyped /\ LaserInv /\ SentOnce /\ UnsentOK /\ BlackoutOK /\ HandshakeOK /\ WireOK
      /\ UNCHANGED <<hubVars, laserVars, link>> /\ Reading("prepare") /\ ReadOn /\ Safe
      /\ UNCHANGED <<assigner, current, open, dispatch, row, assignment>>
      /\ UNCHANGED <<arm, logical, pulse, flash, stored, journal, output, emergency>>
  BY DEF ChannelInv, AckSafe, hubVars, laserVars
<1>2. /\ link \in Sockets /\ link # NoSocket /\ down[link] # <<>>
      /\ 1 \in Positions(down[link], "prepare") /\ Head(down[link]).about \in Scopes
  BY <1>1, ReadingMoves
<1>3. PICK m \in UpMessages : m.kind = "safe" /\ ToHub(m)
  BY <1>2 DEF AckSafe, Message, UpMessages
<1>4. /\ up' \in [Sockets -> Seq(UpMessages)]
      /\ link \notin open => up' = up
      /\ \A h \in Sockets : h # link => up'[h] = up[h]
      /\ \A h \in Sockets : up[h] # <<>> => up'[h] # <<>> /\ Head(up'[h]) = Head(up[h])
      /\ \A h \in Sockets : \A kind : \A i \in Positions(up'[h], kind) :
           \/ i \in Positions(up[h], kind) /\ i <= Len(up[h]) /\ up'[h][i] = up[h][i]
           \/ /\ h = link /\ link \in open /\ i = Len(up[h]) + 1
              /\ m.kind = kind /\ up'[h][i] = m
  BY <1>1, <1>2, <1>3, ToHubMoves
<1>5. /\ down' \in [Sockets -> Seq(DownMessages)]
      /\ \A h \in Sockets : h # link => down'[h] = down[h]
      /\ \A kind : \A i \in Positions(down'[link], kind) :
           /\ i \in Nat /\ i >= 1 /\ i + 1 \in Positions(down[link], kind)
           /\ down'[link][i] = down[link][i + 1]
  BY <1>1, <1>2, ReadOnMoves
<1>6. \A h \in Sockets : \A i \in Positions(up'[h], "result") :
        i \in Positions(up[h], "result") /\ up'[h][i] = up[h][i]
  BY <1>3, <1>4
<1>7. \A d \in Commands : (Unseen(d) => Unseen(d)') /\ (Confirmed(d)' => Confirmed(d))
  BY <1>1, <1>6 DEF Unseen, Confirmed
<1>8. LaserInv'
  BY <1>1, LaserInvStays
<1>9. UnsentOK' /\ BlackoutOK'
  BY <1>1, <1>7 DEF UnsentOK, BlackoutOK, Dark, Pulsing
<1>10. \A i \in Positions(down'[link], "execute") :
         /\ i \in Nat /\ i + 1 \in Positions(down[link], "execute")
         /\ down'[link][i] = down[link][i + 1] /\ down'[link][i].about \in Commands
  BY <1>1, <1>2, <1>5, WireTypes
<1>11. SentOnce'
  BY <1>1, <1>7, <1>10, SentKept
<1>12. WireOK'
  <2>1. ASSUME NEW i \in Positions(down'[link], "execute")
        PROVE  row[down'[link][i].about].snapshot = assignment.snapshot
    BY <1>1, <1>2, <1>10 DEF WireOK
  <2> QED
    BY <1>1, <2>1 DEF WireOK
<1>13. HandshakeOK'
  <2>1. Dark /\ Dark'
    BY <1>1, SafeIsDark DEF Dark, Pulsing
  <2>2. ASSUME NEW h \in open, h # link, h \in Sockets, Handshake(h)
        PROVE  Handshake(h)'
    <3>1. down'[h] = down[h] /\ up'[h] = up[h]
      BY <1>4, <1>5, <2>2
    <3>2. Positions(down[link], "execute") = {} => Positions(down'[link], "execute") = {}
      BY <1>5
    <3> QED
      BY <1>1, <2>1, <2>2, <3>1, <3>2 DEF Handshake
  <2>3. ASSUME link \in open, Handshake(link)
        PROVE  Handshake(link)'
    <3>1. /\ assigner.step = "waiting" /\ assigner.socket = link
          /\ Positions(up[link], "safe") = {}
          /\ \A i \in Positions(down[link], "prepare") : i = 1
          /\ \A j \in Positions(down[link], "execute") : j < 1
      BY <1>2, <2>3 DEF Handshake
    <3>2. Positions(down'[link], "prepare") = {}
      <4>1. ASSUME NEW i \in Positions(down'[link], "prepare") PROVE FALSE
        <5>1. i \in Nat /\ i >= 1 /\ i + 1 \in Positions(down[link], "prepare")
          BY <1>5
        <5>2. i + 1 = 1
          BY <3>1, <5>1
        <5> QED
          BY <5>1, <5>2
      <4> QED
        BY <4>1
    <3>3. Positions(down'[link], "execute") = {}
      <4>1. ASSUME NEW i \in Positions(down'[link], "execute") PROVE FALSE
        <5>1. i \in Nat /\ i >= 1 /\ i + 1 \in Positions(down[link], "execute")
          BY <1>5
        <5>2. i + 1 < 1
          BY <3>1, <5>1
        <5> QED
          BY <5>1, <5>2
      <4> QED
        BY <4>1
    <3>4. \A i \in Positions(up'[link], "safe") : i = Len(up[link]) + 1
      BY <1>2, <1>4, <3>1
    <3>5. \A i, j \in Positions(up'[link], "safe") : i = j
      BY <3>4
    <3> QED
      BY <1>1, <2>1, <3>1, <3>2, <3>3, <3>5 DEF Handshake
  <2> QED
    BY <1>1, <2>2, <2>3 DEF HandshakeOK, ChannelTyped, TypeOK
<1> QED
  BY <1>1, <1>4, <1>5, <1>8, <1>9, <1>11, <1>12, <1>13, DeviceStepKeepsInv

LEMMA UnlinkKeepsInv ==
  ASSUME ChannelInv, UNCHANGED <<hubVars, up>>, Unlink, LaserInv',
         \A d \in Commands : Unseen(d) => Unseen(d)', BlackoutOK', Dark => Dark'
  PROVE  ChannelInv'
<1>1. /\ ChannelTyped /\ LaserInv /\ SocketsOK /\ BoundOK /\ CutOK /\ OwnersOK
      /\ UnsentOK /\ SentOnce /\ BlackoutOK /\ AssignerOK /\ HandshakeOK
      /\ ActivationsOK /\ SendsOK /\ ScopeOK /\ WireOK
      /\ UNCHANGED <<generation, assignment, row, current, scope, bound, assigner,
                    open, handler, replaced, cut, dispatch, up>>
  BY DEF ChannelInv, hubVars, hubVars
<1>2. /\ link' = NoSocket /\ down' \in [Sockets -> Seq(DownMessages)]
      /\ \A g \in Sockets : down'[g] = <<>>
  BY DEF Unlink
<1>3. \A g \in Sockets : \A kind : Positions(down'[g], kind) = {}
  BY <1>2, EmptyWire
<1>4. Outstanding' = Outstanding
  BY <1>1 DEF Outstanding
<1>5. LaserInv'
  OBVIOUS
<1>6. ChannelTyped'
  BY <1>1, <1>2 DEF LaserInv, ChannelTyped, TypeOK
<1>7. SocketsOK'
  BY <1>1, <1>2 DEF SocketsOK
<1>8. UnsentOK'
  BY <1>1 DEF UnsentOK
<1>9. SentOnce'
  BY <1>2 DEF SentOnce
<1>10. BlackoutOK'
  OBVIOUS
<1>11. HandshakeOK'
  <2>1. ASSUME NEW g \in open, Handshake(g), g \in Sockets
        PROVE  Handshake(g)'
    BY <1>1, <1>2, <1>3, <2>1 DEF Handshake
  <2> QED
    BY <1>1, <2>1 DEF HandshakeOK, ChannelTyped, TypeOK
<1>12. WireOK'
  BY <1>2 DEF WireOK
<1> QED
  BY <1>1, <1>6, <1>7, <1>8, <1>9, <1>11, <1>12, BoundOKStays, CutOKStays,
     OwnersOKStays, AssignerOKStays, ActivationsOKStays, SendsOKStays, ScopeOKStays DEF
     ChannelInv

LEMMA LoseLinkKeepsInv ==
  ASSUME ChannelInv, LoseLink
  PROVE  ChannelInv'
<1>1. LaserInv /\ BlackoutOK /\ UNCHANGED <<row, up, laserVars, pulse, journal, emergency, arm, output, flash>>
  BY DEF ChannelInv, LoseLink, hubVars, laserVars
<1>2. LaserInv'
  BY <1>1, LaserInvStays
<1>3. (\A d \in Commands : Unseen(d) => Unseen(d)') /\ BlackoutOK' /\ (Dark => Dark')
  BY <1>1 DEF Unseen, BlackoutOK, Confirmed, Dark, Pulsing
<1> QED
  BY <1>2, <1>3, UnlinkKeepsInv DEF LoseLink

LEMMA RestartDeviceKeepsInv ==
  ASSUME ChannelInv, RestartDevice
  PROVE  ChannelInv'
<1>1. LaserInv /\ BlackoutOK /\ UNCHANGED <<row, up>>
  BY DEF ChannelInv, RestartDevice, hubVars
<1>2. PICK reset \in ResetClasses : RestoreMachine(reset)
  BY DEF RestartDevice
<1>3. /\ LaserInv' /\ journal' = [c \in Commands |-> "none"] /\ emergency' = emergency
      /\ pulse'.command = NoCommand /\ ~Pulsing' /\ (Dark => Dark')
  BY <1>1, <1>2, RestoreKeepsInv, RestoreHeeds
<1>4. \A d \in Commands : (Unseen(d) => Unseen(d)') /\ (Confirmed(d)' => Confirmed(d))
  BY <1>1, <1>3, StageLaserAssumption DEF Unseen, Confirmed
<1>5. BlackoutOK'
  BY <1>1, <1>3, <1>4 DEF BlackoutOK
<1> QED
  BY <1>3, <1>4, <1>5, UnlinkKeepsInv DEF RestartDevice

LEMMA RestartHubKeepsInv ==
  ASSUME ChannelInv, RestartHub
  PROVE  ChannelInv'
<1>1. /\ ChannelTyped /\ LaserInv /\ SocketsOK /\ BoundOK /\ CutOK /\ OwnersOK
      /\ UnsentOK /\ SentOnce /\ BlackoutOK /\ AssignerOK /\ HandshakeOK
      /\ ActivationsOK /\ SendsOK /\ ScopeOK /\ WireOK
      /\ UNCHANGED <<generation, assignment, row, replaced, arm, logical, pulse,
                    flash, stored, journal, output, emergency, down, link>>
      /\ UNCHANGED laserVars
  BY DEF ChannelInv, RestartHub, laserVars
<1>2. /\ current' = NoSocket /\ open' = {} /\ assigner' = Idle
      /\ assigner' \in [step : {"idle", "reserved", "waiting", "answered"},
                       socket : Sockets \cup {NoSocket}, target : Snapshots \cup {NoSnapshot}]
      /\ \A g \in Sockets : scope'[g] = Nothing /\ cut'[g] = {} /\ up'[g] = <<>>
      /\ \A g \in Sockets : handler'[g] = IF handler[g] = "none" THEN "none" ELSE "ended"
      /\ \A c \in Commands : bound'[c] = NoSocket
  BY <1>1 DEF RestartHub, Idle
<1>3. /\ scope' \in [Sockets -> Scopes] /\ up' \in [Sockets -> Seq(UpMessages)]
      /\ cut' \in [Sockets -> SUBSET Commands] /\ bound' \in [Commands -> Sockets \cup {NoSocket}]
      /\ handler' \in [Sockets -> HandlerSteps]
  BY DeviceChannelAssumption DEF RestartHub, Nothing, Scopes, HandlerSteps
<1>4. /\ dispatch' \in [Commands -> [step : Steps, socket : Sockets \cup {NoSocket}]]
      /\ \A c \in Commands :
           \/ dispatch'[c] = dispatch[c] /\ dispatch[c].step \in {"idle", "done"}
           \/ dispatch'[c].step = "lost" /\ dispatch'[c].socket = NoSocket
  BY <1>1 DEF RestartHub, ChannelTyped, TypeOK, Steps
<1>5. \A g \in Sockets : \A kind : Positions(up'[g], kind) = {}
  BY <1>2, EmptyWire
<1>6. \A d \in Commands : (Unseen(d) => Unseen(d)') /\ (Confirmed(d)' => Confirmed(d))
  BY <1>1, <1>5 DEF Unseen, Confirmed
<1>7. /\ Outstanding' = Outstanding
      /\ Dark' <=> Dark
      /\ Pulsing' <=> Pulsing
  BY <1>1 DEF Outstanding, Dark, Pulsing
<1>8. LaserInv'
  BY <1>1, LaserInvStays
<1>9. ChannelTyped'
  BY <1>1, <1>2, <1>3, <1>4, <1>8 DEF LaserInv, ChannelTyped, TypeOK
<1>10. SocketsOK'
  BY <1>1, <1>2 DEF SocketsOK
<1>11. BoundOK'
  BY <1>2 DEF BoundOK
<1>12. CutOK'
  BY <1>2 DEF CutOK
<1>13. OwnersOK'
  BY <1>1, <1>4, <1>7 DEF OwnersOK
<1>14. UnsentOK'
  <2>1. \A c \in Commands : dispatch'[c].step \in {"idle", "created", "send"} => dispatch[c].step = "idle"
    BY <1>4
  <2> QED
    BY <1>1, <1>6, <2>1 DEF UnsentOK
<1>15. SentOnce'
  <2>1. ASSUME link # NoSocket, NEW i \in Positions(down[link], "execute"), NEW c \in Commands,
               c = down[link][i].about
        PROVE  Unseen(c)' /\ dispatch'[c].step \notin {"idle", "created", "send"}
    BY <1>1, <1>4, <1>6, <2>1 DEF SentOnce
  <2>2. link # NoSocket => \A i \in Positions(down[link], "execute") : down[link][i].about \in Commands
    BY <1>1, WireTypes
  <2> QED
    BY <1>1, <2>1, <2>2 DEF SentOnce
<1>16. BlackoutOK'
  BY <1>1, <1>6, <1>7 DEF BlackoutOK
<1>17. AssignerOK'
  BY <1>2 DEF AssignerOK
<1>18. HandshakeOK'
  BY <1>2 DEF HandshakeOK
<1>19. ActivationsOK'
  BY <1>2 DEF ActivationsOK
<1>20. SendsOK'
  BY <1>2 DEF SendsOK
<1>21. ScopeOK'
  BY <1>2 DEF ScopeOK
<1> QED
  BY <1>1, <1>8, <1>9, <1>10, <1>11, <1>12, <1>13, <1>14, <1>15, <1>16, <1>17, <1>18,
     <1>19, <1>20, <1>21, WireOKStays DEF ChannelInv

-----------------------------------------------------------------------------
(* The invariant of the channel.                                           *)

LEMMA StutterKeepsInv ==
  ASSUME ChannelInv, UNCHANGED vars
  PROVE  ChannelInv'
<1>1. UNCHANGED <<hubVars, down, up, link, laserVars>>
  BY DEF vars
<1>2. LaserInv'
  BY <1>1, LaserInvStays DEF ChannelInv
<1>3. UNCHANGED <<row, journal, emergency, pulse, arm, output, flash>>
  BY <1>1 DEF hubVars, laserVars
<1>4. (\A d \in Commands : Unseen(d) => Unseen(d)') /\ BlackoutOK' /\ (Dark => Dark')
  BY <1>1, <1>3 DEF ChannelInv, Unseen, BlackoutOK, Confirmed, Dark, Pulsing
<1> QED
  BY <1>1, <1>2, <1>4, QuietStepKeepsInv

LEMMA InitChannelInv == Init => ChannelInv
<1> SUFFICES ASSUME Init PROVE ChannelInv
  OBVIOUS
<1>1. LaserInv
  BY InitInv DEF Init
<1>2. assignment \in Scopes
  BY DeviceChannelAssumption DEF Init, Unassigned, Scopes
<1>3. ChannelTyped
  <2>1. /\ row \in [Commands -> [status : Statuses, snapshot : Snapshots \cup {NoSnapshot}]]
        /\ scope \in [Sockets -> Scopes] /\ bound \in [Commands -> Sockets \cup {NoSocket}]
    BY DeviceChannelAssumption DEF Init, Statuses, Scopes, Nothing
  <2>2. assigner \in [step : {"idle", "reserved", "waiting", "answered"},
                      socket : Sockets \cup {NoSocket}, target : Snapshots \cup {NoSnapshot}]
    BY DEF Init, Idle
  <2>3. /\ handler \in [Sockets -> HandlerSteps]
        /\ replaced \in [Sockets -> Sockets \cup {NoSocket}]
        /\ cut \in [Sockets -> SUBSET Commands]
        /\ dispatch \in [Commands -> [step : Steps, socket : Sockets \cup {NoSocket}]]
    BY DEF Init, HandlerSteps, Steps
  <2>4. /\ down \in [Sockets -> Seq(DownMessages)] /\ up \in [Sockets -> Seq(UpMessages)]
        /\ DOMAIN down = Sockets /\ DOMAIN up = Sockets
    BY DEF Init
  <2>5. /\ generation \in 0..MaxGeneration /\ current \in Sockets \cup {NoSocket}
        /\ open \subseteq Sockets /\ link \in Sockets \cup {NoSocket}
    BY DeviceChannelAssumption DEF Init
  <2> QED
    BY <1>1, <1>2, <2>1, <2>2, <2>3, <2>4, <2>5 DEF ChannelTyped, TypeOK, LaserInv
<1>4. /\ \A g \in Sockets : \A kind : Positions(up[g], kind) = {} /\ Positions(down[g], kind) = {}
      /\ ~Pulsing
  BY EmptyWire DEF Init, LaserInit, NoPulse, Pulsing
<1>5. \A c \in Commands : Unseen(c) /\ ~Confirmed(c) /\ c \notin Outstanding
  BY <1>4, StageLaserAssumption DEF Init, LaserInit, NoPulse, Unseen, Confirmed,
     Outstanding
<1>6. SocketsOK /\ BoundOK /\ CutOK
  BY DEF Init, SocketsOK, BoundOK, CutOK
<1>7. OwnersOK /\ UnsentOK /\ SentOnce /\ BlackoutOK
  BY <1>4, <1>5 DEF Init, OwnersOK, UnsentOK, SentOnce, BlackoutOK
<1>8. AssignerOK /\ HandshakeOK /\ ActivationsOK /\ SendsOK /\ ScopeOK /\ WireOK
  BY DEF Init, AssignerOK, HandshakeOK, ActivationsOK, SendsOK, ScopeOK, WireOK
<1> QED
  BY <1>1, <1>3, <1>6, <1>7, <1>8 DEF ChannelInv

LEMMA NextChannelInv == ChannelInv /\ [Next]_vars => ChannelInv'
<1> SUFFICES ASSUME ChannelInv, [Next]_vars PROVE ChannelInv'
  OBVIOUS
<1>1. ASSUME NEW c \in Commands, CreateCommand(c) \/ Dispatching(c) \/ InterruptCommand(c)
      PROVE  ChannelInv'
  BY <1>1, CreateCommandKeepsInv, BindKeepsInv, SendKeepsInv, FailCommandKeepsInv,
     InterruptCommandKeepsInv DEF Dispatching
<1>2. ASSUME NEW g \in Sockets, Serving(g) \/ CloseSocket(g)
      PROVE  ChannelInv'
  BY <1>2, DisplaceKeepsInv, AnnounceKeepsInv, ReadScopeAckKeepsInv,
     ActivateScopeKeepsInv, DeliverSafeAckKeepsInv, ReadResultKeepsInv, LeaveKeepsInv,
     UnregisterKeepsInv, FailInterruptedKeepsInv, CloseSocketKeepsInv DEF Serving
<1>3. ASSUME NEW target \in Snapshots, BeginAssignment(target)
      PROVE  ChannelInv'
  BY <1>3, BeginAssignmentKeepsInv
<1>4. CASE Assigning
  BY <1>4, SendPrepareKeepsInv, AbandonAssignmentKeepsInv, CommitAssignmentKeepsInv DEF
     Assigning
<1>5. CASE Device
  BY <1>5, MakeSafeKeepsInv, AckScopeKeepsInv, AckSafeKeepsInv, ExecuteCommandKeepsInv
     DEF Device
<1>6. CASE Register \/ ReleaseRelay \/ FlashTimer \/ LoseLink \/ RestartDevice \/ RestartHub
  BY <1>6, RegisterKeepsInv, ReleaseRelayKeepsInv, FlashTimerKeepsInv, LoseLinkKeepsInv,
     RestartDeviceKeepsInv, RestartHubKeepsInv
<1>7. CASE UNCHANGED vars
  BY <1>7, StutterKeepsInv
<1> QED
  BY <1>1, <1>2, <1>3, <1>4, <1>5, <1>6, <1>7 DEF Next

(* ChannelInv holds in every state of the channel and the laser, for any    *)
(* commands, snapshots and numbers of sockets and epochs                    *)
(* (internal/devicechannel, internal/stagelaser).                           *)
THEOREM ChannelInvariant == Spec => []ChannelInv
  BY InitChannelInv, NextChannelInv, PTL DEF Spec

-----------------------------------------------------------------------------
(* What follows from it.                                                   *)

(* Every variable of the Hub, the wires and the device keeps its type       *)
(* (Runtime, stage_device_commands, stage_device_assignments).              *)
THEOREM ChannelTypes == Spec => []TypeOK
<1>1. ChannelInv => TypeOK
  BY DEF ChannelInv, ChannelTyped
<1> QED
  BY <1>1, ChannelInvariant, PTL

(* A blackout on record as COMPLETED left the laser dark until it is armed  *)
(* again: the confirmation travels with the darkness that it is about       *)
(* (setStageLaserSafeOff, Machine.disarm, serveConnection).                 *)
THEOREM EmergencyDark == Spec => []EmergencyIsDark
<1>1. ASSUME ChannelInv, NEW c \in Commands, TypeOf[c] = "SAFE_OFF",
             row[c].status = "COMPLETED", emergency[c] # "rearmed"
      PROVE  output = "OFF" /\ ~Pulsing
  <2>1. LaserTypeOK /\ BlackoutOK
    BY <1>1 DEF ChannelInv, LaserInv
  <2>2. emergency[c] # "none" /\ (emergency[c] = "came" => Dark)
    BY <1>1, <2>1 DEF BlackoutOK, Confirmed
  <2>3. emergency[c] \in {"none", "came", "rearmed"}
    BY <2>1 DEF LaserTypeOK
  <2> QED
    BY <1>1, <2>2, <2>3 DEF Dark
<1>2. ChannelInv => EmergencyIsDark
  BY <1>1 DEF EmergencyIsDark
<1> QED
  BY <1>2, ChannelInvariant, PTL

(* The open socket is enabled for the assignment of now, and so is every    *)
(* command still on the wire to the device (activateStageLaserScope,        *)
(* Dispatch, CommitStageLaserSafeAssignment).                               *)
THEOREM ScopeAssigned == Spec => []ScopeIsAssigned
<1>1. ChannelInv => ScopeIsAssigned
  BY DEF ChannelInv, ScopeOK, WireOK, ScopeIsAssigned, ToExecute, Positions
<1> QED
  BY <1>1, ChannelInvariant, PTL

(* Somebody is left to end every ACCEPTED command (Dispatch, unregister,    *)
(* failInterruptedCommands).                                                *)
THEOREM AcceptedOwned == Spec => []AcceptedHasOwner
<1>1. ASSUME ChannelInv, NEW c \in Outstanding
      PROVE  \/ dispatch[c].step \in {"created", "send", "fail", "lost"}
             \/ bound[c] # NoSocket /\ handler[bound[c]] \notin {"none", "unregistered", "ended"}
             \/ \E g \in Sockets : c \in cut[g] /\ handler[g] = "unregistered"
  <2>1. c \in Commands /\ ChannelTyped /\ OwnersOK /\ BoundOK /\ CutOK
    BY <1>1 DEF ChannelInv, Outstanding
  <2>2. dispatch[c].step \in Steps
    BY <2>1 DEF ChannelTyped, TypeOK
  <2>3. dispatch[c].step \notin {"idle", "done"}
    BY <1>1, <2>1 DEF OwnersOK
  <2>4. CASE dispatch[c].step = "wait"
    <3>1. bound[c] # NoSocket \/ \E g \in Sockets : c \in cut[g]
      BY <2>1, <2>4 DEF OwnersOK
    <3> QED
      BY <2>1, <3>1 DEF BoundOK, CutOK, Live
  <2> QED
    BY <2>2, <2>3, <2>4 DEF Steps
<1>2. ChannelInv => AcceptedHasOwner
  BY <1>1 DEF AcceptedHasOwner
<1> QED
  BY <1>2, ChannelInvariant, PTL

\* Nothing but a commit moves the assignment.
LEMMA CommitMoves ==
  ASSUME ChannelInv, Next, assignment' # assignment
  PROVE  /\ assigner.step = "answered" /\ current = assigner.socket /\ current \in open
  BY DEF Next, CreateCommand, Dispatching, Bind, Send, FailCommand, InterruptCommand,
         Register, Serving, Displace, Announce, ReadScopeAck, ActivateScope, DeliverSafeAck,
         ReadResult, Leave, Unregister, FailInterrupted, CloseSocket, BeginAssignment,
         Assigning, SendPrepare, AbandonAssignment, CommitAssignment,
         Device, MakeSafe, AckScope, AckSafe, ExecuteCommand, ReleaseRelay, FlashTimer,
         LoseLink, RestartDevice, RestartHub, hubVars

(* A laser changes its Runtime Snapshot only while it is dark and disarmed  *)
(* and nothing of the old one can reach it: between the prepare message and *)
(* the commit nothing is sent, so the answer tells what holds at the commit *)
(* (ExecuteStageLaserAssignmentAuthorized, CommitStageLaserSafeAssignment). *)
THEOREM CommitSafe == Spec => CommitIsSafe
<1>1. ASSUME ChannelInv, [Next]_vars, assignment' # assignment
      PROVE  /\ output = "OFF" /\ arm = "DISARMED" /\ ~Pulsing
             /\ link # NoSocket => ToExecute = {}
  <2>1. Next
    BY <1>1 DEF vars, hubVars
  <2>2. assigner.step = "answered" /\ current = assigner.socket /\ current \in open
    BY <1>1, <2>1, CommitMoves
  <2>3. Handshake(current)
    BY <1>1, <2>2 DEF ChannelInv, HandshakeOK
  <2> QED
    BY <2>2, <2>3 DEF Handshake, Dark, ToExecute, Positions
<1>2. ChannelInv /\ [Next]_vars =>
        [assignment' # assignment =>
           /\ output = "OFF" /\ arm = "DISARMED" /\ ~Pulsing
           /\ link # NoSocket => ToExecute = {}]_vars
  BY <1>1
<1> QED
  BY <1>2, ChannelInvariant, PTL DEF Spec, CommitIsSafe

(* What the machine says of a light that it believes it knows stays true    *)
(* behind the channel too, where commands are lost, repeated and cut off.   *)
THEOREM ChannelTracksLight == Spec => []TrackedIsTrue
<1>1. ChannelInv => TrackedIsTrue
  BY DEF ChannelInv, LaserInv
<1> QED
  BY <1>1, ChannelInvariant, PTL

=============================================================================
