---------------------------- MODULE MCSiteServices ----------------------------
(* Small instances, for TLC, of the services around a show.  They share      *)
(* nothing but the machine: a behaviour is one of one of them.               *)
EXTENDS SimulationControl, Vault, FirmwareUpdate, HubUpdate, CompanionChannel,
        ExtensionRuntime, ExtensionInstall, DependencyPlan, Timecode, TimecodeFrames, CueActions, Revisions,
        TLC

CONSTANTS
  c1, c2, c3, e1, e2, u1, u2, l1, l2, l3, l4, l5, l6, NoCommand,
  Parts, SharedPower

\* Two callers ask for one execution, and one for another.
ThreeCalls == c1 :> e1 @@ c2 :> e1 @@ c3 :> e2

\* Two updates with the same artifact.
SameArtifact == u1 :> "v2" @@ u2 :> "v2"

\* One command of every kind that DeviceShow does not send.
Commands == {l1, l2, l3, l4, l5, l6}
TypeOf == l1 :> "ARM" @@ l2 :> "SET_ON" @@ l3 :> "SET_OFF" @@ l4 :> "DISARM"
          @@ l5 :> "STATE_READ" @@ l6 :> "STATE_RESYNC"

\* Two bindings that one sample may cross, and two of one Cue; one is on time
\* or never.
Binding(c, t, e) == [cue |-> c, target |-> t, expiry |-> e]
ThreeBindings == <<Binding(1, 1, 1), Binding(2, 2, 0), Binding(2, 3, 1)>>

\* Every rate, from just before a minute, ten of them, noon and midnight.
SixRates == {[fps |-> n, drop |-> FALSE] : n \in {24, 25, 30, 60}}
              \cup {[fps |-> n, drop |-> TRUE] : n \in {30, 60}}
NearMinutes == {[hours |-> at[1], minutes |-> at[2], seconds |-> 59, frames |-> f] :
                  at \in {<<0, 0>>, <<0, 9>>, <<11, 59>>, <<23, 59>>}, f \in {22, 28, 58}}

\* Two packages of each of two extensions; the second of the one needs the
\* second of the other.
PackageExt == "lib1" :> "lib" @@ "lib2" :> "lib" @@ "app1" :> "app" @@ "app2" :> "app"
PackageNeeds == "lib1" :> {} @@ "lib2" :> {} @@ "app1" :> {"lib1", "lib2"} @@ "app2" :> {"lib2"}
PackagePermits == "lib1" :> {} @@ "lib2" :> {} @@ "app1" :> {"net"} @@ "app2" :> {"net"}

\* A root, and two extensions of two versions that may need one another.
Nothing == [min |-> 0, max |-> 0]
Only(v) == [min |-> v, max |-> v]
Between(v, w) == [min |-> v, max |-> w]
Some == {Nothing, Only(1), Only(2)}
SmallLibraries ==
  {<< << <<Nothing, q, r>> >>,
      << <<Nothing, Nothing, s1>>, <<Nothing, Nothing, s2>> >>,
      << <<Nothing, t1, Nothing>>, <<Nothing, t2, Nothing>> >> >> :
     q \in {Nothing, Between(1, 2)}, r \in Some \cup {Between(1, 2)},
     s1 \in Some, s2 \in Some, t1 \in Some, t2 \in Some}
Simplest ==
  LET alone == <<Nothing, Nothing, Nothing>> IN << <<alone>>, <<alone, alone>>, <<alone, alone>> >>

\* A Cue of every mode, one that may be linked to it, and one out of use.
ThreeCues == 1..3
OnOff == <<TRUE, TRUE, FALSE>>
TwoLinked == {f \in [ThreeCues -> SUBSET ThreeCues] : f[3] \subseteq {3}}
Action(m, s) == [mode |-> m, strict |-> s]
ActionsOf ==
  << <<Action("PARALLEL", TRUE), Action("PARALLEL_BARRIER", FALSE), Action("SEQUENTIAL", TRUE)>>,
     <<Action("PARALLEL", FALSE), Action("SEQUENTIAL", TRUE)>>, << >> >>

\* Two uploads of one ticket beside a capture, and every two workflows of which
\* one rolls back.
Crew(a, b, c) == "f1" :> a @@ "f2" :> b @@ "f3" :> c
Removing == {"upload", "mediaCapsule", "environmentCapsule"}
SmallCrews ==
  {Crew("upload", "upload", "capture")}
    \cup {Crew(a, b, "none") : a \in Removing, b \in Removing \cup {"capture", "package"}}
OneTicket == [f \in Flows |-> "k1"]

\* Two Cues and one to come; one operator arranges, one publishes.
ThreeNames == {"a", "b", "n"}
TwoCues == "a" :> 1 @@ "b" :> 2
TwoDuties == "o1" :> {"cue", "reorder", "add"} @@ "o2" :> {"output", "publish"}

\* A range of each Cue.
SingleCues == {<<1, 1>>, <<2, 2>>}

VARIABLES
  part,  \* which service
  arm, logical, pulse, flash, stored, journal, output, emergency

Laser == INSTANCE StageLaser

laserVars == <<arm, logical, pulse, flash, stored, journal, output, emergency>>

deviceVars == <<laserVars, updateVars>>
hubSideVars == <<hubUpdateVars, channelVars>>
extensionsVars == <<runtimeVars, installVars, planVars>>
clockVars == <<timecodeVars, framesVars>>
contentVars == <<vaultVars, revisionVars>>
showVars == <<cueVars, simulationVars, contentVars>>

vars == <<part, deviceVars, hubSideVars, extensionsVars, clockVars, showVars>>

\* A part that does not run starts in one way only.
Init ==
  /\ part \in Parts
  /\ IF part = "cue" THEN TRUE ELSE group = {RootCue}
  /\ CueInit
  /\ Laser!LaserInit
  /\ UpdateInit
  /\ RuntimeInit
  /\ HubUpdateInit
  /\ ChannelInit
  /\ IF part = "timecode" THEN TRUE ELSE kind = "MTC" /\ mode = "SHOW"
  /\ TimecodeInit
  /\ IF part = "frames" THEN TRUE
     ELSE rate = [fps |-> 24, drop |-> FALSE]
          /\ start = [hours |-> 0, minutes |-> 0, seconds |-> 59, frames |-> 22]
  /\ FramesInit
  /\ InstallInit
  /\ IF part = "plan" THEN TRUE ELSE library = Simplest /\ inplace = <<0, 0, 0>>
  /\ PlanInit
  /\ SimulationInit
  /\ IF part = "vault" THEN TRUE ELSE work = Crew("upload", "upload", "capture")
  /\ VaultInit
  /\ RevisionsInit

Next ==
  \/ /\ part = "laser" /\ Laser!LaserNext
     /\ UNCHANGED <<part, updateVars, hubSideVars, extensionsVars, clockVars, showVars>>
  \/ /\ part = "firmware" /\ UpdateNext
     /\ UNCHANGED <<part, laserVars, hubSideVars, extensionsVars, clockVars, showVars>>
  \/ /\ part = "hub" /\ HubUpdateNext
     /\ UNCHANGED <<part, deviceVars, channelVars, extensionsVars, clockVars, showVars>>
  \/ /\ part = "companion" /\ ChannelNext
     /\ UNCHANGED <<part, deviceVars, hubUpdateVars, extensionsVars, clockVars, showVars>>
  \/ /\ part = "extension" /\ RuntimeNext
     /\ UNCHANGED <<part, deviceVars, hubSideVars, installVars, planVars, clockVars, showVars>>
  \/ /\ part = "install" /\ InstallNext
     /\ UNCHANGED <<part, deviceVars, hubSideVars, runtimeVars, planVars, clockVars, showVars>>
  \/ /\ part = "plan" /\ PlanNext
     /\ UNCHANGED <<part, deviceVars, hubSideVars, runtimeVars, installVars, clockVars, showVars>>
  \/ /\ part = "timecode" /\ TimecodeNext
     /\ UNCHANGED <<part, deviceVars, hubSideVars, extensionsVars, framesVars, showVars>>
  \/ /\ part = "frames" /\ FramesNext
     /\ UNCHANGED <<part, deviceVars, hubSideVars, extensionsVars, timecodeVars, showVars>>
  \/ /\ part = "cue" /\ CueNext
     /\ UNCHANGED <<part, deviceVars, hubSideVars, extensionsVars, clockVars, simulationVars,
                    contentVars>>
  \/ /\ part = "simulation" /\ SimulationNext
     /\ UNCHANGED <<part, deviceVars, hubSideVars, extensionsVars, clockVars, cueVars,
                    contentVars>>
  \/ /\ part = "vault" /\ VaultNext
     /\ UNCHANGED <<part, deviceVars, hubSideVars, extensionsVars, clockVars, cueVars,
                    simulationVars, revisionVars>>
  \/ /\ part = "revisions" /\ RevisionsNext
     /\ UNCHANGED <<part, deviceVars, hubSideVars, extensionsVars, clockVars, cueVars,
                    simulationVars, vaultVars>>

Spec == Init /\ [][Next]_vars

-----------------------------------------------------------------------------

TypeOK ==
  /\ part = "laser" => Laser!LaserTypeOK
  /\ part = "firmware" => UpdateTypeOK
  /\ part = "extension" => RuntimeTypeOK
  /\ part = "hub" => HubUpdateTypeOK
  /\ part = "companion" => ChannelTypeOK
  /\ part = "timecode" => TimecodeTypeOK
  /\ part = "frames" => FramesTypeOK
  /\ part = "install" => InstallTypeOK
  /\ part = "plan" => PlanTypeOK
  /\ part = "cue" => CueTypeOK
  /\ part = "simulation" => SimulationTypeOK
  /\ part = "vault" => VaultTypeOK
  /\ part = "revisions" => RevisionsTypeOK
=============================================================================
