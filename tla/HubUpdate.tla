------------------------------ MODULE HubUpdate ------------------------------
(***************************************************************************)
(* The update of the Hub itself, by a tool outside it: update/service.go   *)
(* (Apply, rollback), update/snapshot.go (Create, Restore), and            *)
(* deployment/install.go (Install), around the systemd unit of the Hub.    *)
(*                                                                         *)
(* A path that the update touches is at the version the site had, at that  *)
(* of the candidate, between the two, or missing.  A step is one file      *)
(* system operation that is atomic, or one systemctl command.              *)
(***************************************************************************)
EXTENDS Integers, Sequences, FiniteSets

CONSTANTS
  MaxApply,     \* bound: the updates that the operator tries
  MaxPowerLoss  \* bound: the times that the machine loses its power

ASSUME HubUpdateAssumption == MaxApply \in Nat /\ MaxPowerLoss \in Nat

VARIABLES
  files,     \* the version of every path
  saved,     \* the rollback snapshots that are complete
  hub,       \* the version of the Hub that is up, "down" when none is
  wanted,    \* systemd was told to have it up, and tries again
  show,      \* a SHOW is active, by the database
  tool,      \* Apply: its step, its snapshot, and what is left to restore
  result,    \* what the last Apply returned
  applied,   \* bound
  losses,    \* bound
  before,    \* history: the paths when the last Apply began
  updated    \* history: an Apply has succeeded

hubUpdateVars ==
  <<files, saved, hub, wanted, show, tool, result, applied, losses, before, updated>>

Paths == {"binaries", "config", "data", "unit"}
Versions == {"old", "between", "new", "missing"}

\* The order of the snapshot's manifest, in which Restore goes through it.
Manifest == <<"binaries", "config", "data", "unit">>

Untouched == [p \in Paths |-> "old"]
NoTool == [step |-> "idle", snapshot |-> Untouched, show |-> FALSE, left |-> <<>>]

HubUpdateInit ==
  /\ files = Untouched
  /\ saved = {}
  /\ hub = "old" /\ wanted = TRUE
  /\ show = FALSE
  /\ tool = NoTool
  /\ result = "none"
  /\ applied = 0 /\ losses = 0
  /\ before = Untouched
  /\ updated = FALSE

Enter(step) == tool' = [tool EXCEPT !.step = step]
Return(what) == tool' = NoTool /\ result' = what

\* systemd starts the Hub: the binary of the Hub is the first that is installed.
\* The candidate migrates the database, one migration at a time, and may fail.
Boots ==
  LET version == IF files["binaries"] = "old" THEN "old" ELSE "new"
      whole == \A p \in Paths : files[p] # "missing"
  IN  /\ wanted' = TRUE
      /\ \/ hub' = "down" /\ UNCHANGED files
         \/ /\ whole
            /\ hub' = version
            /\ files' = IF version = "old" THEN files ELSE [files EXCEPT !["data"] = "new"]
         \/ /\ whole /\ version = "new" /\ files["data"] = "old"
            /\ hub' = "down"
            /\ files' = [files EXCEPT !["data"] = "between"]

-----------------------------------------------------------------------------
\* Apply.

\* The plan, the candidate's checksums, and doctor, which blocks without a Hub.
BeginApply ==
  /\ tool.step = "idle" /\ applied < MaxApply
  /\ applied' = applied + 1
  /\ before' = files
  /\ \/ Return("refused")
     \/ hub # "down" /\ Enter("guarding") /\ result' = "none"
  /\ UNCHANGED <<files, saved, hub, wanted, show, losses, updated>>

GuardShow ==
  /\ tool.step = "guarding"
  /\ IF show THEN Return("refused") ELSE Enter("stopping") /\ UNCHANGED result
  /\ UNCHANGED <<files, saved, hub, wanted, show, applied, losses, before, updated>>

StopForSnapshot ==
  /\ tool.step = "stopping"
  /\ \/ hub' = "down" /\ wanted' = FALSE /\ Enter("saving") /\ UNCHANGED result
     \/ Return("refused") /\ UNCHANGED <<hub, wanted>>
  /\ UNCHANGED <<files, saved, show, applied, losses, before, updated>>

\* Faulty variant: an update goes on without a snapshot.
CreateSnapshotOptional ==
  /\ tool.step = "saving"
  /\ tool' = [tool EXCEPT !.step = "first", !.snapshot = files, !.show = show]
  /\ saved' \in {saved, saved \cup {files}}
  /\ UNCHANGED <<files, hub, wanted, show, result, applied, losses, before, updated>>

\* Create copies into a staging directory and renames it when it is complete.
CreateSnapshot ==
  /\ tool.step = "saving"
  /\ \/ /\ \A p \in Paths : files[p] # "missing"
        /\ saved' = saved \cup {files}
        /\ tool' = [tool EXCEPT !.step = "first", !.snapshot = files, !.show = show]
     \/ Enter("unsaved") /\ UNCHANGED saved
  /\ UNCHANGED <<files, hub, wanted, show, result, applied, losses, before, updated>>

\* The unchanged Hub is started again.
StartUnchanged ==
  /\ tool.step = "unsaved"
  /\ Boots
  /\ IF hub' = "down" THEN Return("stranded") ELSE Return("refused")
  /\ UNCHANGED <<saved, show, applied, losses, before, updated>>

\* Install: one binary after another, the listen address when the operator asks
\* for another, the unit.  Every file is replaced by a rename.
Installs(step, path, version, next) ==
  /\ tool.step = step
  /\ \/ files' = [files EXCEPT ![path] = version] /\ Enter(next)
     \/ Enter("rollback") /\ UNCHANGED files
  /\ UNCHANGED <<saved, hub, wanted, show, result, applied, losses, before, updated>>

InstallFirst == Installs("first", "binaries", IF files["binaries"] = "new" THEN "new" ELSE "between", "rest")
InstallRest == Installs("rest", "binaries", "new", "config")
InstallConfig == \E version \in {files["config"], "new"} : Installs("config", "config", version, "unit")
InstallUnit == Installs("unit", "unit", "new", "restart")

RestartCandidate ==
  /\ tool.step = "restart"
  /\ Boots
  /\ Enter("readiness") \/ Enter("rollback")
  /\ UNCHANGED <<saved, show, result, applied, losses, before, updated>>

\* Faulty variant: a restart that systemd accepted is a Hub that is up.
JudgeByRestart ==
  /\ tool.step = "readiness"
  /\ Return("updated") /\ updated' = TRUE
  /\ UNCHANGED <<files, saved, hub, wanted, show, applied, losses, before>>

\* waitReady, which a Hub that is up may still fail, and doctor.
Judge ==
  /\ tool.step = "readiness"
  /\ \/ hub # "down" /\ Return("updated") /\ updated' = TRUE
     \/ Enter("rollback") /\ UNCHANGED <<result, updated>>
  /\ UNCHANGED <<files, saved, hub, wanted, show, applied, losses, before>>

StopCandidate ==
  /\ tool.step = "rollback"
  /\ \/ /\ hub' = "down" /\ wanted' = FALSE
        /\ tool' = [tool EXCEPT !.step = "restoring", !.left = Manifest]
        /\ UNCHANGED result
     \/ Return("rollback failed") /\ UNCHANGED <<hub, wanted>>
  /\ UNCHANGED <<files, saved, show, applied, losses, before, updated>>

\* Restore stages the copy, removes the path, and renames the copy to it.
RemovePath ==
  /\ tool.step = "restoring" /\ tool.left # <<>>
  /\ \/ /\ files' = [files EXCEPT ![Head(tool.left)] = "missing"]
        /\ Enter("removed") /\ UNCHANGED result
     \/ Return("rollback failed") /\ UNCHANGED files
  /\ UNCHANGED <<saved, hub, wanted, show, applied, losses, before, updated>>

PromotePath ==
  LET p == Head(tool.left)
  IN  /\ tool.step = "removed"
      /\ \/ /\ files' = [files EXCEPT ![p] = tool.snapshot[p]]
            /\ show' = IF p = "data" THEN tool.show ELSE show
            /\ tool' = [tool EXCEPT !.step = "restoring", !.left = Tail(@)]
            /\ UNCHANGED result
         \/ Return("rollback failed") /\ UNCHANGED <<files, show>>
      /\ UNCHANGED <<saved, hub, wanted, applied, losses, before, updated>>

\* The restored Hub is started and examined.
StartRestored ==
  /\ tool.step = "restoring" /\ tool.left = <<>>
  /\ Boots
  /\ \/ hub' # "down" /\ Return("rolled back")
     \/ Return("rollback failed")
  /\ UNCHANGED <<saved, show, applied, losses, before, updated>>

-----------------------------------------------------------------------------

\* An operator starts and ends a SHOW.
ToggleActiveShow ==
  /\ hub # "down"
  /\ show' = ~show
  /\ UNCHANGED <<files, saved, hub, wanted, tool, result, applied, losses, before, updated>>

\* The tool is gone, and the enabled unit starts what it finds.
LosePower ==
  /\ losses < MaxPowerLoss
  /\ losses' = losses + 1
  /\ Return("none")
  /\ Boots
  /\ UNCHANGED <<saved, show, applied, before, updated>>

\* Restart=on-failure.
AutoRestart ==
  /\ wanted /\ hub = "down"
  /\ Boots
  /\ UNCHANGED <<saved, show, tool, result, applied, losses, before, updated>>

HubUpdateNext ==
  \/ BeginApply \/ GuardShow \/ StopForSnapshot \/ CreateSnapshot \/ StartUnchanged
  \/ InstallFirst \/ InstallRest \/ InstallConfig \/ InstallUnit
  \/ RestartCandidate \/ Judge
  \/ StopCandidate \/ RemovePath \/ PromotePath \/ StartRestored
  \/ ToggleActiveShow \/ LosePower \/ AutoRestart

HubUpdateSpec == HubUpdateInit /\ [][HubUpdateNext]_hubUpdateVars

-----------------------------------------------------------------------------

HubUpdateTypeOK ==
  /\ files \in [Paths -> Versions] /\ before \in [Paths -> Versions]
  /\ saved \subseteq [Paths -> Versions]
  /\ hub \in {"down", "old", "new"}
  /\ wanted \in BOOLEAN /\ show \in BOOLEAN /\ updated \in BOOLEAN
  /\ result \in {"none", "refused", "stranded", "updated", "rolled back", "rollback failed"}
  /\ applied \in 0..MaxApply /\ losses \in 0..MaxPowerLoss

(* What Apply returns is what it has done, whichever of its steps failed and *)
(* whatever an earlier Apply left behind: nothing, everything and the Hub is *)
(* up, or the site is as it found it (Apply, rollback, Restore).  Only the   *)
(* database may move on under a candidate that a loss of power left there.   *)
ResultIsTrue ==
  /\ result = "updated" =>
       hub = "new" /\ \A p \in Paths \ {"config"} : files[p] = "new"
  /\ result = "rolled back" => hub # "down" /\ files = before
  /\ result = "refused" =>
       \A p \in Paths : files[p] = before[p] \/ (p = "data" /\ files["binaries"] # "old")

(* As long as no update has succeeded, what the site had is somewhere: in    *)
(* place, or in a complete snapshot, through loss of power at any step of    *)
(* an update or a rollback and a second try after it (Create, Restore).  And *)
(* a Hub never runs on a database that a later one has migrated, unless the  *)
(* power failed while a rollback had restored the binaries and not yet the   *)
(* data (Restore goes through the manifest in its order).                    *)
OldSiteIsKept ==
  /\ ~updated => files = Untouched \/ Untouched \in saved
  /\ hub = "old" /\ losses = 0 => files["data"] = "old"
=============================================================================
