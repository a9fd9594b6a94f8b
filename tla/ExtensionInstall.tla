--------------------------- MODULE ExtensionInstall ---------------------------
(***************************************************************************)
(* Installed extensions (internal/extension: installer, dependency plans,  *)
(* update and rollback, repair, uninstall, permission reviews): rows of    *)
(* the store, payload files, and the operations on both, each of which may *)
(* fail or die between two of its steps.                                   *)
(*                                                                         *)
(* A package is immutable in its library and compatible with the Hub.      *)
(* Version ranges are sets of packages, and optional dependencies, which   *)
(* only warn, are left out.  ENABLED is the operator's durable intent; the *)
(* process behind it is in ExtensionRuntime.                               *)
(***************************************************************************)
EXTENDS Integers, FiniteSets

CONSTANTS
  Packages,   \* packages of the library
  NoPackage,
  Ext,        \* the extension of a package
  Needs,      \* packages of another extension that satisfy its dependency, if any
  Permits,    \* permissions that its manifest requests
  MaxInstall, \* bound: installation ids
  MaxPending, \* bound: plans, and reviews, at one time
  MaxFault    \* bound: failures, damages and restarts

ASSUME InstallAssumption ==
  /\ NoPackage \notin Packages
  /\ Needs \in [Packages -> SUBSET Packages]
  /\ MaxInstall \in Nat

VARIABLES
  row,       \* extension_installations by extension: id and package
  approved,  \* extension_permission_reviews: permission, and the package reviewed
  enabled,   \* the package whose lifecycle row says ENABLED
  payloads,  \* payloads of the installed tree
  parts,     \* .part files in the staging directory
  task,      \* the operation that holds Installer.mu
  planned,   \* packages whose install plan was READY, not yet installed
  reviewing, \* reviews read by a Decide that has not written yet
  showing,   \* a SHOW is active
  ids,       \* installation ids used
  spoiled,   \* history: payloads damaged since they were last written
  faults

installVars ==
  <<row, approved, enabled, payloads, parts, task, planned, reviewing, showing, ids,
    spoiled, faults>>

Exts == {Ext[p] : p \in Packages}
Permissions == UNION {Permits[p] : p \in Packages}
NoRow == [id |-> 0, pkg |-> NoPackage]
NoTask ==
  [kind |-> "none", pkg |-> NoPackage, old |-> NoPackage, pc |-> "idle", made |-> FALSE]
Installed == {e \in Exts : row[e] # NoRow}
InstalledPackages == {row[e].pkg : e \in Installed}

Verified(p) == payloads[p] = "good"

\* The plan of p is READY with these packages beside it, all of them verified.
Ready(p, others) ==
  Needs[p] # {} => \E q \in Needs[p] \cap others : Verified(q)

\* No other installation depends on e, or each of them accepts p of it.
Replaceable(e, p) ==
  \A q \in InstalledPackages :
    Ext[q] # e /\ (\E n \in Needs[q] : Ext[n] = e) => p \in Needs[q]

InstallInit ==
  /\ row = [e \in Exts |-> NoRow]
  /\ approved = [e \in Exts |-> {}]
  /\ enabled = [e \in Exts |-> NoPackage]
  /\ payloads = [p \in Packages |-> "none"] /\ parts = {}
  /\ task = NoTask /\ planned = {} /\ reviewing = {}
  /\ showing = FALSE /\ ids = 0 /\ spoiled = {} /\ faults = 0

Fault == faults < MaxFault /\ faults' = faults + 1

-----------------------------------------------------------------------------
(* Installation: planned before the lock is taken, then materialised.      *)

PlanInstall(p) ==
  /\ ~showing /\ Cardinality(planned) < MaxPending
  /\ Ext[p] \notin Installed /\ Ready(p, InstalledPackages)
  /\ planned' = planned \cup {p}
  /\ UNCHANGED <<row, approved, enabled, payloads, parts, task, reviewing, showing, ids,
                 spoiled, faults>>

\* The payload of p, if there is one, is verified; otherwise p is staged.
Materialize(kind, p, old) ==
  task' = [kind |-> kind, pkg |-> p, old |-> old, made |-> FALSE,
           pc |-> IF payloads[p] = "none" THEN "stage" ELSE "commit"]

\* Refused in a SHOW, with another package or a payload that does not verify.
Install(p) ==
  /\ p \in planned /\ task = NoTask /\ ids < MaxInstall
  /\ planned' = planned \ {p}
  /\ IF ~showing /\ Ext[p] \notin Installed /\ payloads[p] # "bad"
     THEN Materialize("install", p, NoPackage) ELSE UNCHANGED task
  /\ UNCHANGED <<row, approved, enabled, payloads, parts, reviewing, showing, ids, spoiled,
                 faults>>

\* Update or rollback: RuntimeSupervisor.mu is held beside Installer.mu.
Update(p) ==
  LET e == Ext[p] IN
  /\ task = NoTask /\ ~showing /\ enabled[e] = NoPackage
  /\ e \in Installed /\ row[e].pkg # p /\ Verified(row[e].pkg)
  /\ Replaceable(e, p) /\ Ready(p, InstalledPackages)
  /\ payloads[p] # "bad"
  /\ Materialize("update", p, row[e].pkg)
  /\ UNCHANGED <<row, approved, enabled, payloads, parts, planned, reviewing, showing, ids,
                 spoiled, faults>>

Repair(e) ==
  /\ task = NoTask /\ ~showing /\ enabled[e] = NoPackage
  /\ e \in Installed /\ ~Verified(row[e].pkg)
  /\ task' = [NoTask EXCEPT !.kind = "repair", !.pkg = row[e].pkg, !.pc = "stage"]
  /\ UNCHANGED <<row, approved, enabled, payloads, parts, planned, reviewing, showing, ids,
                 spoiled, faults>>

Stage ==
  /\ task.pc = "stage"
  /\ parts' = parts \cup {task.pkg}
  /\ task' = [task EXCEPT !.pc = "promote"]
  /\ UNCHANGED <<row, approved, enabled, payloads, planned, reviewing, showing, ids, spoiled,
                 faults>>

\* The staged file is renamed, over a damaged one by a repair.  Nobody else
\* writes there, so it meets no other file.
Promote ==
  LET p == task.pkg IN
  /\ task.pc = "promote"
  /\ parts' = parts \ {p}
  /\ payloads' = [payloads EXCEPT ![p] = "good"]
  /\ spoiled' = spoiled \ {p}
  /\ task' = IF task.kind = "repair" THEN NoTask
             ELSE [task EXCEPT !.pc = "commit", !.made = TRUE]
  /\ UNCHANGED <<row, approved, enabled, planned, reviewing, showing, ids, faults>>

CommitInstall ==
  LET e == Ext[task.pkg] IN
  /\ task.kind = "install" /\ task.pc = "commit"
  /\ row' = [row EXCEPT ![e] = [id |-> ids + 1, pkg |-> task.pkg]]
  /\ ids' = ids + 1
  /\ task' = NoTask
  /\ UNCHANGED <<approved, enabled, payloads, parts, planned, reviewing, showing, spoiled,
                 faults>>

\* One transaction: the row moves to another package, its reviews are cleared.
Replaced ==
  LET e == Ext[task.pkg] IN
  /\ row' = [row EXCEPT ![e].pkg = task.pkg]
  /\ approved' = [approved EXCEPT ![e] = {}]

CommitUpdate ==
  /\ task.kind = "update" /\ task.pc = "commit"
  /\ Replaced
  /\ task' = [task EXCEPT !.pc = "clean"]
  /\ UNCHANGED <<enabled, payloads, parts, planned, reviewing, showing, ids, spoiled, faults>>

\* The row is replaced, but reading it back fails, because its client has left:
\* the payload that the row now names is removed as that of a failed update.
CommitUnheard ==
  /\ task.kind = "update" /\ task.pc = "commit" /\ Fault
  /\ Replaced
  /\ payloads' = [payloads EXCEPT ![task.pkg] = IF task.made THEN "none" ELSE @]
  /\ spoiled' = IF task.made THEN spoiled \cup {task.pkg} ELSE spoiled
  /\ task' = NoTask
  /\ UNCHANGED <<enabled, parts, planned, reviewing, showing, ids>>

\* Faulty variant: whichever package the row names is cleaned up.
CleanRow ==
  /\ task.pc = "clean"
  /\ payloads' = [payloads EXCEPT ![row[Ext[task.pkg]].pkg] = "none"]
  /\ task' = NoTask
  /\ UNCHANGED <<row, approved, enabled, parts, planned, reviewing, showing, ids, spoiled,
                 faults>>

\* The payload that no row names any more; what cannot be removed stays.
Clean ==
  /\ task.pc = "clean"
  /\ \/ payloads' = [payloads EXCEPT ![task.old] = "none"]
     \/ UNCHANGED payloads
  /\ task' = NoTask
  /\ UNCHANGED <<row, approved, enabled, parts, planned, reviewing, showing, ids, spoiled,
                 faults>>

\* A step fails before it has changed anything: its staged file is removed, and
\* so is the payload that an update has created.
FailStep ==
  /\ task.pc \in {"stage", "promote", "commit"} /\ Fault
  /\ parts' = parts \ {task.pkg}
  /\ payloads' = [payloads EXCEPT ![task.pkg] =
                    IF task.kind = "update" /\ task.made THEN "none" ELSE @]
  /\ task' = NoTask
  /\ UNCHANGED <<row, approved, enabled, planned, reviewing, showing, ids, spoiled>>

-----------------------------------------------------------------------------
(* Uninstallation: the rows go first.                                      *)

UninstallPackage(e) ==
  /\ task = NoTask /\ ~showing /\ enabled[e] = NoPackage
  /\ e \in Installed /\ Replaceable(e, NoPackage)
  /\ row' = [row EXCEPT ![e] = NoRow]
  /\ approved' = [approved EXCEPT ![e] = {}]
  /\ task' = [NoTask EXCEPT !.kind = "uninstall", !.pkg = row[e].pkg,
                            !.old = row[e].pkg, !.pc = "clean"]
  /\ UNCHANGED <<enabled, payloads, parts, planned, reviewing, showing, ids, spoiled, faults>>

-----------------------------------------------------------------------------
(* Reviews and ENABLED.                                                    *)

Decided(e) == {d.permission : d \in approved[e]}

\* A decision on a permission that is not requested fails every review.
Reviewable(e) ==
  e \in Installed /\ Verified(row[e].pkg) /\ Decided(e) \subseteq Permits[row[e].pkg]

ReadReview(e) ==
  /\ ~showing /\ Reviewable(e) /\ Cardinality(reviewing) < MaxPending
  /\ \E permission \in Permits[row[e].pkg] :
       reviewing' = reviewing \cup {[ext |-> e, id |-> row[e].id, permission |-> permission,
                                     of |-> row[e].pkg]}
  /\ UNCHANGED <<row, approved, enabled, payloads, parts, task, planned, showing, ids, spoiled,
                 faults>>

\* The decision is written to the installation, whatever its package is now.
Decide(r) ==
  /\ r \in reviewing
  /\ reviewing' = reviewing \ {r}
  /\ IF row[r.ext].id = r.id
     THEN \E yes \in BOOLEAN :
            approved' = [approved EXCEPT ![r.ext] =
              {d \in @ : d.permission # r.permission}
                \cup (IF yes THEN {[permission |-> r.permission, of |-> r.of]} ELSE {})]
     ELSE UNCHANGED approved
  /\ UNCHANGED <<row, enabled, payloads, parts, task, planned, showing, ids, spoiled, faults>>

\* RuntimeSupervisor.mu alone is held, so an installation may be under way.
EnableInstalled(e) ==
  /\ task.kind \in {"none", "install"} /\ ~showing
  /\ Reviewable(e) /\ Decided(e) = Permits[row[e].pkg]
  /\ Ready(row[e].pkg, InstalledPackages)
  /\ enabled' = [enabled EXCEPT ![e] = row[e].pkg]
  /\ UNCHANGED <<row, approved, payloads, parts, task, planned, reviewing, showing, ids,
                 spoiled, faults>>

DisableInstalled(e) ==
  /\ task.kind \in {"none", "install"} /\ ~showing
  /\ enabled' = [enabled EXCEPT ![e] = NoPackage]
  /\ UNCHANGED <<row, approved, payloads, parts, task, planned, reviewing, showing, ids,
                 spoiled, faults>>

-----------------------------------------------------------------------------
(* The rest of the Hub.                                                    *)

ToggleShowing ==
  /\ showing' = ~showing
  /\ UNCHANGED <<row, approved, enabled, payloads, parts, task, planned, reviewing, ids,
                 spoiled, faults>>

Damage(p) ==
  /\ payloads[p] # "none" /\ Fault
  /\ \E left \in {"none", "bad"} : payloads' = [payloads EXCEPT ![p] = left]
  /\ spoiled' = spoiled \cup {p}
  /\ UNCHANGED <<row, approved, enabled, parts, task, planned, reviewing, showing, ids>>

\* The Hub dies at any step; NewInstaller removes what was staged.
RestartInstaller ==
  /\ Fault
  /\ parts' = {} /\ task' = NoTask /\ planned' = {} /\ reviewing' = {}
  /\ UNCHANGED <<row, approved, enabled, payloads, showing, ids, spoiled>>

InstallNext ==
  \/ \E p \in Packages : PlanInstall(p) \/ Install(p) \/ Update(p) \/ Damage(p)
  \/ \E e \in Exts : \/ Repair(e) \/ UninstallPackage(e) \/ ReadReview(e)
                     \/ EnableInstalled(e) \/ DisableInstalled(e)
  \/ \E r \in reviewing : Decide(r)
  \/ Stage \/ Promote \/ CommitInstall \/ CommitUpdate \/ CommitUnheard \/ Clean \/ FailStep
  \/ ToggleShowing \/ RestartInstaller

InstallSpec == InstallInit /\ [][InstallNext]_installVars

-----------------------------------------------------------------------------

InstallTypeOK ==
  /\ row \in [Exts -> [id : 0..MaxInstall, pkg : Packages \cup {NoPackage}]]
  /\ \A e \in Installed : Ext[row[e].pkg] = e
  /\ \A e \in Exts : \A d \in approved[e] : d.permission \in Permissions /\ d.of \in Packages
  /\ enabled \in [Exts -> Packages \cup {NoPackage}]
  /\ payloads \in [Packages -> {"none", "good", "bad"}]
  /\ parts \subseteq Packages /\ planned \subseteq Packages /\ spoiled \subseteq Packages
  /\ task.pkg \in Packages \cup {NoPackage}
  /\ task.pc \in {"idle", "stage", "promote", "commit", "clean"}

(* What the rows say is so: an installed package has the payload that was   *)
(* verified, unless it was damaged since, or removed by an update that was  *)
(* committed and took itself for failed (CommitUnheard); and an extension   *)
(* that is ENABLED is the installed package, and has a package installed    *)
(* that its dependency accepts: through failures and restarts between the   *)
(* steps, plans that are out of date when they are carried out, updates and *)
(* rollbacks.                                                               *)
InstallationsAreWhole ==
  /\ \A p \in InstalledPackages : Verified(p) \/ p \in spoiled
  /\ \A e \in Exts : enabled[e] # NoPackage =>
       /\ row[e].pkg = enabled[e]
       /\ Needs[enabled[e]] # {} => Needs[enabled[e]] \cap InstalledPackages # {}
=============================================================================
