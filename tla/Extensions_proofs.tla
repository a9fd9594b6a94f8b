-------------------------- MODULE Extensions_proofs --------------------------
(***************************************************************************)
(* Proofs about extensions: the supervisor of one (ExtensionRuntime), for  *)
(* any budget of recoveries and however many generations and processes,    *)
(* the installations of all (ExtensionInstall), for any library of         *)
(* packages and any number of faults, and the plan of one installation     *)
(* (DependencyPlan), for any library and whatever is in place.  They share *)
(* nothing but this module.                                                *)
(***************************************************************************)
EXTENDS ExtensionRuntime, ExtensionInstall, DependencyPlan, WellFoundedInduction, TLAPS

-----------------------------------------------------------------------------
(* The supervisor: types.                                                    *)

Generations == 0..MaxGen
Watches == {"none", "waiting", "scheduling", "scheduled", "over"}
Steps == {"none", "attempt", "authorised", "starting", "probing", "revoked", "exhausted"}
ProcessRows == [gen : Generations, runs : BOOLEAN, watch : Watches]
Recoveries == [gen : Generations, step : Steps, left : 0..MaxAttempts, live : BOOLEAN]

\* A recovery that is about to spend an attempt has one left.
Affordable ==
  \A r \in Processes : recovery[r].step \in {"attempt", "authorised"} => recovery[r].left > 0

TypeInv ==
  /\ stage \in {"installed", "removed"} /\ desired \in {"ENABLED", "DISABLED"}
  /\ observed \in {"STOPPED", "STARTING", "READY", "FAILED"}
  /\ gen \in Generations /\ boot \in Generations /\ locked \in BOOLEAN
  /\ tracked \in {0} \cup Processes /\ registered \in {0} \cup Processes
  /\ process \in [Processes -> ProcessRows]
  /\ recovery \in [Processes -> Recoveries]
  /\ budget \in [gen : Generations, attempts : 0..MaxAttempts]
  /\ armed \in BOOLEAN /\ closing \in {"no", "stopped", "closed"}
  /\ operator \in {"none", "enable", "disable"}
  /\ Affordable

USE DEF Generations, Watches, Steps

\* A start gives the process that is tracked from then on the generation of the
\* row, and says READY; or it says FAILED and leaves the processes alone.
LEMMA StartEffect ==
  ASSUME TypeInv, NEW g \in Generations, Start(g)
  PROVE  /\ tracked' \in {0} \cup Processes
         /\ process' \in [Processes -> ProcessRows]
         /\ \/ observed' = "FAILED" /\ UNCHANGED <<tracked, process>>
            \/ /\ observed' = "READY" /\ tracked' \in Processes
               /\ process'[tracked'].gen = g
  <1>1. CASE observed' = "FAILED" /\ UNCHANGED <<tracked, process>>
    BY <1>1 DEF TypeInv
  <1>2. ASSUME NEW p \in Unstarted, tracked' = p, observed' = "READY",
               process' = [process EXCEPT ![p] =
                             [gen |-> g, runs |-> TRUE, watch |-> "waiting"]]
        PROVE  /\ p \in Processes /\ process' \in [Processes -> ProcessRows]
               /\ process'[p].gen = g
    <2>1. [gen |-> g, runs |-> TRUE, watch |-> "waiting"] \in ProcessRows
      BY DEF ProcessRows
    <2> QED
      BY <1>2, <2>1 DEF TypeInv, Unstarted
  <1> QED
    BY <1>1, <1>2 DEF Start

LEMMA CancelledType ==
  ASSUME TypeInv
  PROVE  /\ Cancelled(recovery) \in [Processes -> Recoveries]
         /\ \A r \in Processes : Cancelled(recovery)[r].step = recovery[r].step
                                 /\ Cancelled(recovery)[r].left = recovery[r].left
  BY DEF Cancelled, TypeInv, Recoveries

\* A turn of one recovery.
LEMMA TurnType ==
  ASSUME TypeInv, NEW r \in Processes, NEW step \in Steps, Turn(r, step),
         step \in {"attempt", "authorised"} => recovery[r].left > 0
  PROVE  recovery' \in [Processes -> Recoveries] /\ Affordable'
  BY DEF Turn, TypeInv, Recoveries, Affordable

LEMMA Blank ==
  /\ 0 \in Generations /\ NoProcess \in ProcessRows /\ NoRecovery \in Recoveries
  /\ NoBudget \in [gen : Generations, attempts : 0..MaxAttempts]
  <1>1. 0 \in Generations /\ 0 \in 0..MaxAttempts
    BY ExtensionAssumption
  <1> QED
    BY <1>1 DEF NoProcess, ProcessRows, NoRecovery, Recoveries, NoBudget

LEMMA TypeInit == RuntimeInit => TypeInv
  <1> SUFFICES ASSUME RuntimeInit PROVE TypeInv
    OBVIOUS
  <1>1. process \in [Processes -> ProcessRows] /\ recovery \in [Processes -> Recoveries]
    BY Blank DEF RuntimeInit
  <1>2. Affordable
    BY DEF RuntimeInit, NoRecovery, Affordable
  <1> QED
    BY <1>1, <1>2, Blank DEF RuntimeInit, TypeInv

\* The steps of the operator and of the Hub.
LEMMA TypeOther ==
  ASSUME TypeInv,
         \/ \E kind \in {"enable", "disable"} : Change(kind)
         \/ RefuseChange \/ Enable \/ Disable \/ Uninstall \/ LockRuntime
         \/ Restore \/ StopRecoveries \/ CloseProcesses \/ RestartSupervisor
  PROVE  TypeInv'
  <1>1. CASE \E kind \in {"enable", "disable"} : Change(kind)
    BY <1>1, CancelledType, ExtensionAssumption DEF Change, TypeInv, Affordable, Processes
  <1>2. CASE RefuseChange \/ Uninstall \/ LockRuntime
    BY <1>2 DEF RefuseChange, Uninstall, LockRuntime, TypeInv, Affordable
  <1>3. CASE Enable
    <2>1. CASE AlreadyReady
      BY <1>3, <2>1 DEF Enable, TypeInv, Affordable
    <2>2. CASE ~AlreadyReady
      <3>1. gen' = gen + 1 /\ gen' \in Generations /\ desired' = "ENABLED"
            /\ budget' = NoBudget /\ Start(gen + 1) /\ operator' = "none"
            /\ UNCHANGED <<stage, locked, recovery, registered, armed, closing, boot>>
        BY <1>3, <2>2, ExtensionAssumption DEF Enable, TypeInv
      <3> QED
        BY <3>1, StartEffect, ExtensionAssumption DEF TypeInv, Affordable, NoBudget
    <2> QED
      BY <2>1, <2>2
  <1>4. CASE Disable
    <2>1. process' \in [Processes -> ProcessRows]
      BY <1>4 DEF Disable, TypeInv, ProcessRows
    <2>2. recovery' \in [Processes -> Recoveries] /\ Affordable'
      BY <1>4, CancelledType DEF Disable, TypeInv, Affordable
    <2>3. gen' \in Generations
      BY <1>4, ExtensionAssumption DEF Disable, TypeInv
    <2> QED
      BY <1>4, <2>1, <2>2, <2>3, Blank DEF Disable, TypeInv
  <1>5. CASE Restore
    <2>1. CASE tracked # 0 \/ gen # boot
      BY <1>5, <2>1, ExtensionAssumption DEF Restore, TypeInv, Affordable
    <2>2. CASE Start(boot)
      BY <1>5, <2>2, StartEffect, ExtensionAssumption DEF Restore, TypeInv, Affordable
    <2> QED
      BY <1>5, <2>1, <2>2 DEF Restore
  <1>6. CASE StopRecoveries
    BY <1>6, CancelledType DEF StopRecoveries, TypeInv, Affordable
  <1>7. CASE CloseProcesses
    <2>1. process' \in [Processes -> ProcessRows]
      <3>1. CASE tracked = 0
        BY <1>7, <3>1 DEF CloseProcesses, TypeInv
      <3>2. CASE process' = [process EXCEPT ![tracked].runs = FALSE]
        BY <3>2 DEF TypeInv, ProcessRows
      <3> QED
        BY <1>7, <3>1, <3>2 DEF CloseProcesses
    <2> QED
      BY <1>7, <2>1 DEF CloseProcesses, Observe, TypeInv, Affordable
  <1>8. CASE RestartSupervisor
    <2>1. process' \in [Processes -> ProcessRows]
      <3>1. \A p \in Processes :
              [process[p] EXCEPT !.runs = FALSE, !.watch = "over"] \in ProcessRows
        BY DEF TypeInv, ProcessRows
      <3> QED
        BY <1>8, <3>1, Blank DEF RestartSupervisor
    <2>2. recovery' \in [Processes -> Recoveries]
      BY <1>8, Blank DEF RestartSupervisor
    <2>3. Affordable'
      BY <1>8 DEF RestartSupervisor, NoRecovery, Affordable
    <2> QED
      BY <1>8, <2>1, <2>2, <2>3, Blank DEF RestartSupervisor, TypeInv
  <1> QED
    BY <1>1, <1>2, <1>3, <1>4, <1>5, <1>6, <1>7, <1>8

\* A failed probe, or a start that failed.
LEMMA AfterFailureType ==
  ASSUME TypeInv, NEW r \in Processes, AfterFailure(r)
  PROVE  recovery' \in [Processes -> Recoveries] /\ Affordable'
  BY TurnType DEF AfterFailure

\* The steps of a process's watcher and of a recovery.
LEMMA TypeRecovery ==
  ASSUME TypeInv, NEW r \in Processes,
         \/ Crash(r) \/ Watch(r) \/ Schedule(r) \/ BeginRecovery(r)
         \/ ReadAuthority(r) \/ SpendAttempt(r) \/ ObserveStarting(r)
         \/ ProbeFails(r) \/ Recover(r) \/ EndRecovery(r)
  PROVE  TypeInv'
  <1>1. CASE Crash(r) \/ Schedule(r)
    <2>1. \/ process' = [process EXCEPT ![r].runs = FALSE]
          \/ process' = [process EXCEPT ![r].watch = "scheduled"]
          \/ process' = [process EXCEPT ![r].watch = "over"]
      BY <1>1 DEF Crash, Schedule
    <2>2. /\ [process[r] EXCEPT !.runs = FALSE] \in ProcessRows
          /\ \A w \in Watches : [process[r] EXCEPT !.watch = w] \in ProcessRows
      BY DEF TypeInv, ProcessRows
    <2>3. process' \in [Processes -> ProcessRows]
      BY <2>1, <2>2 DEF TypeInv
    <2> QED
      BY <1>1, <2>3 DEF Crash, Schedule, TypeInv, Affordable
  <1>2. CASE Watch(r)
    <2>1. process' \in [Processes -> ProcessRows]
      BY <1>2 DEF Watch, TypeInv, ProcessRows
    <2> QED
      BY <1>2, <2>1 DEF Watch, Observe, TypeInv, Affordable
  <1>3. CASE BeginRecovery(r)
    <2> DEFINE g == process[r].gen
    <2>1. process' \in [Processes -> ProcessRows] /\ g \in Generations
      BY <1>3 DEF BeginRecovery, TypeInv, ProcessRows
    <2>2. Spent(g) \in 0..MaxAttempts
      BY ExtensionAssumption DEF Spent, TypeInv
    <2>3. recovery' \in [Processes -> Recoveries] /\ Affordable'
      <3>1. CASE UNCHANGED recovery
        BY <3>1 DEF TypeInv, Affordable
      <3>2. CASE /\ Spent(g) # MaxAttempts
                 /\ recovery' = [Cancelled(recovery) EXCEPT ![r] =
                      [gen |-> g, step |-> "attempt", left |-> MaxAttempts - Spent(g),
                       live |-> TRUE]]
        <4>1. MaxAttempts - Spent(g) \in 0..MaxAttempts /\ MaxAttempts - Spent(g) > 0
          BY <2>2, <3>2, ExtensionAssumption
        <4> QED
          BY <2>1, <3>2, <4>1, CancelledType DEF TypeInv, Affordable, Recoveries
      <3> QED
        BY <1>3, <3>1, <3>2 DEF BeginRecovery
    <2>4. budget' \in [gen : Generations, attempts : 0..MaxAttempts]
      BY <1>3, <2>1, <2>2 DEF BeginRecovery, TypeInv
    <2> QED
      BY <1>3, <2>1, <2>3, <2>4 DEF BeginRecovery, Observe, TypeInv
  <1>4. CASE ReadAuthority(r)
    <2>1. \E step \in Steps : Turn(r, step) /\ recovery[r].left > 0
      BY <1>4 DEF ReadAuthority, TypeInv, Affordable
    <2> QED
      BY <1>4, <2>1, TurnType DEF ReadAuthority, TypeInv
  <1>5. CASE SpendAttempt(r)
    <2> DEFINE g == recovery[r].gen
    <2>1. recovery[r].left > 0 /\ recovery[r].left \in 0..MaxAttempts /\ g \in Generations
      BY <1>5 DEF SpendAttempt, TypeInv, Affordable, Recoveries
    <2>2. Spent(g) \in 0..MaxAttempts
      BY ExtensionAssumption DEF Spent, TypeInv
    <2>3. recovery' \in [Processes -> Recoveries] /\ Affordable'
      <3>1. CASE Turn(r, "revoked")
        BY <3>1, TurnType
      <3>2. CASE recovery' = [recovery EXCEPT ![r].step = "starting", ![r].left = @ - 1]
        <4>1. recovery[r].left - 1 \in 0..MaxAttempts
          BY <2>1, ExtensionAssumption
        <4> QED
          BY <3>2, <4>1 DEF TypeInv, Affordable, Recoveries
      <3> QED
        BY <1>5, <3>1, <3>2 DEF SpendAttempt
    <2>4. budget' \in [gen : Generations, attempts : 0..MaxAttempts]
      BY <1>5, <2>1, <2>2, ExtensionAssumption DEF SpendAttempt, TypeInv
    <2> QED
      BY <1>5, <2>3, <2>4 DEF SpendAttempt, TypeInv
  <1>6. CASE ObserveStarting(r)
    <2>1. \E step \in {"probing", "revoked"} : Turn(r, step)
      BY <1>6 DEF ObserveStarting
    <2> QED
      BY <1>6, <2>1, TurnType DEF ObserveStarting, Observe, TypeInv
  <1>7. CASE ProbeFails(r)
    BY <1>7, AfterFailureType DEF ProbeFails, Observe, TypeInv
  <1>8. CASE Recover(r)
    <2>1. recovery[r].gen \in Generations
      BY DEF TypeInv, Recoveries
    <2>2. recovery' \in [Processes -> Recoveries] /\ Affordable'
      BY <1>8, TurnType, AfterFailureType DEF Recover
    <2>3. CASE UNCHANGED <<tracked, process, observed>>
      BY <1>8, <2>2, <2>3 DEF Recover, TypeInv
    <2>4. CASE Start(recovery[r].gen)
      BY <1>8, <2>1, <2>2, <2>4, StartEffect DEF Recover, TypeInv
    <2> QED
      BY <1>8, <2>3, <2>4 DEF Recover
  <1>9. CASE EndRecovery(r)
    <2>1. recovery' \in [Processes -> Recoveries] /\ Affordable'
      BY <1>9, ExtensionAssumption
         DEF EndRecovery, TypeInv, Affordable, NoRecovery, Recoveries
    <2> QED
      BY <1>9, <2>1 DEF EndRecovery, Observe, TypeInv
  <1> QED
    BY <1>1, <1>2, <1>3, <1>4, <1>5, <1>6, <1>7, <1>8, <1>9

LEMMA TypeStep == TypeInv /\ [RuntimeNext]_runtimeVars => TypeInv'
  <1> SUFFICES ASSUME TypeInv, [RuntimeNext]_runtimeVars PROVE TypeInv'
    OBVIOUS
  <1>1. CASE UNCHANGED runtimeVars
    BY <1>1 DEF runtimeVars, TypeInv, Affordable
  <1> QED
    BY <1>1, TypeOther, TypeRecovery DEF RuntimeNext

\* The rows of the database, the processes, the recoveries and their budget stay
\* in their domains: no generation is given more attempts than its budget
\* (maxExtensionCrashRecoveryAttempts).
THEOREM TypeCorrect == RuntimeSpec => []RuntimeTypeOK
  <1>1. TypeInv => RuntimeTypeOK
    BY ExtensionAssumption DEF TypeInv, RuntimeTypeOK, Processes
  <1> QED
    BY <1>1, TypeInit, TypeStep, PTL DEF RuntimeSpec

-----------------------------------------------------------------------------
(* The supervision.  A READY extension is ENABLED, and its process is of the *)
(* generation of the row: whoever ends that process can therefore tell.  The *)
(* list of Reconcile stays true, because nobody changes the desired state    *)
(* before it is over.                                                        *)

SupervisionInv ==
  /\ desired = "ENABLED" => stage = "installed" /\ gen # 0
  /\ boot # 0 => /\ boot = gen /\ desired = "ENABLED"
                 /\ operator = "none" /\ closing = "no"
  /\ observed = "READY" => /\ desired = "ENABLED"
                           /\ tracked # 0 => process[tracked].gen = gen
                           /\ tracked = 0 => boot # 0

\* Who is put under supervision, and for whom.
Authorised ==
  tracked' \notin {0, tracked} =>
    stage' = "installed" /\ desired' = "ENABLED" /\ process'[tracked'].gen = gen'

LEMMA SupervisionInit == RuntimeInit => SupervisionInv
  BY DEF RuntimeInit, SupervisionInv

LEMMA SupervisionStep ==
  ASSUME TypeInv, SupervisionInv, [RuntimeNext]_runtimeVars
  PROVE  SupervisionInv' /\ Authorised
  <1>1. CASE UNCHANGED runtimeVars
    BY <1>1 DEF runtimeVars, SupervisionInv, Authorised
  <1>2. CASE \/ \E kind \in {"enable", "disable"} : Change(kind)
             \/ RefuseChange \/ Uninstall \/ LockRuntime \/ StopRecoveries
    BY <1>2 DEF Change, RefuseChange, Uninstall, LockRuntime, StopRecoveries,
                SupervisionInv, Authorised
  <1>3. CASE Enable
    <2>1. CASE AlreadyReady
      BY <1>3, <2>1 DEF Enable, SupervisionInv, Authorised
    <2>2. CASE ~AlreadyReady
      <3>1. /\ stage' = "installed" /\ desired' = "ENABLED" /\ boot' = 0
            /\ gen' = gen + 1 /\ gen' # 0 /\ gen' \in Generations /\ Start(gen')
        BY <1>3, <2>2, ExtensionAssumption DEF Enable, SupervisionInv, TypeInv
      <3> QED
        BY <3>1, StartEffect DEF SupervisionInv, Authorised, Processes
    <2> QED
      BY <2>1, <2>2
  <1>4. CASE Disable
    BY <1>4 DEF Disable, SupervisionInv, Authorised
  <1>5. CASE Restore
    <2>1. gen = boot /\ boot' \in {0, boot}
          /\ UNCHANGED <<stage, desired, gen, operator, closing>>
      BY <1>5 DEF Restore, SupervisionInv
    <2>2. CASE tracked # 0
      BY <1>5, <2>1, <2>2 DEF Restore, SupervisionInv, Authorised
    <2>3. CASE tracked = 0
      <3>1. Start(boot) /\ boot \in Generations /\ boot # 0
        BY <1>5, <2>1, <2>3 DEF Restore, TypeInv
      <3> QED
        BY <2>1, <2>3, <3>1, StartEffect DEF SupervisionInv, Authorised, Processes
    <2> QED
      BY <2>2, <2>3
  <1>6. CASE CloseProcesses
    BY <1>6 DEF CloseProcesses, Observe, SupervisionInv, Authorised
  <1>7. CASE RestartSupervisor
    BY <1>7 DEF RestartSupervisor, SupervisionInv, Authorised
  <1>8. ASSUME NEW r \in Processes,
               \/ Schedule(r) \/ ReadAuthority(r) \/ SpendAttempt(r) \/ ObserveStarting(r)
               \/ ProbeFails(r) \/ BeginRecovery(r) \/ EndRecovery(r) \/ Crash(r)
        PROVE  SupervisionInv' /\ Authorised
    <2>1. /\ UNCHANGED <<stage, desired, gen, tracked, closing, operator, boot>>
          /\ observed' = "READY" => observed = "READY"
          /\ \A p \in Processes : process'[p].gen = process[p].gen
      BY <1>8 DEF Schedule, ReadAuthority, SpendAttempt, ObserveStarting, ProbeFails,
                  BeginRecovery, EndRecovery, Crash, Observe, TypeInv, ProcessRows
    <2>2. tracked \in {0} \cup Processes
      BY DEF TypeInv
    <2> QED
      BY <2>1, <2>2 DEF SupervisionInv, Authorised
  <1>9. ASSUME NEW p \in Processes, Watch(p) PROVE SupervisionInv' /\ Authorised
    <2>1. CASE tracked = p
      BY <1>9, <2>1 DEF Watch, Observe, SupervisionInv, Authorised, Processes
    <2>2. CASE tracked # p
      BY <1>9, <2>2 DEF Watch, SupervisionInv, Authorised, TypeInv, ProcessRows
    <2> QED
      BY <2>1, <2>2
  <1>10. ASSUME NEW r \in Processes, Recover(r) PROVE SupervisionInv' /\ Authorised
    <2>1. CASE UNCHANGED <<tracked, process, observed>>
      BY <1>10, <2>1 DEF Recover, SupervisionInv, Authorised
    <2>2. CASE Start(recovery[r].gen) /\ desired = "ENABLED" /\ gen = recovery[r].gen
      BY <1>10, <2>2, StartEffect DEF Recover, SupervisionInv, Authorised, TypeInv, Processes
    <2> QED
      BY <1>10, <2>1, <2>2 DEF Recover
  <1> QED
    BY <1>1, <1>2, <1>3, <1>4, <1>5, <1>6, <1>7, <1>8, <1>9, <1>10 DEF RuntimeNext

\* An extension that the database says is READY has a process, or its restore is
\* still to come: crashes, Close and a Hub that dies are always told
\* (RuntimeSupervisor.watch, Close, Reconcile).
THEOREM ReadyProcess == RuntimeSpec => []ReadyHasProcess
  <1>1. SupervisionInv => ReadyHasProcess
    BY DEF SupervisionInv, ReadyHasProcess
  <1> QED
    BY <1>1, TypeInit, TypeStep, SupervisionInit, SupervisionStep, PTL DEF RuntimeSpec

\* A process comes under supervision only for the generation asked for last, of
\* an extension that is installed and ENABLED (recoverCrashAttempt,
\* reconcileExtension, Enable).
THEOREM AuthorisedStart == RuntimeSpec => StartIsAuthorised
  <1>1. TypeInv /\ SupervisionInv /\ [RuntimeNext]_runtimeVars
        => SupervisionInv' /\ [tracked' \notin {0, tracked} =>
             stage' = "installed" /\ desired' = "ENABLED"
             /\ process'[tracked'].gen = gen']_runtimeVars
    BY SupervisionStep DEF Authorised
  <1> QED
    BY <1>1, TypeInit, TypeStep, SupervisionInit, PTL DEF RuntimeSpec, StartIsAuthorised

-----------------------------------------------------------------------------
(* The installations: types, the operation under way, and who depends on     *)
(* whom.                                                                     *)

Versions == Packages \cup {NoPackage}
Rows == [id : 0..MaxInstall, pkg : Versions]
Tasks ==
  [kind : {"none", "install", "update", "repair", "uninstall"}, pkg : Versions,
   old : Versions, pc : {"idle", "stage", "promote", "commit", "clean"}, made : BOOLEAN]
Decisions == [permission : Permissions, of : Packages]
Reviews == [ext : Exts, id : 0..MaxInstall, permission : Permissions, of : Packages]

InstallTyped ==
  /\ row \in [Exts -> Rows] /\ ids \in 0..MaxInstall
  /\ \A e \in Installed : row[e].pkg \in Packages /\ Ext[row[e].pkg] = e
  /\ approved \in [Exts -> SUBSET Decisions] /\ reviewing \subseteq Reviews
  /\ enabled \in [Exts -> Versions]
  /\ payloads \in [Packages -> {"none", "good", "bad"}]
  /\ parts \subseteq Packages /\ planned \subseteq Packages /\ spoiled \subseteq Packages
  /\ task \in Tasks

\* How far the operation that holds Installer.mu is, and what is so until it ends.
TaskOK ==
  /\ task.kind = "none" <=> task = NoTask
  /\ task # NoTask => task.pkg \in Packages
  /\ task.kind = "install" =>
       /\ task.pc \in {"stage", "promote", "commit"} /\ ids < MaxInstall
       /\ Ext[task.pkg] \notin Installed
  /\ task.kind = "update" /\ task.pc # "clean" =>
       LET e == Ext[task.pkg] IN
       /\ task.pc # "idle"
       /\ e \in Installed /\ enabled[e] = NoPackage
       /\ row[e].pkg = task.old /\ task.old # task.pkg
       /\ Replaceable(e, task.pkg)
  /\ task.kind = "repair" => task.pc \in {"stage", "promote"}
  /\ task.kind = "uninstall" => task.pc = "clean"
  /\ task.pc = "commit" => Verified(task.pkg) \/ task.pkg \in spoiled
  /\ task.pc = "clean" => task.old \in Packages \ InstalledPackages

InstallInv == InstallTyped /\ TaskOK /\ InstallationsAreWhole

LEMMA PackageTypes ==
  /\ \A p \in Packages : p # NoPackage /\ Ext[p] \in Exts /\ Needs[p] \subseteq Packages
  /\ NoTask \in Tasks /\ NoRow \in Rows
  BY InstallAssumption DEF Exts, NoTask, Tasks, NoRow, Rows, Versions

\* Who is installed, when one row changes.
LEMMA RowEffect ==
  ASSUME InstallTyped, NEW e \in Exts, NEW r \in Rows, row' = [row EXCEPT ![e] = r],
         r # NoRow => r.pkg \in Packages /\ Ext[r.pkg] = e
  PROVE  /\ row' \in [Exts -> Rows]
         /\ Installed' = IF r = NoRow THEN Installed \ {e} ELSE Installed \cup {e}
         /\ \A d \in Installed' : row'[d].pkg \in Packages /\ Ext[row'[d].pkg] = d
         /\ \A q : q \in InstalledPackages' <=>
              \/ r # NoRow /\ q = r.pkg
              \/ q \in InstalledPackages /\ Ext[q] # e
  <1>1. row' \in [Exts -> Rows] /\ row'[e] = r /\ \A d \in Exts \ {e} : row'[d] = row[d]
    BY DEF InstallTyped
  <1>2. Installed' = IF r = NoRow THEN Installed \ {e} ELSE Installed \cup {e}
    BY <1>1 DEF Installed
  <1>3. \A d \in Installed' : row'[d].pkg \in Packages /\ Ext[row'[d].pkg] = d
    BY <1>1, <1>2 DEF InstallTyped, Installed
  <1>4. ASSUME NEW q
        PROVE  q \in InstalledPackages' <=>
                 \/ r # NoRow /\ q = r.pkg
                 \/ q \in InstalledPackages /\ Ext[q] # e
    BY <1>1, <1>2, <1>3 DEF InstalledPackages, Installed, InstallTyped
  <1> QED
    BY <1>1, <1>2, <1>3, <1>4

LEMMA RowsKept ==
  ASSUME row' = row
  PROVE  Installed' = Installed /\ InstalledPackages' = InstalledPackages
  BY DEF Installed, InstalledPackages

LEMMA InstallBegins == InstallInit => InstallInv
  <1> SUFFICES ASSUME InstallInit PROVE InstallInv
    OBVIOUS
  <1>1. Installed = {} /\ InstalledPackages = {}
    BY DEF InstallInit, Installed, InstalledPackages
  <1>2. InstallTyped
    BY <1>1, PackageTypes, InstallAssumption DEF InstallInit, InstallTyped, Versions
  <1>3. TaskOK
    BY <1>1 DEF InstallInit, TaskOK, NoTask
  <1>4. InstallationsAreWhole
    BY <1>1 DEF InstallInit, InstallationsAreWhole
  <1> QED
    BY <1>2, <1>3, <1>4 DEF InstallInv

\* A step that moves no row, and takes no authority away: the payloads are enough.
LEMMA WholeKept ==
  ASSUME InstallInv, UNCHANGED <<row, enabled>>,
         \A p \in InstalledPackages :
           \/ payloads'[p] = payloads[p] /\ (p \in spoiled => p \in spoiled')
           \/ payloads'[p] = "good"
           \/ p \in spoiled'
  PROVE  InstallationsAreWhole'
  BY RowsKept DEF InstallInv, InstallationsAreWhole, Verified

-----------------------------------------------------------------------------
LEMMA InstallPlans ==
  ASSUME InstallInv, NEW p \in Packages, PlanInstall(p) \/ Install(p) \/ Update(p)
  PROVE  InstallInv'
  <1>1. UNCHANGED <<row, approved, enabled, payloads, parts, reviewing, ids, spoiled>>
    BY DEF PlanInstall, Install, Update
  <1>2. InstallationsAreWhole'
    BY <1>1, WholeKept
  <1>3. CASE task' = task
    <2>1. planned' \subseteq Packages
      BY DEF PlanInstall, Install, Update, InstallInv, InstallTyped
    <2> QED
      BY <1>1, <1>2, <1>3, <2>1, RowsKept
         DEF InstallInv, InstallTyped, TaskOK, Verified, Replaceable
  <1>4. CASE Install(p) /\ Materialize("install", p, NoPackage)
    <2>1. task' \in Tasks /\ planned' \subseteq Packages
      BY <1>4 DEF Install, Materialize, Tasks, Versions, InstallInv, InstallTyped
    <2>2. Ext[p] \notin Installed /\ ids < MaxInstall /\ payloads[p] # "bad"
      BY <1>4 DEF Install, Materialize, NoTask
    <2>3. TaskOK'
      BY <1>1, <1>4, <2>2, RowsKept
         DEF Materialize, TaskOK, NoTask, Verified, InstallInv, InstallTyped
    <2> QED
      BY <1>1, <1>2, <2>1, <2>3, RowsKept DEF InstallInv, InstallTyped
  <1>5. CASE Update(p)
    <2> DEFINE e == Ext[p]
    <2>1. /\ enabled[e] = NoPackage /\ e \in Installed /\ row[e].pkg # p
          /\ Replaceable(e, p) /\ payloads[p] # "bad"
          /\ row[e].pkg \in Packages
          /\ Materialize("update", p, row[e].pkg) /\ planned' = planned
      BY <1>5 DEF Update, InstallInv, InstallTyped
    <2>2. task' \in Tasks
      BY <2>1 DEF Materialize, Tasks, Versions
    <2>3. TaskOK'
      BY <1>1, <2>1, RowsKept
         DEF Materialize, TaskOK, NoTask, Verified, InstallInv, InstallTyped, Replaceable
    <2> QED
      BY <1>1, <1>2, <2>1, <2>2, <2>3, RowsKept DEF InstallInv, InstallTyped
  <1> QED
    BY <1>3, <1>4, <1>5 DEF PlanInstall, Install

\* The steps of the operation that touch only files.
LEMMA InstallFiles ==
  ASSUME InstallInv, Stage \/ Promote \/ Clean \/ FailStep
  PROVE  InstallInv'
  <1>1. UNCHANGED <<row, approved, enabled, planned, reviewing, ids>> /\ task.kind # "none"
        /\ task.pkg \in Packages
    BY DEF Stage, Promote, Clean, FailStep, InstallInv, TaskOK, NoTask
  <1>2. CASE Stage
    <2>1. task' \in Tasks /\ parts' \subseteq Packages
      BY <1>1, <1>2 DEF Stage, Tasks, InstallInv, InstallTyped
    <2>2. TaskOK'
      BY <1>1, <1>2, RowsKept DEF Stage, InstallInv, InstallTyped, Tasks, TaskOK, NoTask, Verified, Replaceable
    <2> QED
      BY <1>1, <1>2, <2>1, <2>2, RowsKept, WholeKept DEF Stage, InstallInv, InstallTyped
  <1>3. CASE Promote
    <2>1. /\ payloads' = [payloads EXCEPT ![task.pkg] = "good"]
          /\ spoiled' = spoiled \ {task.pkg} /\ parts' \subseteq Packages
      BY <1>3 DEF Promote, InstallInv, InstallTyped
    <2>2. InstallationsAreWhole'
      BY <1>1, <2>1, WholeKept DEF InstallInv, InstallTyped
    <2>3. task' \in Tasks
      BY <1>3, PackageTypes DEF Promote, Tasks, InstallInv, InstallTyped
    <2>4. TaskOK'
      <3>1. CASE task.kind = "repair"
        BY <1>3, <3>1 DEF Promote, TaskOK, NoTask
      <3>2. CASE task.kind # "repair"
        <4>1. /\ task'.kind = task.kind /\ task'.pkg = task.pkg /\ task'.old = task.old
              /\ task'.pc = "commit" /\ task.pc = "promote" /\ task' # NoTask
          BY <1>3, <3>2 DEF Promote, InstallInv, InstallTyped, Tasks, NoTask
        <4>2. Verified(task.pkg)'
          BY <1>1, <2>1, <4>1 DEF Verified, InstallInv, InstallTyped
        <4> QED
          BY <1>1, <3>2, <4>1, <4>2, RowsKept
             DEF InstallInv, TaskOK, Verified, Replaceable, NoTask
      <3> QED
        BY <3>1, <3>2
    <2> QED
      BY <1>1, <2>1, <2>2, <2>3, <2>4, RowsKept DEF InstallInv, InstallTyped
  <1>4. CASE Clean
    <2>1. /\ task' = NoTask /\ UNCHANGED <<parts, spoiled>>
          /\ payloads' \in [Packages -> {"none", "good", "bad"}]
          /\ \A p \in InstalledPackages : payloads'[p] = payloads[p]
      <3>1. task.old \in Packages \ InstalledPackages /\ InstalledPackages \subseteq Packages
        BY <1>4 DEF Clean, InstallInv, InstallTyped, TaskOK, InstalledPackages
      <3> QED
        BY <1>4, <3>1 DEF Clean, InstallInv, InstallTyped
    <2>2. InstallationsAreWhole'
      BY <1>1, <2>1, WholeKept
    <2> QED
      BY <1>1, <2>1, <2>2, PackageTypes, RowsKept
         DEF InstallInv, InstallTyped, TaskOK, NoTask
  <1>5. CASE FailStep
    <2>1. /\ task' = NoTask /\ UNCHANGED spoiled /\ parts' \subseteq Packages
          /\ payloads' \in [Packages -> {"none", "good", "bad"}]
          /\ payloads' # payloads =>
               /\ task.kind = "update" /\ task.pc # "clean"
               /\ \A p \in Packages \ {task.pkg} : payloads'[p] = payloads[p]
      BY <1>5 DEF FailStep, InstallInv, InstallTyped
    <2>2. task.kind = "update" /\ task.pc # "clean" => task.pkg \notin InstalledPackages
      BY DEF InstallInv, InstallTyped, TaskOK, InstalledPackages
    <2>3. InstalledPackages \subseteq Packages
      BY DEF InstallInv, InstallTyped, InstalledPackages
    <2>4. InstallationsAreWhole'
      BY <1>1, <2>1, <2>2, <2>3, WholeKept
    <2> QED
      BY <1>1, <2>1, <2>4, PackageTypes, RowsKept
         DEF InstallInv, InstallTyped, TaskOK, NoTask
  <1> QED
    BY <1>2, <1>3, <1>4, <1>5

\* The row of an installation, an update or an uninstallation: whoever is ENABLED
\* keeps its own row and a package that its dependency accepts.
LEMMA InstallRows ==
  ASSUME InstallInv,
         \/ CommitInstall \/ CommitUpdate \/ CommitUnheard
         \/ \E e \in Exts : UninstallPackage(e)
  PROVE  InstallInv'
  <1>1. CASE CommitInstall
    <2> DEFINE e == Ext[task.pkg]
               r == [id |-> ids + 1, pkg |-> task.pkg]
    <2>1. /\ task.pkg \in Packages /\ e \in Exts \ Installed /\ Ext[task.pkg] = e
          /\ ids + 1 \in 0..MaxInstall
          /\ Verified(task.pkg) \/ task.pkg \in spoiled
          /\ ids \in Nat
      BY <1>1, PackageTypes, InstallAssumption
         DEF CommitInstall, InstallInv, InstallTyped, TaskOK, NoTask
    <2>2. r \in Rows /\ r # NoRow /\ row' = [row EXCEPT ![e] = r] /\ r.pkg = task.pkg
      BY <1>1, <2>1, PackageTypes DEF CommitInstall, Rows, Versions, NoRow
    <2> HIDE DEF r, e
    <2>3. /\ task' = NoTask /\ ids' \in 0..MaxInstall
          /\ UNCHANGED <<approved, enabled, payloads, parts, planned, reviewing, spoiled>>
      BY <1>1, <2>1 DEF CommitInstall
    <2>4. \A q \in InstalledPackages : Ext[q] # e
      BY <2>1 DEF InstallInv, InstallTyped, InstalledPackages
    <2>5. InstallationsAreWhole'
      <3>1. InstalledPackages' = InstalledPackages \cup {task.pkg}
        BY <2>1, <2>2, <2>4, RowEffect DEF InstallInv
      <3>2. enabled[e] = NoPackage
        BY <2>1, PackageTypes DEF InstallInv, InstallationsAreWhole, Installed, NoRow
      <3>3. \A d \in Exts \ {e} : row'[d] = row[d]
        BY <2>1, <2>2 DEF InstallInv, InstallTyped
      <3> QED
        BY <2>1, <2>3, <3>1, <3>2, <3>3 DEF InstallInv, InstallationsAreWhole, Verified
    <2> QED
      BY <2>1, <2>2, <2>3, <2>5, PackageTypes, RowEffect
         DEF InstallInv, InstallTyped, TaskOK, NoTask
  <1>2. CASE CommitUpdate \/ CommitUnheard
    <2> DEFINE e == Ext[task.pkg]
               r == [row[e] EXCEPT !.pkg = task.pkg]
    <2>1. /\ task.pkg \in Packages /\ e \in Installed /\ e \in Exts /\ task.kind = "update"
          /\ task.pc = "commit" /\ enabled[e] = NoPackage
          /\ row[e].pkg = task.old /\ task.old # task.pkg /\ task.old \in Packages
          /\ Ext[task.old] = e /\ Ext[task.pkg] = e
          /\ Replaceable(e, task.pkg)
          /\ Verified(task.pkg) \/ task.pkg \in spoiled
      BY <1>2, PackageTypes
         DEF CommitUpdate, CommitUnheard, InstallInv, InstallTyped, TaskOK, NoTask
    <2>2. r \in Rows /\ r # NoRow /\ row' = [row EXCEPT ![e] = r] /\ r.pkg = task.pkg
      BY <1>2, <2>1, PackageTypes
         DEF CommitUpdate, CommitUnheard, Replaced, Rows, Versions, NoRow, InstallInv,
             InstallTyped
    <2> HIDE DEF r, e
    <2>3. /\ approved' \in [Exts -> SUBSET Decisions]
          /\ UNCHANGED <<enabled, parts, planned, reviewing, ids>>
      BY <1>2 DEF CommitUpdate, CommitUnheard, Replaced, InstallInv, InstallTyped
    <2>4. /\ payloads' \in [Packages -> {"none", "good", "bad"}]
          /\ spoiled' \subseteq Packages /\ spoiled \subseteq spoiled'
          /\ \A p \in Packages : payloads'[p] = payloads[p] \/ p \in spoiled'
      BY <1>2, <2>1 DEF CommitUpdate, CommitUnheard, InstallInv, InstallTyped
    <2>5. \A q : q \in InstalledPackages' <=>
                  q = task.pkg \/ (q \in InstalledPackages /\ Ext[q] # e)
      <3>1. InstallTyped
        BY DEF InstallInv
      <3>2. \A q : q \in InstalledPackages' <=>
              \/ r # NoRow /\ q = r.pkg
              \/ q \in InstalledPackages /\ Ext[q] # e
        BY <2>1, <2>2, <3>1, RowEffect
      <3> QED
        BY <2>2, <3>2
    <2>6. \A p \in InstalledPackages' : Verified(p)' \/ p \in spoiled'
      <3>1. ASSUME NEW p \in InstalledPackages'
            PROVE  p \in Packages /\ (Verified(p) \/ p \in spoiled)
        <4>1. InstalledPackages \subseteq Packages
          BY DEF InstallInv, InstallTyped, InstalledPackages
        <4> QED
          BY <2>1, <2>5, <4>1 DEF InstallInv, InstallationsAreWhole
      <3> QED
        BY <2>4, <3>1 DEF Verified
    <2>7. ASSUME NEW d \in Exts, enabled'[d] # NoPackage
          PROVE  /\ row'[d].pkg = enabled'[d]
                 /\ Needs[enabled'[d]] # {} => Needs[enabled'[d]] \cap InstalledPackages' # {}
      <3>1. /\ d # e /\ row[d].pkg = enabled[d] /\ enabled' = enabled
            /\ enabled[d] \in Packages
            /\ Needs[enabled[d]] # {} => Needs[enabled[d]] \cap InstalledPackages # {}
        BY <2>1, <2>3, <2>7 DEF InstallInv, InstallationsAreWhole, InstallTyped, Versions
      <3>2. row'[d] = row[d]
        BY <2>2, <3>1 DEF InstallInv, InstallTyped
      <3>3. enabled[d] \in InstalledPackages /\ Ext[enabled[d]] = d
        BY <3>1, PackageTypes
           DEF InstalledPackages, Installed, NoRow, InstallInv, InstallTyped
      <3>4. ASSUME NEW n \in Needs[enabled[d]], n \in InstalledPackages
            PROVE  Needs[enabled[d]] \cap InstalledPackages' # {}
        <4>1. CASE Ext[n] = e
          <5>1. task.pkg \in Needs[enabled[d]]
            BY <2>1, <3>1, <3>3, <4>1 DEF Replaceable
          <5> QED
            BY <2>5, <5>1
        <4>2. CASE Ext[n] # e
          BY <2>5, <3>4, <4>2
        <4> QED
          BY <4>1, <4>2
      <3> QED
        BY <3>1, <3>2, <3>4
    <2>8. CASE CommitUpdate
      <3>1. task' = [task EXCEPT !.pc = "clean"]
        BY <2>8 DEF CommitUpdate
      <3>2. /\ task' \in Tasks /\ task' # NoTask /\ task'.kind = "update"
            /\ task'.pc = "clean" /\ task'.pkg = task.pkg /\ task'.old = task.old
        BY <2>1, <3>1 DEF InstallInv, InstallTyped, Tasks, NoTask
      <3>3. task.old \notin InstalledPackages'
        BY <2>1, <2>5
      <3>4. TaskOK'
        BY <2>1, <3>2, <3>3 DEF TaskOK
      <3> QED
        BY <2>1, <2>2, <2>3, <2>4, <2>6, <2>7, <3>2, <3>4, RowEffect
           DEF InstallInv, InstallTyped, InstallationsAreWhole
    <2>9. CASE CommitUnheard
      <3>1. task' = NoTask
        BY <2>9 DEF CommitUnheard
      <3> QED
        BY <2>1, <2>2, <2>3, <2>4, <2>6, <2>7, <3>1, PackageTypes, RowEffect
           DEF InstallInv, InstallTyped, InstallationsAreWhole, TaskOK, NoTask
    <2> QED
      BY <1>2, <2>8, <2>9
  <1>3. ASSUME NEW e \in Exts, UninstallPackage(e) PROVE InstallInv'
    <2>1. /\ enabled[e] = NoPackage /\ e \in Installed /\ Replaceable(e, NoPackage)
          /\ row[e].pkg \in Packages /\ Ext[row[e].pkg] = e
          /\ row' = [row EXCEPT ![e] = NoRow]
          /\ approved' \in [Exts -> SUBSET Decisions]
          /\ UNCHANGED <<enabled, payloads, parts, planned, reviewing, ids, spoiled>>
      BY <1>3 DEF UninstallPackage, InstallInv, InstallTyped
    <2>2. \A q : q \in InstalledPackages' <=> q \in InstalledPackages /\ Ext[q] # e
      BY <2>1, PackageTypes, RowEffect DEF InstallInv
    <2>3. InstallationsAreWhole'
      <3>1. ASSUME NEW d \in Exts, enabled[d] # NoPackage
            PROVE  /\ row'[d].pkg = enabled[d]
                   /\ Needs[enabled[d]] # {} => Needs[enabled[d]] \cap InstalledPackages' # {}
        <4>1. /\ d # e /\ row[d].pkg = enabled[d] /\ enabled[d] \in Packages
              /\ Needs[enabled[d]] # {} => Needs[enabled[d]] \cap InstalledPackages # {}
          BY <2>1, <3>1 DEF InstallInv, InstallationsAreWhole, InstallTyped, Versions
        <4>2. row'[d] = row[d]
          BY <2>1, <4>1 DEF InstallInv, InstallTyped
        <4>3. enabled[d] \in InstalledPackages /\ Ext[enabled[d]] = d
          BY <4>1, PackageTypes
             DEF InstalledPackages, Installed, NoRow, InstallInv, InstallTyped
        <4>4. \A n \in Needs[enabled[d]] : Ext[n] # e
          BY <2>1, <4>1, <4>3, PackageTypes, InstallAssumption DEF Replaceable
        <4> QED
          BY <2>2, <4>1, <4>2, <4>4
      <3> QED
        BY <2>1, <2>2, <3>1 DEF InstallInv, InstallationsAreWhole, Verified
    <2>4. /\ task' \in Tasks /\ task'.kind = "uninstall" /\ task'.pc = "clean"
          /\ task'.pkg = row[e].pkg /\ task'.old = row[e].pkg
      BY <1>3, <2>1 DEF UninstallPackage, NoTask, Tasks, Versions
    <2>5. TaskOK'
      BY <2>1, <2>2, <2>4 DEF TaskOK, NoTask
    <2> QED
      BY <2>1, <2>3, <2>4, <2>5, PackageTypes, RowEffect DEF InstallInv, InstallTyped
  <1> QED
    BY <1>1, <1>2, <1>3

\* Reviews, ENABLED, and what the rest of the Hub and the file system do.
LEMMA InstallOther ==
  ASSUME InstallInv,
         \/ \E p \in Packages : Damage(p)
         \/ \E e \in Exts : Repair(e) \/ ReadReview(e) \/ EnableInstalled(e) \/ DisableInstalled(e)
         \/ \E r \in reviewing : Decide(r)
         \/ ToggleShowing \/ RestartInstaller
  PROVE  InstallInv'
  <1>1. ASSUME NEW p \in Packages, Damage(p) PROVE InstallInv'
    <2>1. /\ UNCHANGED <<row, approved, enabled, parts, task, planned, reviewing, ids>>
          /\ payloads' \in [Packages -> {"none", "good", "bad"}]
          /\ spoiled' = spoiled \cup {p}
          /\ \A q \in Packages : payloads'[q] = payloads[q] \/ q \in spoiled'
      BY <1>1 DEF Damage, InstallInv, InstallTyped
    <2>2. InstalledPackages \subseteq Packages
      BY DEF InstallInv, InstallTyped, InstalledPackages
    <2>3. InstallationsAreWhole'
      BY <2>1, <2>2, WholeKept
    <2>4. TaskOK'
      BY <2>1, RowsKept
         DEF InstallInv, InstallTyped, TaskOK, NoTask, Verified, Replaceable
    <2> QED
      BY <2>1, <2>3, <2>4, RowsKept DEF InstallInv, InstallTyped
  <1>2. ASSUME NEW e \in Exts, Repair(e) PROVE InstallInv'
    <2>1. /\ UNCHANGED <<row, approved, enabled, payloads, parts, planned, reviewing, ids,
                          spoiled>>
          /\ task' = [NoTask EXCEPT !.kind = "repair", !.pkg = row[e].pkg, !.pc = "stage"]
          /\ row[e].pkg \in Packages
      BY <1>2 DEF Repair, InstallInv, InstallTyped
    <2>2. task' \in Tasks /\ TaskOK'
      BY <2>1 DEF Tasks, NoTask, Versions, TaskOK
    <2> QED
      BY <2>1, <2>2, RowsKept, WholeKept DEF InstallInv, InstallTyped
  <1>3. ASSUME NEW e \in Exts, ReadReview(e) PROVE InstallInv'
    <2>1. /\ UNCHANGED <<row, approved, enabled, payloads, parts, planned, task, ids,
                          spoiled>>
          /\ row[e].pkg \in Packages /\ row[e].id \in 0..MaxInstall
      BY <1>3 DEF ReadReview, Reviewable, InstallInv, InstallTyped, Rows
    <2>2. reviewing' \subseteq Reviews
      BY <1>3, <2>1
         DEF ReadReview, InstallInv, InstallTyped, Reviews, Permissions
    <2> QED
      BY <2>1, <2>2, RowsKept, WholeKept
         DEF InstallInv, InstallTyped, TaskOK, Verified, Replaceable
  <1>4. ASSUME NEW r \in reviewing, Decide(r) PROVE InstallInv'
    <2>1. /\ UNCHANGED <<row, enabled, payloads, parts, planned, task, ids, spoiled>>
          /\ r.ext \in Exts /\ r.permission \in Permissions /\ r.of \in Packages
          /\ reviewing' \subseteq Reviews
      BY <1>4 DEF Decide, InstallInv, InstallTyped, Reviews
    <2>2. [permission |-> r.permission, of |-> r.of] \in Decisions
      BY <2>1 DEF Decisions
    <2>3. approved' \in [Exts -> SUBSET Decisions]
      BY <1>4, <2>2 DEF Decide, InstallInv, InstallTyped
    <2> QED
      BY <2>1, <2>3, RowsKept, WholeKept
         DEF InstallInv, InstallTyped, TaskOK, Verified, Replaceable
  <1>5. ASSUME NEW e \in Exts, EnableInstalled(e) \/ DisableInstalled(e) PROVE InstallInv'
    <2>1. /\ UNCHANGED <<row, approved, payloads, parts, planned, reviewing, task, ids,
                          spoiled>>
          /\ task.kind \in {"none", "install"}
          /\ \/ enabled' = [enabled EXCEPT ![e] = NoPackage]
             \/ /\ enabled' = [enabled EXCEPT ![e] = row[e].pkg]
                /\ Ready(row[e].pkg, InstalledPackages) /\ e \in Installed
      BY <1>5 DEF EnableInstalled, DisableInstalled, Reviewable
    <2>2. enabled' \in [Exts -> Versions]
      BY <2>1 DEF InstallInv, InstallTyped, Versions
    <2>3. TaskOK'
      BY <2>1, RowsKept DEF InstallInv, TaskOK, Verified, NoTask
    <2>4. InstallationsAreWhole'
      BY <2>1, RowsKept
         DEF InstallInv, InstallTyped, InstallationsAreWhole, Verified, Ready
    <2> QED
      BY <2>1, <2>2, <2>3, <2>4, RowsKept DEF InstallInv, InstallTyped
  <1>6. CASE ToggleShowing
    BY <1>6, RowsKept, WholeKept
       DEF ToggleShowing, InstallInv, InstallTyped, TaskOK, Verified, Replaceable
  <1>7. CASE RestartInstaller
    <2>1. /\ UNCHANGED <<row, approved, enabled, payloads, ids, spoiled>>
          /\ task' = NoTask /\ parts' = {} /\ planned' = {} /\ reviewing' = {}
      BY <1>7 DEF RestartInstaller
    <2>2. TaskOK'
      BY <2>1 DEF TaskOK, NoTask
    <2> QED
      BY <2>1, <2>2, PackageTypes, RowsKept, WholeKept DEF InstallInv, InstallTyped
  <1> QED
    BY <1>1, <1>2, <1>3, <1>4, <1>5, <1>6, <1>7

LEMMA InstallStep == InstallInv /\ [InstallNext]_installVars => InstallInv'
  <1> SUFFICES ASSUME InstallInv, [InstallNext]_installVars PROVE InstallInv'
    OBVIOUS
  <1>1. CASE UNCHANGED installVars
    BY <1>1, RowsKept, WholeKept
       DEF installVars, InstallInv, InstallTyped, TaskOK, Verified, Replaceable
  <1> QED
    BY <1>1, InstallPlans, InstallFiles, InstallRows, InstallOther DEF InstallNext

\* The rows, files, reviews and the operation under way stay in their domains
\* (internal/extension, internal/store).
THEOREM InstallTypes == InstallSpec => []InstallTypeOK
  <1>1. InstallInv => InstallTypeOK
    BY DEF InstallInv, InstallTyped, InstallTypeOK, Rows, Versions, Decisions, Tasks
  <1> QED
    BY <1>1, InstallBegins, InstallStep, PTL DEF InstallSpec

\* What the rows say is so, through failures and restarts between the steps: an
\* installed package has its payload, an ENABLED extension its dependency
\* (Install, replaceDisabled, repairDisabled, Uninstall, Enable).
THEOREM InstallationsWhole == InstallSpec => []InstallationsAreWhole
  <1>1. InstallInv => InstallationsAreWhole
    BY DEF InstallInv
  <1> QED
    BY <1>1, InstallBegins, InstallStep, PTL DEF InstallSpec

-----------------------------------------------------------------------------
(* Dependency plans.                                                         *)

LEMMA LeastExists ==
  ASSUME NEW T, T \subseteq Nat, T # {}
  PROVE  \E x \in T : \A y \in T : x <= y
<1>1. IsWellFoundedOn(OpToRel(<, Nat), Nat)
  BY NatLessThanWellFounded
<1>2. PICK x \in T : \A y \in T : <<y, x>> \notin OpToRel(<, Nat)
  BY <1>1, WFMin
<1>3. \A y \in T : x \in Nat /\ y \in Nat /\ ~(y < x)
  BY <1>2 DEF OpToRel
<1> QED BY <1>3

LEMMA GreatestExists ==
  ASSUME NEW n \in Nat, NEW T, T \subseteq 1..n, T # {}
  PROVE  \E x \in T : \A y \in T : y <= x
<1> DEFINE D == {n - k : k \in T}
<1>1. \A k \in T : k \in Nat /\ n - k \in Nat
  OBVIOUS
<1>2. D \subseteq Nat /\ D # {}
  BY <1>1
<1>3. \A k \in T : n - k \in D
  OBVIOUS
<1> HIDE DEF D
<1>4. PICK d \in D : \A e \in D : d <= e
  BY <1>2, LeastExists
<1>5. PICK x \in T : d = n - x
  BY <1>4 DEF D
<1>6. \A y \in T : d <= n - y
  BY <1>3, <1>4
<1> QED BY <1>1, <1>5, <1>6

LEMMA MinOf ==
  ASSUME NEW T, T \subseteq Nat, T # {}
  PROVE  Min(T) \in T
<1>1. \E x \in T : \A y \in T : x <= y
  BY LeastExists
<1> QED BY <1>1 DEF Min

LEMMA MaxOf ==
  ASSUME NEW n \in Nat, NEW T, T \subseteq 1..n, T # {}
  PROVE  Max(T) \in T
<1>1. \E x \in T : \A y \in T : y <= x
  BY GreatestExists
<1>2. \E x \in T : \A y \in T : x >= y
  BY <1>1
<1> QED BY <1>2 DEF Max

LEMMA Cons ==
  ASSUME NEW S, NEW c \in S, NEW s \in Seq(S)
  PROVE  /\ <<c>> \o s \in Seq(S) /\ Len(<<c>> \o s) = Len(s) + 1
         /\ (<<c>> \o s)[1] = c
         /\ \A i \in DOMAIN s : i + 1 \in DOMAIN (<<c>> \o s) /\ (<<c>> \o s)[i + 1] = s[i]
         /\ \A i \in DOMAIN (<<c>> \o s) : i = 1 \/ (i - 1 \in DOMAIN s /\ (<<c>> \o s)[i] = s[i - 1])
  OBVIOUS

LEMMA Popped ==
  ASSUME NEW S, NEW s \in Seq(S), s # <<>>
  PROVE  /\ Tail(s) \in Seq(S) /\ Head(s) = s[1] /\ Head(s) \in S /\ 1 \in DOMAIN s
         /\ \A i \in DOMAIN Tail(s) : i + 1 \in DOMAIN s /\ Tail(s)[i] = s[i + 1]
         /\ \A i \in DOMAIN s : i = 1 \/ (i - 1 \in DOMAIN Tail(s) /\ Tail(s)[i - 1] = s[i])
  OBVIOUS

LEMMA LibraryShape ==
  ASSUME library \in Libraries
  PROVE  /\ Extensions \subseteq Nat /\ Root \in Extensions
         /\ \A e \in Extensions : \E n \in Nat : Packaged(e) = 1..n
         /\ Packaged(Root) = {1}
         /\ \A e \in Extensions : \A v \in Packaged(e), x \in Extensions :
              library[e][v][x] \in Asked
<1> DEFINE Row == Seq(Asked)  Book == Seq(Row)
<1>1. /\ library \in Seq(Book) /\ library # <<>> /\ Len(library[Root]) = 1
      /\ \A e \in DOMAIN library : \A v \in DOMAIN library[e] : Len(library[e][v]) = Len(library)
  BY PlanAssumption
<1> HIDE DEF Book
<1>2. Extensions = 1..Len(library) /\ Len(library) \in Nat \ {0}
  BY <1>1 DEF Extensions
<1>3. \A e \in Extensions : library[e] \in Book
  BY <1>1, <1>2
<1> HIDE DEF Row
<1>4. \A e \in Extensions : /\ Packaged(e) = 1..Len(library[e]) /\ Len(library[e]) \in Nat
                            /\ \A v \in Packaged(e) : library[e][v] \in Row
  BY <1>3 DEF Packaged, Book
<1>5. \A e \in Extensions : \A v \in Packaged(e) :
        /\ DOMAIN library[e][v] = 1..Len(library)
        /\ \A x \in 1..Len(library) : library[e][v][x] \in Asked
  <2> TAKE e \in Extensions
  <2> TAKE v \in Packaged(e)
  <2>1. library[e][v] \in Row /\ Len(library[e][v]) = Len(library)
    BY <1>1, <1>4 DEF Extensions, Packaged
  <2> QED BY <2>1 DEF Row
<1>6. Root \in Extensions /\ Packaged(Root) = {1}
  BY <1>1, <1>2, <1>4 DEF Root
<1> QED BY <1>2, <1>4, <1>5, <1>6

\* The selections that are still to be found.
Extends(f, g) == \A e \in Extensions : g[e] # 0 => f[e] = g[e]

\* A part of a consistent selection, as far as one can see.
Partial(g, S) ==
  /\ g \in Selections /\ g[Root] = 1 /\ S \subseteq {e \in Extensions : g[e] # 0}
  /\ \A e \in Extensions : g[e] # 0 => inplace[e] \in {0, g[e]}

Met(g, S) ==
  \A e \in S : \A x \in Dependencies(e, g[e]) :
    g[x] # 0 => Accepts(library[e][g[e]][x], g[x])

Trials == [ext : Extensions, rest : SUBSET Nat, selected : Selections,
            expanded : SUBSET Extensions]
With(c, v) == [c.selected EXCEPT ![c.ext] = v]
ChoiceOK(c) ==
  /\ c.rest \subseteq Packaged(c.ext)
  /\ \A v \in c.rest : Partial(With(c, v), c.expanded) /\ Met(With(c, v), c.expanded)

\* f is found sooner or later, on this way or from a choice that is left.
Alive(f) ==
  \/ plan = "solving" /\ Extends(f, selected)
  \/ \E i \in DOMAIN choices : \E v \in choices[i].rest : Extends(f, With(choices[i], v))

Solving == plan \in {"solving", "back", "blocked"}

SolverOK ==
  /\ library \in Libraries /\ inplace \in Selections /\ choices \in Seq(Trials)
  /\ plan \in {"solving", "back", "blocked", "ordering", "cycle", "solved"}
  /\ Partial(selected, expanded)
  /\ plan = "solving" => Met(selected, expanded)
  /\ plan = "blocked" => choices = <<>>
  /\ \A i \in DOMAIN choices : ChoiceOK(choices[i])

NothingMissed ==
  Solving => \A f \in Selections : Consistent(f) => Alive(f)

SelectionOK == ~Solving => Consistent(selected)

LEMMA Unresolvable ==
  ASSUME SolverOK, NEW x \in Unresolved, NEW f \in Selections, Consistent(f),
         Extends(f, selected)
  PROVE  f[x] \in Packaged(x) /\ Satisfies(x, f[x]) /\ inplace[x] \in {0, f[x]}
<1>1. x \in Extensions /\ selected[x] = 0 /\ Requirements(x) # {}
  BY DEF Unresolved
<1>2. ASSUME NEW e \in expanded, library[e][selected[e]][x] # NoRange
      PROVE  f[x] # 0 /\ Accepts(library[e][selected[e]][x], f[x])
  <2>1. e \in Extensions /\ selected[e] # 0 /\ f[e] = selected[e]
    BY DEF SolverOK, Partial, Extends
  <2>2. x \in Dependencies(e, f[e])
    BY <1>1, <1>2, <2>1 DEF Dependencies
  <2> QED BY <2>1, <2>2 DEF Consistent
<1>3. f[x] # 0 /\ Satisfies(x, f[x])
  BY <1>1, <1>2 DEF Requirements, Satisfies
<1> QED BY <1>1, <1>3 DEF Consistent, Selections

\* An extension may be selected that the selection asks for.
LEMMA SelectOK ==
  ASSUME SolverOK, plan = "solving", NEW x \in Unresolved, NEW w \in Packaged(x),
         Satisfies(x, w), inplace[x] \in {0, w}
  PROVE  LET g == [selected EXCEPT ![x] = w]
         IN  Partial(g, expanded) /\ Met(g, expanded)
<1> DEFINE g == [selected EXCEPT ![x] = w]
<1>1. x \in Extensions /\ selected[x] = 0
  BY DEF Unresolved
<1>2. /\ library \in Libraries /\ Partial(selected, expanded) /\ Met(selected, expanded)
      /\ selected \in Selections
  BY DEF SolverOK, Partial
<1>3. Extensions \subseteq Nat /\ Root \in Extensions /\ w \in Nat \ {0}
  BY <1>1, <1>2, LibraryShape
<1>4. /\ DOMAIN g = Extensions /\ g[x] = w
      /\ \A e \in Extensions : e # x => g[e] = selected[e]
      /\ g \in Selections
  BY <1>1, <1>2 DEF Selections
<1>5. x \notin expanded /\ expanded \subseteq Extensions
  BY <1>1, <1>2 DEF Partial
<1> HIDE DEF g
<1>6. Partial(g, expanded)
  BY <1>1, <1>2, <1>3, <1>4, <1>5 DEF Partial
<1>7. ASSUME NEW e \in expanded, NEW y \in Dependencies(e, g[e]), g[y] # 0
      PROVE  Accepts(library[e][g[e]][y], g[y])
  <2>1. e \in Extensions /\ e # x /\ g[e] = selected[e]
    BY <1>4, <1>5
  <2>2. y \in Extensions /\ library[e][selected[e]][y] # NoRange
    BY <1>7, <2>1 DEF Dependencies
  <2>3. CASE y = x
    <3>1. library[e][selected[e]][x] \in Requirements(x)
      BY <2>2, <2>3 DEF Requirements
    <3> QED BY <1>4, <2>1, <2>3, <3>1 DEF Satisfies
  <2>4. CASE y # x
    BY <1>2, <1>4, <1>7, <2>1, <2>2, <2>4 DEF Met, Dependencies
  <2> QED BY <2>3, <2>4
<1> QED BY <1>6, <1>7 DEF Met, g

LEMMA Candidate ==
  ASSUME library \in Libraries, NEW x \in Extensions, NEW T, T \subseteq Packaged(x), T # {}
  PROVE  Max(T) \in T
<1>1. PICK n \in Nat : Packaged(x) = 1..n
  BY LibraryShape
<1> QED BY <1>1, MaxOf

LEMMA SelectionShape ==
  ASSUME library \in Libraries, NEW f \in Selections, NEW x \in Extensions
  PROVE  f[x] \in Nat /\ (f[x] # 0 => f[x] \in Packaged(x)) /\ DOMAIN f = Extensions
<1>1. PICK n \in Nat : Packaged(x) = 1..n
  BY LibraryShape
<1> QED BY <1>1 DEF Selections

LEMMA FirstUnresolved ==
  ASSUME SolverOK, Unresolved # {}
  PROVE  Min(Unresolved) \in Unresolved
<1>1. Unresolved \subseteq Nat
  BY LibraryShape DEF Unresolved, SolverOK
<1> QED BY <1>1, MinOf

\* What a step that leaves the library and what is in place says of the rest.
LEMMA SameLibrary ==
  ASSUME UNCHANGED <<library, inplace>>
  PROVE  /\ Extensions' = Extensions /\ Selections' = Selections /\ Trials' = Trials
         /\ \A f : Consistent(f)' <=> Consistent(f)
         /\ \A f, g : Extends(f, g)' <=> Extends(f, g)
         /\ \A g, S : Partial(g, S)' <=> Partial(g, S)
         /\ \A g, S : Met(g, S)' <=> Met(g, S)
         /\ \A c : ChoiceOK(c)' <=> ChoiceOK(c)
  BY DEF Extensions, Selections, Trials, Consistent, Extends, Partial, Met, ChoiceOK, With,
     Packaged, Dependencies, Accepts

LEMMA ExpandKeepsSolver ==
  ASSUME SolverOK, NothingMissed, SelectionOK, Expand
  PROVE  SolverOK' /\ NothingMissed' /\ SelectionOK'
<1> DEFINE e == Min(Unexpanded)
           fits == \A x \in Dependencies(e, selected[e]) :
                     selected[x] # 0 => Accepts(library[e][selected[e]][x], selected[x])
<1>1. /\ plan = "solving" /\ Unexpanded # {}
      /\ expanded' = expanded \cup {e}
      /\ plan' = IF fits THEN "solving" ELSE "back"
      /\ UNCHANGED <<library, inplace, selected, choices>>
  BY DEF Expand
<1>2. e \in Extensions /\ selected[e] # 0
  <2>1. Unexpanded \subseteq Nat
    BY LibraryShape DEF Unexpanded, SolverOK
  <2>2. e \in Unexpanded
    BY <1>1, <2>1, MinOf
  <2> QED BY <2>2 DEF Unexpanded
<1> HIDE DEF e
<1>3. Partial(selected, expanded)' /\ Met(selected, expanded)
  BY <1>1, <1>2 DEF SolverOK, Partial, Selections, Extensions, Packaged
<1>4. plan' = "solving" => Met(selected, expanded)'
  BY <1>1, <1>3 DEF Met, Dependencies, Accepts, Extensions
<1>5. SolverOK'
  BY <1>1, <1>3, <1>4, SameLibrary DEF SolverOK
<1>6. ASSUME NEW f \in Selections, Consistent(f)
      PROVE  Alive(f)'
  <2>1. Alive(f)
    BY <1>1, <1>6 DEF NothingMissed, Solving
  <2>2. CASE \E i \in DOMAIN choices : \E v \in choices[i].rest : Extends(f, With(choices[i], v))
    BY <1>1, <2>2 DEF Alive, Extends, With, Extensions
  <2>3. CASE Extends(f, selected)
    <3>1. fits
      BY <1>2, <1>6, <2>3 DEF Consistent, Extends, Dependencies
    <3> QED BY <1>1, <2>3, <3>1 DEF Alive, Extends, Extensions
  <2> QED BY <2>1, <2>2, <2>3 DEF Alive
<1>7. NothingMissed' /\ SelectionOK'
  BY <1>1, <1>6 DEF NothingMissed, SelectionOK, Solving, Selections, Consistent, Extensions,
     Packaged, Dependencies, Accepts
<1> QED BY <1>5, <1>7

LEMMA ResolveKeepsSolver ==
  ASSUME SolverOK, NothingMissed, SelectionOK, Resolve
  PROVE  SolverOK' /\ NothingMissed' /\ SelectionOK'
<1> DEFINE x == Min(Unresolved)  all == Candidates(x)
<1>1. /\ plan = "solving" /\ x \in Unresolved
      /\ UNCHANGED <<library, inplace, expanded>>
  BY FirstUnresolved DEF Resolve
<1>2. /\ library \in Libraries /\ inplace \in Selections /\ x \in Extensions /\ selected[x] = 0
      /\ selected \in Selections /\ choices \in Seq(Trials)
  BY <1>1 DEF Unresolved, SolverOK, Partial
<1>3. \A f \in Selections : Consistent(f) => Alive(f)
  BY <1>1 DEF NothingMissed, Solving
<1>4. ASSUME NEW f \in Selections, Consistent(f), Extends(f, selected)
      PROVE  /\ f[x] \in Packaged(x) /\ Satisfies(x, f[x]) /\ inplace[x] \in {0, f[x]}
             /\ f[x] \in all
  BY <1>1, <1>4, Unresolvable DEF Candidates
<1> HIDE DEF x, all
<1>5. CASE /\ ~Impossible(x) /\ inplace[x] # 0 /\ Satisfies(x, inplace[x])
           /\ selected' = [selected EXCEPT ![x] = inplace[x]]
           /\ UNCHANGED <<choices, plan>>
  <2>1. inplace[x] \in Packaged(x)
    BY <1>2, <1>5, SelectionShape
  <2>2. Partial(selected', expanded) /\ Met(selected', expanded)
    BY <1>1, <1>5, <2>1, SelectOK
  <2>3. SolverOK'
    BY <1>1, <1>5, <2>2, SameLibrary DEF SolverOK
  <2>4. ASSUME NEW f \in Selections, Consistent(f)
        PROVE  Alive(f)'
    <3>1. CASE Extends(f, selected)
      <4>1. f[x] = inplace[x]
        BY <1>4, <1>5, <2>4, <3>1
      <4>2. Extends(f, selected')
        BY <1>2, <1>5, <3>1, <4>1, SelectionShape DEF Extends
      <4> QED BY <1>1, <1>5, <4>2, SameLibrary DEF Alive
    <3>2. CASE \E i \in DOMAIN choices : \E v \in choices[i].rest : Extends(f, With(choices[i], v))
      BY <1>1, <1>5, <3>2, SameLibrary DEF Alive, With
    <3> QED BY <1>3, <2>4, <3>1, <3>2 DEF Alive
  <2>5. NothingMissed' /\ SelectionOK'
    BY <1>1, <1>5, <2>4, SameLibrary DEF NothingMissed, SelectionOK, Solving
  <2> QED BY <2>3, <2>5
<1>6. CASE /\ inplace[x] = 0 /\ all # {}
           /\ selected' = [selected EXCEPT ![x] = Max(all)]
           /\ choices' = <<[ext |-> x, rest |-> all \ {Max(all)}, selected |-> selected,
                            expanded |-> expanded]>> \o choices
           /\ UNCHANGED plan
  <2> DEFINE v == Max(all)
             c == [ext |-> x, rest |-> all \ {v}, selected |-> selected, expanded |-> expanded]
  <2>1. all \subseteq Packaged(x) /\ v \in all /\ all \subseteq Nat
    <3>1. all \subseteq Packaged(x)
      BY DEF all, Candidates
    <3>2. Packaged(x) \subseteq Nat
      BY <1>2, LibraryShape
    <3> QED BY <1>2, <1>6, <3>1, <3>2, Candidate
  <2>2. \A w \in all : /\ Partial([selected EXCEPT ![x] = w], expanded)
                       /\ Met([selected EXCEPT ![x] = w], expanded)
    BY <1>1, <1>6, <2>1, SelectOK DEF all, Candidates
  <2>3. c \in Trials /\ ChoiceOK(c)
    <3>1. expanded \subseteq Extensions
      BY DEF SolverOK, Partial
    <3> QED BY <1>2, <2>1, <2>2, <3>1 DEF Trials, ChoiceOK, With
  <2>4. With(c, v) = selected' /\ \A w \in all : With(c, w) = [selected EXCEPT ![x] = w]
    BY <1>6 DEF With
  <2>5. c.rest = all \ {v} /\ choices' = <<c>> \o choices
    BY <1>6
  <2> HIDE DEF c, v
  <2>6. /\ choices' \in Seq(Trials) /\ choices'[1] = c /\ 1 \in DOMAIN choices'
        /\ \A i \in DOMAIN choices : i + 1 \in DOMAIN choices' /\ choices'[i + 1] = choices[i]
        /\ \A i \in DOMAIN choices' : i = 1 \/ (i - 1 \in DOMAIN choices /\ choices'[i] = choices[i - 1])
    BY <1>2, <2>3, <2>5, Cons
  <2>7. \A i \in DOMAIN choices' : ChoiceOK(choices'[i])
    BY <2>3, <2>6 DEF SolverOK
  <2>8. SolverOK'
    BY <1>1, <1>6, <2>1, <2>2, <2>6, <2>7, SameLibrary DEF SolverOK, v
  <2>9. ASSUME NEW f \in Selections, Consistent(f)
        PROVE  Alive(f)'
    <3>1. CASE Extends(f, selected)
      <4>1. f[x] \in all /\ Extends(f, [selected EXCEPT ![x] = f[x]])
        BY <1>2, <1>4, <2>9, <3>1, SelectionShape DEF Extends
      <4>2. CASE f[x] = v
        BY <1>1, <1>6, <2>4, <4>1, <4>2, SameLibrary DEF Alive
      <4>3. CASE f[x] # v
        BY <1>1, <2>4, <2>5, <2>6, <4>1, <4>3, SameLibrary DEF Alive, With
      <4> QED BY <4>2, <4>3
    <3>2. CASE \E i \in DOMAIN choices : \E w \in choices[i].rest : Extends(f, With(choices[i], w))
      BY <1>1, <2>6, <3>2, SameLibrary DEF Alive, With
    <3> QED BY <1>3, <2>9, <3>1, <3>2 DEF Alive
  <2>10. NothingMissed' /\ SelectionOK'
    BY <1>1, <1>6, <2>9, SameLibrary DEF NothingMissed, SelectionOK, Solving
  <2> QED BY <2>8, <2>10
<1>7. CASE /\ Impossible(x) \/ (IF inplace[x] # 0 THEN ~Satisfies(x, inplace[x]) ELSE all = {})
           /\ plan' = "back"
           /\ UNCHANGED <<selected, choices>>
  <2>1. SolverOK'
    BY <1>1, <1>7, SameLibrary DEF SolverOK
  <2>2. ASSUME NEW f \in Selections, Consistent(f), Extends(f, selected)
        PROVE  FALSE
    <3>1. f[x] \in Nat /\ Satisfies(x, f[x]) /\ inplace[x] \in {0, f[x]} /\ f[x] \in all
      BY <1>2, <1>4, <2>2, SelectionShape
    <3>2. CASE Impossible(x)
      <4>1. PICK a, b \in Requirements(x) : a.min > b.max
        BY <3>2 DEF Impossible
      <4>2. a \in [min : Nat, max : Nat] /\ b \in [min : Nat, max : Nat]
        <5>1. \A q \in expanded : q \in Extensions /\ selected[q] \in Packaged(q)
          BY <1>2, SelectionShape DEF SolverOK, Partial
        <5>2. Requirements(x) \subseteq Asked \ {NoRange}
          BY <1>2, <5>1, LibraryShape DEF Requirements
        <5> QED BY <5>2 DEF Asked
      <4>3. a.min <= f[x] /\ f[x] <= b.max
        BY <3>1, <4>1 DEF Satisfies, Requirements, Accepts
      <4> QED BY <3>1, <4>1, <4>2, <4>3
    <3>3. CASE IF inplace[x] # 0 THEN ~Satisfies(x, inplace[x]) ELSE all = {}
      BY <3>1, <3>3
    <3> QED BY <1>7, <3>2, <3>3
  <2>3. ASSUME NEW f \in Selections, Consistent(f)
        PROVE  Alive(f)'
    BY <1>1, <1>3, <1>7, <2>2, <2>3, SameLibrary DEF Alive, With
  <2>4. NothingMissed' /\ SelectionOK'
    BY <1>1, <1>7, <2>3, SameLibrary DEF NothingMissed, SelectionOK, Solving
  <2> QED BY <2>1, <2>4
<1> QED BY <1>5, <1>6, <1>7 DEF Resolve, x, all

LEMMA GoBackKeepsSolver ==
  ASSUME SolverOK, NothingMissed, SelectionOK, GoBack
  PROVE  SolverOK' /\ NothingMissed' /\ SelectionOK'
<1>1. plan = "back" /\ UNCHANGED <<library, inplace>>
  BY DEF GoBack
<1>2. \A f \in Selections : Consistent(f) => Alive(f)
  BY <1>1 DEF NothingMissed, Solving
<1>3. library \in Libraries /\ choices \in Seq(Trials) /\ \A i \in DOMAIN choices : ChoiceOK(choices[i])
  BY DEF SolverOK
<1>4. CASE choices = <<>> /\ plan' = "blocked" /\ UNCHANGED solvingVars
  <2>1. SolverOK'
    BY <1>1, <1>4, SameLibrary DEF SolverOK, solvingVars
  <2>2. \A f \in Selections : ~Consistent(f)
    BY <1>1, <1>2, <1>4 DEF Alive
  <2> QED BY <1>1, <1>4, <2>1, <2>2, SameLibrary DEF NothingMissed, SelectionOK, Solving
<1>5. CASE choices # <<>>
  <2> DEFINE last == Head(choices)  next == Max(last.rest)
  <2>1. /\ Tail(choices) \in Seq(Trials) /\ last = choices[1] /\ last \in Trials
        /\ 1 \in DOMAIN choices /\ ChoiceOK(last)
        /\ \A i \in DOMAIN Tail(choices) : i + 1 \in DOMAIN choices /\ Tail(choices)[i] = choices[i + 1]
        /\ \A i \in DOMAIN choices : i = 1 \/ (i - 1 \in DOMAIN Tail(choices)
                                               /\ Tail(choices)[i - 1] = choices[i])
    BY <1>3, <1>5, Popped
  <2>2. \A i \in DOMAIN Tail(choices) : ChoiceOK(Tail(choices)[i])
    BY <1>3, <2>1
  <2>3. IF last.rest = {}
        THEN choices' = Tail(choices) /\ UNCHANGED <<selected, expanded, plan>>
        ELSE /\ selected' = [last.selected EXCEPT ![last.ext] = next]
             /\ expanded' = last.expanded
             /\ choices' = <<[last EXCEPT !.rest = @ \ {next}]>> \o Tail(choices)
             /\ plan' = "solving"
    BY <1>5 DEF GoBack
  <2> HIDE DEF last
  <2>4. CASE last.rest = {}
    <3>1. SolverOK'
      BY <1>1, <2>1, <2>2, <2>3, <2>4, SameLibrary DEF SolverOK
    <3>2. ASSUME NEW f \in Selections, Consistent(f)
          PROVE  Alive(f)'
      <4>1. PICK i \in DOMAIN choices : \E v \in choices[i].rest : Extends(f, With(choices[i], v))
        BY <1>1, <1>2, <3>2 DEF Alive
      <4>2. i - 1 \in DOMAIN choices' /\ choices'[i - 1] = choices[i]
        BY <2>1, <2>3, <2>4, <4>1
      <4> QED BY <1>1, <4>1, <4>2, SameLibrary DEF Alive, With
    <3> QED BY <1>1, <2>3, <2>4, <3>1, <3>2, SameLibrary DEF NothingMissed, SelectionOK, Solving
  <2>5. CASE last.rest # {}
    <3> DEFINE c == [last EXCEPT !.rest = @ \ {next}]
    <3>1. next \in last.rest
      <4>1. last.ext \in Extensions /\ last.rest \subseteq Packaged(last.ext)
        BY <2>1 DEF Trials, ChoiceOK
      <4> QED BY <1>3, <2>5, <4>1, Candidate
    <3>2. /\ c \in Trials /\ c.rest = last.rest \ {next} /\ c.ext = last.ext
          /\ c.selected = last.selected /\ c.expanded = last.expanded
      BY <2>1 DEF Trials
    <3>3. /\ choices' = <<c>> \o Tail(choices) /\ plan' = "solving"
          /\ selected' = With(last, next) /\ expanded' = last.expanded
      BY <2>3, <2>5 DEF With
    <3> HIDE DEF c, next
    <3>4. \A v : With(c, v) = With(last, v)
      BY <3>2 DEF With
    <3>5. ChoiceOK(c)
      BY <2>1, <3>2, <3>4 DEF ChoiceOK
    <3>6. /\ choices' \in Seq(Trials) /\ choices'[1] = c /\ 1 \in DOMAIN choices'
          /\ \A i \in DOMAIN Tail(choices) : i + 1 \in DOMAIN choices'
                                             /\ choices'[i + 1] = Tail(choices)[i]
          /\ \A i \in DOMAIN choices' : i = 1 \/ (i - 1 \in DOMAIN Tail(choices)
                                                  /\ choices'[i] = Tail(choices)[i - 1])
      BY <2>1, <3>2, <3>3, Cons
    <3>7. \A i \in DOMAIN choices' : ChoiceOK(choices'[i])
      BY <2>2, <3>5, <3>6
    <3>8. Partial(selected', expanded') /\ Met(selected', expanded')
      BY <2>1, <3>1, <3>3 DEF ChoiceOK
    <3>9. SolverOK'
      BY <1>1, <3>3, <3>6, <3>7, <3>8, SameLibrary DEF SolverOK
    <3>10. ASSUME NEW f \in Selections, Consistent(f)
           PROVE  Alive(f)'
      <4>1. PICK i \in DOMAIN choices : \E v \in choices[i].rest : Extends(f, With(choices[i], v))
        BY <1>1, <1>2, <3>10 DEF Alive
      <4>2. PICK v \in choices[i].rest : Extends(f, With(choices[i], v))
        BY <4>1
      <4>3. CASE i = 1 /\ v = next
        BY <1>1, <2>1, <3>3, <4>2, <4>3, SameLibrary DEF Alive
      <4>4. CASE i = 1 /\ v # next
        <5>1. v \in choices'[1].rest /\ Extends(f, With(choices'[1], v))
          BY <2>1, <3>2, <3>4, <3>6, <4>2, <4>4
        <5> QED BY <1>1, <3>6, <5>1, SameLibrary DEF Alive, With
      <4>5. CASE i # 1
        <5>1. i - 1 + 1 = i
          BY <1>3, <4>1
        <5>2. i \in DOMAIN choices' /\ choices'[i] = choices[i]
          BY <2>1, <3>6, <4>1, <4>5, <5>1
        <5> QED BY <1>1, <4>2, <5>2, SameLibrary DEF Alive, With
      <4> QED BY <4>3, <4>4, <4>5
    <3> QED BY <1>1, <3>3, <3>9, <3>10, SameLibrary DEF NothingMissed, SelectionOK, Solving
  <2> QED BY <2>4, <2>5
<1> QED BY <1>4, <1>5 DEF GoBack

LEMMA SolveKeepsSolver ==
  ASSUME SolverOK, NothingMissed, SelectionOK, Solve
  PROVE  SolverOK' /\ NothingMissed' /\ SelectionOK'
<1>1. /\ plan = "solving" /\ Unexpanded = {} /\ Unresolved = {} /\ plan' = "ordering"
      /\ UNCHANGED <<library, inplace, selected, expanded, choices>>
  BY DEF Solve, solvingVars
<1>2. SolverOK'
  BY <1>1, SameLibrary DEF SolverOK
<1>3. Consistent(selected)
  <2>1. selected[Root] = 1 /\ Met(selected, expanded)
    BY <1>1 DEF SolverOK, Partial
  <2>2. ASSUME NEW e \in Extensions, selected[e] # 0
        PROVE  /\ inplace[e] \in {0, selected[e]}
               /\ \A x \in Dependencies(e, selected[e]) :
                    selected[x] # 0 /\ Accepts(library[e][selected[e]][x], selected[x])
    <3>1. e \in expanded
      BY <1>1, <2>2 DEF Unexpanded
    <3>2. ASSUME NEW x \in Dependencies(e, selected[e])
          PROVE  selected[x] # 0
      <4>1. library[e][selected[e]][x] \in Requirements(x) /\ x \in Extensions
        BY <3>1, <3>2 DEF Requirements, Dependencies
      <4> QED BY <1>1, <4>1 DEF Unresolved
    <3> QED BY <2>1, <2>2, <3>1, <3>2 DEF SolverOK, Partial, Met
  <2> QED BY <2>1, <2>2 DEF Consistent
<1> QED BY <1>1, <1>2, <1>3, SameLibrary DEF NothingMissed, SelectionOK, Solving

LEMMA OrderKeepsSolver ==
  ASSUME SolverOK, NothingMissed, SelectionOK, VisitChild \/ EndVisit
  PROVE  SolverOK' /\ NothingMissed' /\ SelectionOK'
<1>1. /\ plan = "ordering" /\ plan' \in {"ordering", "cycle", "solved"}
      /\ UNCHANGED <<library, inplace, selected, expanded, choices>>
  BY DEF VisitChild, EndVisit, solvingVars
<1> QED BY <1>1, SameLibrary DEF SolverOK, NothingMissed, SelectionOK, Solving

LEMMA SolverInit ==
  ASSUME PlanInit
  PROVE  SolverOK /\ NothingMissed /\ SelectionOK
<1>1. /\ library \in Libraries /\ inplace \in Selections
      /\ selected = [e \in Extensions |-> IF e = Root THEN 1 ELSE 0]
      /\ expanded = {} /\ choices = <<>> /\ plan = "solving"
  BY DEF PlanInit
<1>2. /\ Root \in Extensions /\ Packaged(Root) = {1}
      /\ inplace[Root] \in {0, 1}
  <2>1. Root \in Extensions /\ Packaged(Root) = {1}
    BY <1>1, LibraryShape
  <2> QED BY <1>1, <2>1 DEF Selections
<1>3. Partial(selected, expanded)
  <2>1. selected \in Selections
    BY <1>1, <1>2 DEF Selections
  <2> QED BY <1>1, <1>2, <2>1 DEF Partial
<1>4. SolverOK
  <2>1. choices \in Seq(Trials) /\ DOMAIN choices = {}
    BY <1>1
  <2> QED BY <1>1, <1>3, <2>1 DEF SolverOK, Met
<1>5. ASSUME NEW f \in Selections, Consistent(f)
      PROVE  Alive(f)
  BY <1>1, <1>2, <1>5 DEF Alive, Extends, Consistent
<1> QED BY <1>1, <1>4, <1>5 DEF NothingMissed, SelectionOK, Solving

-----------------------------------------------------------------------------
\* The order: what is on the way has been looked at up to what comes next on it,
\* and what was visited comes after all it depends on.
OrderTypes ==
  /\ path \in Seq(Extensions) /\ left \in [Extensions -> SUBSET Extensions]
  /\ visited \subseteq Extensions /\ steps \in Seq(Extensions)

Looked(i) ==
  \A x \in Edges(path[i]) \ left[path[i]] :
    x \in visited \/ (i < Len(path) /\ x = path[i + 1])

OnTheWay ==
  /\ path # <<>> /\ path[1] = Root
  /\ \A i \in DOMAIN path : Looked(i)
  /\ \A i, j \in DOMAIN path : path[i] = path[j] => i = j
  /\ \A e \in Extensions \ visited : e \notin Range(path) => left[e] = Edges(e)

Provided(e) == Edges(e) \subseteq visited /\ (inplace[e] # 0 \/ e \in Range(steps))
After(i) ==
  \A x \in Edges(steps[i]) : inplace[x] # 0 \/ \E j \in 1..(i - 1) : steps[j] = x

OrderOK ==
  /\ OrderTypes
  /\ Solving => visited = {} /\ steps = <<>>
  /\ plan = "ordering" => OnTheWay
  /\ plan = "solved" => Root \in visited
  /\ \A e \in visited : Provided(e)
  /\ \A i \in DOMAIN steps : After(i)

LEMMA EdgesAre ==
  ASSUME NEW e
  PROVE  Edges(e) \subseteq Extensions
  BY DEF Edges, Dependencies

LEMMA SameEdges ==
  ASSUME UNCHANGED <<library, selected>>
  PROVE  Extensions' = Extensions /\ \A e : Edges(e)' = Edges(e)
  BY DEF Edges, Dependencies, Extensions

LEMMA TopIs ==
  ASSUME OrderTypes, OnTheWay
  PROVE  /\ Len(path) \in Nat \ {0} /\ DOMAIN path = 1..Len(path)
         /\ Top = path[Len(path)] /\ Top \in Extensions /\ Top \in Range(path)
<1>1. Len(path) \in Nat \ {0} /\ DOMAIN path = 1..Len(path) /\ \A i \in DOMAIN path : path[i] \in Extensions
  BY DEF OrderTypes, OnTheWay
<1> QED BY <1>1 DEF Top, Range

LEMMA SolverKeepsOrder ==
  ASSUME OrderOK, Expand \/ Resolve \/ GoBack
  PROVE  OrderOK'
<1>1. /\ Solving /\ Solving' /\ UNCHANGED <<library, inplace, orderVars>>
  BY DEF Expand, Resolve, GoBack, Solving
<1>2. UNCHANGED <<path, left, visited, steps>> /\ visited' = {} /\ steps' = <<>>
  BY <1>1 DEF OrderOK, orderVars
<1>3. OrderTypes'
  BY <1>1, <1>2 DEF OrderOK, OrderTypes, Extensions
<1>4. DOMAIN steps' = {}
  BY <1>2
<1> QED BY <1>1, <1>2, <1>3, <1>4 DEF OrderOK, Solving

LEMMA SolveKeepsOrder ==
  ASSUME SolverOK, OrderOK, Solve
  PROVE  OrderOK'
<1>1. /\ plan' = "ordering" /\ path' = <<Root>> /\ left' = [e \in Extensions |-> Edges(e)]
      /\ UNCHANGED <<library, inplace, selected, visited, steps>>
      /\ visited = {} /\ steps = <<>>
  BY DEF Solve, OrderOK, Solving, solvingVars
<1>2. Root \in Extensions
  BY LibraryShape DEF SolverOK
<1>3. Extensions' = Extensions /\ \A e : Edges(e)' = Edges(e)
  BY <1>1, SameEdges
<1>4. OrderTypes'
  BY <1>1, <1>2, <1>3, EdgesAre DEF OrderTypes
<1>5. path' # <<>> /\ path'[1] = Root /\ DOMAIN path' = {1} /\ DOMAIN steps' = {}
  BY <1>1
<1>6. \A i \in DOMAIN path' : Looked(i)'
  BY <1>1, <1>2, <1>3, <1>5 DEF Looked
<1>7. OnTheWay'
  BY <1>1, <1>3, <1>5, <1>6 DEF OnTheWay
<1> QED BY <1>1, <1>4, <1>5, <1>7 DEF OrderOK, Solving

LEMMA VisitChildKeepsOrder ==
  ASSUME SolverOK, OrderOK, VisitChild
  PROVE  OrderOK'
<1> DEFINE child == Min(left[Top])
<1>1. /\ plan = "ordering" /\ left[Top] # {}
      /\ UNCHANGED <<library, inplace, selected, visited, steps>>
      /\ OrderTypes /\ OnTheWay
  BY DEF VisitChild, OrderOK, solvingVars, orderVars
<1>2. /\ Len(path) \in Nat \ {0} /\ DOMAIN path = 1..Len(path)
      /\ Top = path[Len(path)] /\ Top \in Extensions /\ Top \in Range(path)
  BY <1>1, TopIs
<1>3. child \in Extensions
  <2>1. left[Top] \subseteq Nat /\ left[Top] \subseteq Extensions
    BY <1>1, <1>2, LibraryShape DEF SolverOK, OrderTypes
  <2> QED BY <1>1, <2>1, MinOf
<1>4. Extensions' = Extensions /\ \A e : Edges(e)' = Edges(e)
  BY <1>1, SameEdges
<1>5. IF child \in Range(path)
      THEN plan' = "cycle" /\ UNCHANGED orderVars
      ELSE /\ left' = [left EXCEPT ![Top] = @ \ {child}]
           /\ path' = IF child \in visited THEN path ELSE Append(path, child)
           /\ UNCHANGED <<plan, visited, steps>>
  BY DEF VisitChild
<1> HIDE DEF child
<1>6. (\A e \in visited : Provided(e))' /\ (\A i \in DOMAIN steps : After(i))'
  BY <1>1, <1>4 DEF OrderOK, Provided, After
<1>7. CASE child \in Range(path)
  BY <1>1, <1>4, <1>5, <1>6, <1>7 DEF OrderOK, OrderTypes, orderVars, Solving
<1>8. CASE child \notin Range(path)
  <2>1. /\ \A e \in Extensions : e # Top => left'[e] = left[e]
        /\ left'[Top] = left[Top] \ {child}
        /\ left' \in [Extensions -> SUBSET Extensions]
    BY <1>1, <1>2, <1>5, <1>8 DEF OrderTypes
  <2>2. ASSUME NEW i \in DOMAIN path, NEW x \in Edges(path[i]) \ left'[path[i]]
        PROVE  (x \in visited \/ (i < Len(path) /\ x = path[i + 1]))
               \/ (i = Len(path) /\ x = child)
    <3>1. path[i] \in Extensions
      BY <1>1 DEF OrderTypes
    <3>2. CASE path[i] = Top
      <4>1. i = Len(path)
        BY <1>1, <1>2, <3>2 DEF OnTheWay
      <4> QED BY <1>1, <2>1, <2>2, <3>2, <4>1 DEF OnTheWay, Looked
    <3>3. CASE path[i] # Top
      BY <1>1, <2>1, <2>2, <3>1, <3>3 DEF OnTheWay, Looked
    <3> QED BY <3>2, <3>3
  <2>3. \A e \in Extensions \ visited : e \notin Range(path) => left'[e] = Edges(e)
    BY <1>1, <1>2, <2>1 DEF OnTheWay
  <2>4. CASE child \in visited
    <3>1. path' = path
      BY <1>5, <1>8, <2>4
    <3>2. OrderTypes'
      BY <1>1, <1>4, <2>1, <3>1 DEF OrderTypes
    <3>3. \A i \in DOMAIN path' : Looked(i)'
      BY <1>1, <1>4, <2>2, <2>4, <3>1 DEF Looked
    <3>4. OnTheWay'
      BY <1>1, <1>4, <2>3, <3>1, <3>3 DEF OnTheWay
    <3> QED BY <1>1, <1>5, <1>6, <1>8, <3>2, <3>4 DEF OrderOK, Solving
  <2>5. CASE child \notin visited
    <3>1. /\ path' \in Seq(Extensions) /\ Len(path') = Len(path) + 1
          /\ DOMAIN path' = 1..(Len(path) + 1) /\ path'[Len(path) + 1] = child
          /\ \A i \in DOMAIN path : path'[i] = path[i]
          /\ path' # <<>>
      <4>1. path' = Append(path, child) /\ path \in Seq(Extensions)
        BY <1>1, <1>5, <1>8, <2>5 DEF OrderTypes
      <4> QED BY <1>3, <4>1
    <3>2. OrderTypes'
      BY <1>1, <1>4, <2>1, <3>1 DEF OrderTypes
    <3>3. ASSUME NEW i \in DOMAIN path', NEW x \in Edges(path'[i]) \ left'[path'[i]]
          PROVE  x \in visited \/ (i < Len(path') /\ x = path'[i + 1])
      <4>1. CASE i \in DOMAIN path
        BY <1>2, <2>2, <3>1, <3>3, <4>1
      <4>2. CASE i = Len(path) + 1
        <5>1. left'[child] = Edges(child)
          BY <1>3, <1>8, <2>3, <2>5
        <5> QED BY <3>1, <3>3, <4>2, <5>1
      <4> QED BY <1>2, <3>1, <4>1, <4>2
    <3>4. \A i \in DOMAIN path' : Looked(i)'
      BY <1>1, <1>4, <3>3 DEF Looked
    <3>5. \A i, j \in DOMAIN path' : path'[i] = path'[j] => i = j
      BY <1>1, <1>2, <1>8, <3>1 DEF OnTheWay, Range
    <3>6. \A e \in Extensions \ visited : e \notin Range(path') => left'[e] = Edges(e)
      <4>1. Range(path) \subseteq Range(path')
        BY <1>2, <3>1 DEF Range
      <4> QED BY <2>3, <4>1
    <3>7. path'[1] = Root
      BY <1>1, <1>2, <3>1 DEF OnTheWay
    <3>8. OnTheWay'
      BY <1>1, <1>4, <3>1, <3>4, <3>5, <3>6, <3>7 DEF OnTheWay
    <3> QED BY <1>1, <1>5, <1>6, <1>8, <3>2, <3>8 DEF OrderOK, Solving
  <2> QED BY <2>4, <2>5
<1> QED BY <1>7, <1>8

LEMMA EndVisitKeepsOrder ==
  ASSUME SolverOK, OrderOK, EndVisit
  PROVE  OrderOK'
<1>1. /\ plan = "ordering" /\ left[Top] = {}
      /\ visited' = visited \cup {Top}
      /\ steps' = IF inplace[Top] # 0 THEN steps ELSE Append(steps, Top)
      /\ path' = SubSeq(path, 1, Len(path) - 1)
      /\ plan' = IF Len(path) = 1 THEN "solved" ELSE "ordering"
      /\ UNCHANGED <<library, inplace, selected, left>>
      /\ OrderTypes /\ OnTheWay
  BY DEF EndVisit, OrderOK, solvingVars
<1>2. /\ Len(path) \in Nat \ {0} /\ DOMAIN path = 1..Len(path)
      /\ Top = path[Len(path)] /\ Top \in Extensions /\ Top \in Range(path)
  BY <1>1, TopIs
<1> DEFINE top == Top  n == Len(path)
<1>3. Extensions' = Extensions /\ \A e : Edges(e)' = Edges(e)
  BY <1>1, SameEdges
<1>4. Edges(top) \subseteq visited
  BY <1>1, <1>2 DEF OnTheWay, Looked
<1>5. /\ path' \in Seq(Extensions) /\ Len(path') = n - 1 /\ DOMAIN path' = 1..(n - 1)
      /\ \A i \in 1..(n - 1) : path'[i] = path[i] /\ i \in DOMAIN path
  <2>1. path \in Seq(Extensions)
    BY <1>1 DEF OrderTypes
  <2> QED BY <1>1, <1>2, <2>1
<1>6. /\ steps' \in Seq(Extensions) /\ DOMAIN steps \subseteq DOMAIN steps'
      /\ \A i \in DOMAIN steps : steps'[i] = steps[i]
      /\ Len(steps) \in Nat /\ DOMAIN steps = 1..Len(steps)
      /\ \A i \in DOMAIN steps' : i \in DOMAIN steps
                                  \/ (i = Len(steps) + 1 /\ steps'[i] = top)
      /\ inplace[top] = 0 => \E i \in DOMAIN steps' : steps'[i] = top
  <2>1. steps \in Seq(Extensions)
    BY <1>1 DEF OrderTypes
  <2> HIDE DEF top
  <2>2. CASE inplace[top] # 0
    BY <1>1, <2>1, <2>2 DEF top
  <2>3. CASE inplace[top] = 0
    <3>1. steps' = Append(steps, top) /\ top \in Extensions
      BY <1>1, <1>2, <2>3 DEF top
    <3>2. /\ Len(steps') = Len(steps) + 1 /\ steps'[Len(steps) + 1] = top
          /\ steps' \in Seq(Extensions) /\ DOMAIN steps = 1..Len(steps) /\ Len(steps) \in Nat
          /\ DOMAIN steps' = 1..(Len(steps) + 1)
          /\ \A i \in 1..Len(steps) : steps'[i] = steps[i]
      BY <2>1, <3>1
    <3> QED BY <3>2
  <2> QED BY <2>2, <2>3
<1> HIDE DEF top, n
<1>7. OrderTypes'
  BY <1>1, <1>2, <1>3, <1>5, <1>6 DEF OrderTypes
<1>8. (\A e \in visited : Provided(e))'
  <2>1. Range(steps) \subseteq Range(steps')
    BY <1>6 DEF Range
  <2>2. inplace[top] # 0 \/ top \in Range(steps')
    BY <1>6 DEF Range
  <2>3. \A e \in visited : Edges(e) \subseteq visited /\ (inplace[e] # 0 \/ e \in Range(steps))
    BY DEF OrderOK, Provided
  <2>4. \A e \in visited' : Edges(e) \subseteq visited' /\ (inplace[e] # 0 \/ e \in Range(steps'))
    BY <1>1, <1>4, <2>1, <2>2, <2>3 DEF top
  <2> QED BY <1>1, <1>3, <2>4 DEF Provided
<1>9. (\A i \in DOMAIN steps : After(i))'
  <2>1. ASSUME NEW i \in DOMAIN steps', NEW x \in Edges(steps'[i])
        PROVE  inplace[x] # 0 \/ \E j \in 1..(i - 1) : steps'[j] = x
    <3>1. CASE i \in DOMAIN steps
      <4>1. inplace[x] # 0 \/ \E j \in 1..(i - 1) : steps[j] = x
        BY <1>6, <2>1, <3>1 DEF OrderOK, After
      <4> QED BY <1>6, <3>1, <4>1
    <3>2. CASE i = Len(steps) + 1 /\ steps'[i] = top
      <4>1. inplace[x] # 0 \/ x \in Range(steps)
        BY <1>4, <2>1, <3>2 DEF OrderOK, Provided
      <4> QED BY <1>6, <3>2, <4>1 DEF Range
    <3> QED BY <1>6, <3>1, <3>2
  <2> QED BY <1>1, <1>3, <2>1 DEF After
<1>10. CASE n = 1
  <2>1. top = Root
    BY <1>1, <1>2, <1>10 DEF OnTheWay, top, n
  <2> QED BY <1>1, <1>7, <1>8, <1>9, <1>10, <2>1 DEF OrderOK, Solving, top, n
<1>11. CASE n # 1
  <2>1. path' # <<>> /\ path'[1] = Root
    BY <1>1, <1>2, <1>5, <1>11 DEF OnTheWay, n
  <2>2. ASSUME NEW i \in DOMAIN path', NEW x \in Edges(path'[i]) \ left[path'[i]]
        PROVE  x \in visited' \/ (i < Len(path') /\ x = path'[i + 1])
    <3>1. x \in visited \/ (i < n /\ x = path[i + 1])
      BY <1>1, <1>5, <2>2 DEF OnTheWay, Looked, n
    <3>2. CASE i + 1 = n
      BY <1>1, <1>2, <3>1, <3>2 DEF n
    <3>3. CASE i + 1 # n
      BY <1>1, <1>2, <1>5, <3>1, <3>3 DEF n
    <3> QED BY <3>2, <3>3
  <2>3. \A i \in DOMAIN path' : Looked(i)'
    BY <1>1, <1>3, <2>2 DEF Looked
  <2>4. \A i, j \in DOMAIN path' : path'[i] = path'[j] => i = j
    BY <1>1, <1>5 DEF OnTheWay
  <2>5. \A e \in Extensions \ visited' : e \notin Range(path') => left[e] = Edges(e)
    <3>1. Range(path) \subseteq Range(path') \cup {top}
      BY <1>2, <1>5 DEF Range, top, n
    <3> QED BY <1>1, <3>1 DEF OnTheWay, top
  <2>6. OnTheWay'
    BY <1>1, <1>3, <2>1, <2>3, <2>4, <2>5 DEF OnTheWay
  <2> QED BY <1>1, <1>7, <1>8, <1>9, <1>11, <2>6 DEF OrderOK, Solving, n
<1> QED BY <1>10, <1>11

PlanInv == SolverOK /\ NothingMissed /\ SelectionOK /\ OrderOK

LEMMA PlanInvInit ==
  ASSUME PlanInit
  PROVE  PlanInv
<1>1. OrderTypes /\ visited = {} /\ steps = <<>> /\ plan = "solving" /\ DOMAIN steps = {}
  BY DEF PlanInit, OrderTypes
<1>2. OrderOK
  BY <1>1 DEF OrderOK
<1> QED BY <1>2, SolverInit DEF PlanInv

LEMMA PlanInvNext ==
  ASSUME PlanInv, [PlanNext]_planVars
  PROVE  PlanInv'
<1> USE DEF PlanInv
<1>1. CASE Expand
  BY <1>1, ExpandKeepsSolver, SolverKeepsOrder
<1>2. CASE Resolve
  BY <1>2, ResolveKeepsSolver, SolverKeepsOrder
<1>3. CASE GoBack
  BY <1>3, GoBackKeepsSolver, SolverKeepsOrder
<1>4. CASE Solve
  BY <1>4, SolveKeepsSolver, SolveKeepsOrder
<1>5. CASE VisitChild
  BY <1>5, OrderKeepsSolver, VisitChildKeepsOrder
<1>6. CASE EndVisit
  BY <1>6, OrderKeepsSolver, EndVisitKeepsOrder
<1>7. CASE UNCHANGED planVars
  <2>1. UNCHANGED <<library, inplace, selected, expanded, choices, plan, path, left, visited, steps>>
    BY <1>7 DEF planVars, solvingVars, orderVars
  <2>2. SolverOK' /\ NothingMissed' /\ SelectionOK'
    <3>1. \A f : Alive(f)' <=> Alive(f)
      BY <2>1 DEF Alive, Extends, With, Extensions
    <3> QED BY <2>1, <3>1, SameLibrary DEF SolverOK, NothingMissed, SelectionOK, Solving
  <2>3. OrderOK'
    <3>1. OrderTypes' = OrderTypes /\ Solving' = Solving
      BY <2>1 DEF OrderTypes, Solving, Extensions
    <3>2. OnTheWay' = OnTheWay
      BY <2>1, SameEdges DEF OnTheWay, Looked
    <3>3. (\A e \in visited : Provided(e))' /\ (\A i \in DOMAIN steps : After(i))'
      BY <2>1, SameEdges DEF Provided, After, OrderOK
    <3> QED BY <2>1, <3>1, <3>2, <3>3 DEF OrderOK
  <2> QED BY <2>2, <2>3
<1> QED BY <1>1, <1>2, <1>3, <1>4, <1>5, <1>6, <1>7 DEF PlanNext

\* The types of the plan, for any library (dependencySolver, DependencyPlan).
THEOREM PlanTypes == PlanSpec => []PlanTypeOK
<1>1. PlanInit => PlanInv
  BY PlanInvInit
<1>2. PlanInv /\ [PlanNext]_planVars => PlanInv'
  BY PlanInvNext
<1>3. PlanInv => PlanTypeOK
  BY DEF PlanInv, SolverOK, Partial, OrderOK, OrderTypes, PlanTypeOK
<1> QED BY <1>1, <1>2, <1>3, PTL DEF PlanSpec

\* For any library and whatever is in place: a plan that is solved is complete,
\* consistent and in order, and one that is blocked has no solution
\* (dependencySolver.solve, dependencyInstallOrder).
THEOREM PlanSound == PlanSpec => []PlanIsSound
<1>1. PlanInit => PlanInv
  BY PlanInvInit
<1>2. PlanInv /\ [PlanNext]_planVars => PlanInv'
  BY PlanInvNext
<1>3. PlanInv => PlanIsSound
  <2>1. ASSUME PlanInv, plan = "solved"
        PROVE  /\ Consistent(selected)
               /\ Root \in visited
               /\ \A e \in visited : /\ Edges(e) \subseteq visited
                                     /\ inplace[e] # 0 \/ e \in Range(steps)
               /\ \A i \in DOMAIN steps : \A x \in Edges(steps[i]) :
                    inplace[x] # 0 \/ \E j \in 1..(i - 1) : steps[j] = x
    BY <2>1 DEF PlanInv, SelectionOK, Solving, OrderOK, Provided, After
  <2>2. ASSUME PlanInv, plan = "blocked", NEW f \in Selections, Consistent(f)
        PROVE  FALSE
    <3>1. choices = <<>> /\ Alive(f)
      BY <2>2 DEF PlanInv, SolverOK, NothingMissed, Solving
    <3> QED BY <2>2, <3>1 DEF Alive
  <2> QED BY <2>1, <2>2 DEF PlanIsSound
<1> QED BY <1>1, <1>2, <1>3, PTL DEF PlanSpec

=============================================================================
