-------------------------- MODULE ExtensionRuntime --------------------------
(***************************************************************************)
(* The supervisor of one installed extension (internal/extension/          *)
(* runtime_supervisor.go, runtime_crash_recovery.go, runtime_recovery.go,  *)
(* maintenance.go, uninstall.go): its desired and observed state in the    *)
(* database, its process, and the recoveries that crashes start.           *)
(*                                                                         *)
(* A step is one critical section of RuntimeSupervisor.mu or recoveryMu,   *)
(* or one database statement outside of them.  Probes, staged copies,      *)
(* brokers and sandboxes are what a start may fail on.                     *)
(***************************************************************************)
EXTENDS Integers, FiniteSets

CONSTANTS
  MaxAttempts,   \* maxExtensionCrashRecoveryAttempts
  MaxGen,        \* bound: the generations of the desired state
  MaxProcess     \* bound: the processes started

ASSUME ExtensionAssumption ==
  MaxAttempts \in Nat /\ MaxGen \in Nat /\ MaxProcess \in Nat

VARIABLES
  stage,         \* the installation: "installed" or "removed"
  desired,       \* extension_runtime_lifecycle.desired_state
  observed,      \* extension_runtime_lifecycle.observed_state
  gen,           \* extension_runtime_lifecycle.generation
  locked,        \* a SHOW Session is active
  tracked,       \* processes: the process of the installation, 0 when none
  process,       \* every process: its generation, whether it runs, its watcher
  recovery,      \* the goroutine of runCrashRecovery that a process's crash began
  registered,    \* crashRecoveries: the recovery that is entitled to go on
  budget,        \* crashBudgets: generation and attempts
  armed,         \* automaticCrashRecovery
  closing,       \* recoveryClosed, and Close's step
  operator,      \* Enable or Disable between its cancel and its lock
  boot           \* Reconcile: the generation it has listed, 0 when it is over

runtimeVars ==
  <<stage, desired, observed, gen, locked, tracked, process, recovery, registered,
    budget, armed, closing, operator, boot>>

Processes == 1..MaxProcess
NoProcess == [gen |-> 0, runs |-> FALSE, watch |-> "none"]
NoRecovery == [gen |-> 0, step |-> "none", left |-> 0, live |-> FALSE]
NoBudget == [gen |-> 0, attempts |-> 0]

Unstarted == {p \in Processes : process[p].watch = "none"}

RuntimeInit ==
  /\ stage = "installed"
  /\ desired = "DISABLED" /\ observed = "STOPPED" /\ gen = 0
  /\ locked = FALSE
  /\ tracked = 0
  /\ process = [p \in Processes |-> NoProcess]
  /\ recovery = [p \in Processes |-> NoRecovery]
  /\ registered = 0
  /\ budget = NoBudget
  /\ armed = TRUE /\ closing = "no"
  /\ operator = "none"
  /\ boot = 0

\* UpdateExtensionRuntimeObservedState.
Observe(g, state) == observed' = IF gen = g THEN state ELSE observed

\* cancelCrashRecovery.
Cancelled(recoveries) ==
  [p \in Processes |-> IF p = registered THEN [recoveries[p] EXCEPT !.live = FALSE] ELSE recoveries[p]]

\* startGenerationLocked, for the generation of the row, under mu: READY with a
\* process of its own, or FAILED.
Start(g) ==
  \/ /\ observed' = "FAILED"
     /\ UNCHANGED <<tracked, process>>
  \/ \E p \in Unstarted :
       /\ \A q \in Unstarted : p <= q
       /\ tracked' = p
       /\ process' = [process EXCEPT ![p] = [gen |-> g, runs |-> TRUE, watch |-> "waiting"]]
       /\ observed' = "READY"

-----------------------------------------------------------------------------
\* The operator.

\* Both first cancel the recovery under way, then take mu.
Change(kind) ==
  /\ stage = "installed" /\ closing = "no" /\ operator = "none" /\ boot = 0
  /\ recovery' = Cancelled(recovery)
  /\ registered' = 0
  /\ operator' = kind
  /\ UNCHANGED <<stage, desired, observed, gen, locked, tracked, process, budget, armed, closing, boot>>

\* A SHOW, an extension that is removed, or a probe that fails.
RefuseChange ==
  /\ operator # "none"
  /\ locked \/ stage = "removed" \/ operator = "enable"
  /\ operator' = "none"
  /\ UNCHANGED <<stage, desired, observed, gen, locked, tracked, process, recovery,
                 registered, budget, armed, closing, boot>>

AlreadyReady == tracked # 0 /\ process[tracked].gen = gen /\ desired = "ENABLED" /\ observed = "READY"

Enable ==
  /\ operator = "enable" /\ operator' = "none"
  /\ ~locked /\ stage = "installed"
  /\ \/ AlreadyReady
        /\ UNCHANGED <<desired, gen, budget, tracked, process, observed>>
     \/ ~AlreadyReady /\ gen < MaxGen
        /\ desired' = "ENABLED" /\ gen' = gen + 1
        /\ budget' = NoBudget
        /\ Start(gen + 1)
  /\ UNCHANGED <<stage, locked, recovery, registered, armed, closing, boot>>

Disable ==
  /\ operator = "disable" /\ operator' = "none"
  /\ ~locked /\ stage = "installed" /\ gen < MaxGen
  /\ desired' = "DISABLED" /\ gen' = gen + 1 /\ observed' = "STOPPED"
  /\ recovery' = Cancelled(recovery) /\ registered' = 0
  /\ budget' = NoBudget
  /\ tracked' = 0
  /\ process' = IF tracked = 0 THEN process ELSE [process EXCEPT ![tracked].runs = FALSE]
  /\ UNCHANGED <<stage, locked, armed, closing, boot>>

\* UpdateInstallation, RepairInstallation and Uninstall ask for a stopped
\* runtime.  The first two leave the lifecycle row as it is.
Uninstall ==
  /\ stage = "installed" /\ closing = "no" /\ boot = 0
  /\ ~locked
  /\ tracked = 0 /\ desired = "DISABLED" /\ observed = "STOPPED"
  /\ stage' = "removed"
  /\ UNCHANGED <<desired, observed, gen, locked, tracked, process, recovery, registered,
                 budget, armed, closing, operator, boot>>

LockRuntime ==
  /\ locked' = ~locked
  /\ UNCHANGED <<stage, desired, observed, gen, tracked, process, recovery, registered,
                 budget, armed, closing, operator, boot>>

-----------------------------------------------------------------------------
\* Crashes and recoveries.

Crash(p) ==
  /\ process[p].runs
  /\ process' = [process EXCEPT ![p].runs = FALSE]
  /\ UNCHANGED <<stage, desired, observed, gen, locked, tracked, recovery, registered,
                 budget, armed, closing, operator, boot>>

\* Faulty variant: the end of a process is not written down.
WatchSilently(p) ==
  /\ process[p].watch = "waiting" /\ ~process[p].runs
  /\ tracked' = IF tracked = p THEN 0 ELSE tracked
  /\ process' = [process EXCEPT ![p].watch = IF tracked = p THEN "scheduling" ELSE "over"]
  /\ UNCHANGED <<stage, desired, observed, gen, locked, recovery, registered, budget,
                 armed, closing, operator, boot>>

\* watch: the process has ended.
Watch(p) ==
  /\ process[p].watch = "waiting" /\ ~process[p].runs
  /\ IF tracked = p
     THEN /\ tracked' = 0
          /\ Observe(process[p].gen, "FAILED")
          /\ process' = [process EXCEPT ![p].watch = "scheduling"]
     ELSE process' = [process EXCEPT ![p].watch = "over"] /\ UNCHANGED <<tracked, observed>>
  /\ UNCHANGED <<stage, desired, gen, locked, recovery, registered, budget, armed,
                 closing, operator, boot>>

\* scheduleCrashRecovery reads the row, then takes recoveryMu.
Schedule(p) ==
  /\ process[p].watch = "scheduling"
  /\ process' = [process EXCEPT ![p].watch =
       IF desired = "ENABLED" /\ gen = process[p].gen THEN "scheduled" ELSE "over"]
  /\ UNCHANGED <<stage, desired, observed, gen, locked, tracked, recovery, registered,
                 budget, armed, closing, operator, boot>>

Spent(g) == IF budget.gen = g THEN budget.attempts ELSE 0

BeginRecovery(p) ==
  LET g == process[p].gen
  IN  /\ process[p].watch = "scheduled"
      /\ process' = [process EXCEPT ![p].watch = "over"]
      /\ IF closing # "no" \/ ~armed THEN UNCHANGED <<budget, recovery, registered, observed>>
         ELSE /\ budget' = [gen |-> g, attempts |-> Spent(g)]
              /\ IF Spent(g) = MaxAttempts
                 THEN Observe(g, "FAILED") /\ UNCHANGED <<recovery, registered>>
                 ELSE /\ recovery' = [Cancelled(recovery) EXCEPT ![p] =
                           [gen |-> g, step |-> "attempt", left |-> MaxAttempts - Spent(g), live |-> TRUE]]
                      /\ registered' = p
                      /\ UNCHANGED observed
      /\ UNCHANGED <<stage, desired, gen, locked, tracked, armed, closing, operator, boot>>

Turn(r, step) == recovery' = [recovery EXCEPT ![r].step = step]

\* recoverCrashAttempt, the row.
ReadAuthority(r) ==
  /\ recovery[r].step = "attempt"
  /\ Turn(r, IF recovery[r].live /\ desired = "ENABLED" /\ gen = recovery[r].gen
           THEN "authorised" ELSE "revoked")
  /\ UNCHANGED <<stage, desired, observed, gen, locked, tracked, process, registered,
                 budget, armed, closing, operator, boot>>

SpendAttempt(r) ==
  LET g == recovery[r].gen
  IN  /\ recovery[r].step = "authorised"
      /\ IF closing = "no" /\ armed /\ registered = r /\ Spent(g) < MaxAttempts
         THEN /\ budget' = [gen |-> g, attempts |-> Spent(g) + 1]
              /\ recovery' = [recovery EXCEPT ![r].step = "starting", ![r].left = @ - 1]
         ELSE Turn(r, "revoked") /\ UNCHANGED budget
      /\ UNCHANGED <<stage, desired, observed, gen, locked, tracked, process, registered,
                     armed, closing, operator, boot>>

ObserveStarting(r) ==
  /\ recovery[r].step = "starting"
  /\ Observe(recovery[r].gen, "STARTING")
  /\ Turn(r, IF gen = recovery[r].gen /\ recovery[r].live THEN "probing" ELSE "revoked")
  /\ UNCHANGED <<stage, desired, gen, locked, tracked, process, registered, budget,
                 armed, closing, operator, boot>>

\* A probe that fails; the attempt is made again after a transient failure.
AfterFailure(r) ==
  \/ recovery[r].live /\ recovery[r].left > 0 /\ Turn(r, "attempt")
  \/ Turn(r, "revoked")
  \/ recovery[r].live /\ recovery[r].left = 0 /\ Turn(r, "exhausted")

ProbeFails(r) ==
  /\ recovery[r].step = "probing"
  /\ Observe(recovery[r].gen, "FAILED")
  /\ AfterFailure(r)
  /\ UNCHANGED <<stage, desired, gen, locked, tracked, process, registered, budget,
                 armed, closing, operator, boot>>

\* Faulty variant: the authority of before the probe is taken for granted.
RecoverWithoutAuthority(r) ==
  /\ recovery[r].step = "probing" /\ tracked = 0
  /\ Start(recovery[r].gen)
  /\ IF observed' = "READY" THEN Turn(r, "revoked") ELSE AfterFailure(r)
  /\ UNCHANGED <<stage, desired, gen, locked, registered, budget, armed, closing,
                 operator, boot>>

\* A probe that succeeds: under mu the authority is asked for again.
Recover(r) ==
  LET g == recovery[r].gen
      authorised == recovery[r].live /\ desired = "ENABLED" /\ gen = g
  IN  /\ recovery[r].step = "probing"
      /\ \/ /\ ~authorised \/ tracked # 0
            /\ Turn(r, "revoked")
            /\ UNCHANGED <<tracked, process, observed>>
         \/ /\ authorised /\ tracked = 0
            /\ Start(g)
            /\ IF observed' = "READY" THEN Turn(r, "revoked") ELSE AfterFailure(r)
      /\ UNCHANGED <<stage, desired, gen, locked, registered, budget, armed, closing,
                     operator, boot>>

\* runCrashRecovery ends: under recoveryMu, and an exhausted budget is told.
EndRecovery(r) ==
  /\ recovery[r].step \in {"revoked", "exhausted"}
  /\ registered' = IF registered = r THEN 0 ELSE registered
  /\ IF recovery[r].step = "exhausted" THEN Observe(recovery[r].gen, "FAILED") ELSE UNCHANGED observed
  /\ recovery' = [recovery EXCEPT ![r] = NoRecovery]
  /\ UNCHANGED <<stage, desired, gen, locked, tracked, process, budget, armed, closing,
                 operator, boot>>

-----------------------------------------------------------------------------
\* The Hub starts and stops.

\* Reconcile has listed the extension.  Another extension's transient failure
\* makes ReconcileBounded do it all again.
Restore ==
  /\ boot # 0
  /\ boot' \in {0, boot}
  /\ IF tracked # 0 \/ gen # boot THEN UNCHANGED <<tracked, process, observed>>
     ELSE Start(boot)
  /\ UNCHANGED <<stage, desired, gen, locked, recovery, registered, budget, armed,
                 closing, operator>>

\* Close: no recovery may begin any more; the processes are taken out, closed,
\* and then told to be STOPPED.
StopRecoveries ==
  /\ closing = "no" /\ operator = "none" /\ boot = 0
  /\ closing' = "stopped" /\ armed' = FALSE
  /\ recovery' = Cancelled(recovery) /\ registered' = 0
  /\ UNCHANGED <<stage, desired, observed, gen, locked, tracked, process, budget, operator, boot>>

CloseProcesses ==
  /\ closing = "stopped"
  /\ closing' = "closed"
  /\ tracked' = 0
  /\ process' = IF tracked = 0 THEN process ELSE [process EXCEPT ![tracked].runs = FALSE]
  /\ IF tracked = 0 THEN UNCHANGED observed ELSE Observe(process[tracked].gen, "STOPPED")
  /\ UNCHANGED <<stage, desired, gen, locked, recovery, registered, budget, armed, operator, boot>>

\* The Hub exits, after Close or without it, and starts again.
RestartSupervisor ==
  /\ stage = "installed"
  /\ \E p \in Unstarted : TRUE
  /\ tracked' = 0
  /\ process' = [p \in Processes |-> IF process[p].watch = "none" THEN NoProcess
                                     ELSE [process[p] EXCEPT !.runs = FALSE, !.watch = "over"]]
  /\ recovery' = [p \in Processes |-> NoRecovery]
  /\ registered' = 0 /\ budget' = NoBudget
  /\ armed' = TRUE /\ closing' = "no" /\ operator' = "none"
  /\ boot' = IF desired = "ENABLED" THEN gen ELSE 0
  /\ UNCHANGED <<stage, desired, observed, gen, locked>>

RuntimeNext ==
  \/ \E kind \in {"enable", "disable"} : Change(kind)
  \/ RefuseChange \/ Enable \/ Disable \/ Uninstall \/ LockRuntime
  \/ \E p \in Processes :
       \/ Crash(p) \/ Watch(p) \/ Schedule(p) \/ BeginRecovery(p)
       \/ ReadAuthority(p) \/ SpendAttempt(p) \/ ObserveStarting(p)
       \/ ProbeFails(p) \/ Recover(p) \/ EndRecovery(p)
  \/ Restore \/ StopRecoveries \/ CloseProcesses \/ RestartSupervisor

RuntimeSpec == RuntimeInit /\ [][RuntimeNext]_runtimeVars

-----------------------------------------------------------------------------

RuntimeTypeOK ==
  /\ stage \in {"installed", "removed"}
  /\ desired \in {"ENABLED", "DISABLED"}
  /\ observed \in {"STOPPED", "STARTING", "READY", "FAILED"}
  /\ gen \in 0..MaxGen /\ boot \in 0..MaxGen
  /\ tracked \in 0..MaxProcess /\ registered \in 0..MaxProcess
  /\ budget.attempts \in 0..MaxAttempts

(* A process is only ever put under supervision for the generation that the *)
(* operator asked for last, and while it is ENABLED: a recovery that began  *)
(* before a Disable, an Enable or an uninstall starts nothing after it      *)
(* (recoverCrashAttempt, scheduleCrashRecovery, Disable).                   *)
StartIsAuthorised ==
  [][tracked' \notin {0, tracked} =>
       /\ stage' = "installed"
       /\ desired' = "ENABLED"
       /\ process'[tracked'].gen = gen']_runtimeVars

(* An extension that is said to be READY has a process that runs, or one    *)
(* whose end its watcher, the end of the Hub or the next start of the Hub   *)
(* is about to tell (watch, Close, Reconcile).                              *)
ReadyHasProcess == observed = "READY" => tracked # 0 \/ boot # 0

=============================================================================
