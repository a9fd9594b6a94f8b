---------------------------- MODULE HAAuthority ----------------------------
(***************************************************************************)
(* Dispatch authority of a redundant pair of Hubs: the witness             *)
(* (internal/halease behind internal/hawitness/server.go) and, on every    *)
(* Hub, the witness client (hawitness/client.go), the controller           *)
(* (haauthority/controller.go) and the supervisor with its renewal loops   *)
(* (haauthority/supervisor.go).                                            *)
(*                                                                         *)
(* The two mutexes of a Hub are control state.  Supervisor.opMu is held    *)
(* exactly while sup[h].pc # "idle"; Controller.opMu exactly while         *)
(* call[h].kind # "none", since the one witness call in flight is made     *)
(* under it.                                                               *)
(*                                                                         *)
(* Controller.generation is only compared for equality with the value an   *)
(* operation captured, so the model keeps fresh[h]: the operations whose   *)
(* captured generation is still the current one.  Supervisor.              *)
(* renewGeneration is kept the same way: current[h] is the loop it names.  *)
(***************************************************************************)
EXTENDS HALease, FiniteSets

CONSTANTS
  Loops,          \* names for the renewal goroutines of a Hub
  NoLoop,         \* no renewal goroutine
  MaxTime,        \* bound: the last instant the model reaches
  WallTolerance,  \* wallRollbackTolerance
  SuspendHubs,    \* Hubs whose monotonic clock may stop while suspended
  RollbackHubs,   \* Hubs whose wall clock may be set back
  Skews,          \* bound: offsets of a Hub's wall clock from true time
  SessionHubs,    \* bound: Hubs on which a Session starts
  CrashHubs,      \* bound: Hubs whose process crashes and restarts
  CloseHubs,      \* bound: Hubs that are shut down
  MaxLate,        \* bound: late requests at a time
  LateKinds       \* requests that may reach the witness after their caller
                  \* stopped waiting

Kinds == {"acquire", "renew", "release"}
Supervision == "supervisor"
Actors == Loops \cup {Supervision}

ASSUME HAAuthorityAssumption ==
  /\ NoLoop \notin Loops
  /\ Supervision \notin Loops
  /\ MaxTime \in Nat
  /\ WallTolerance \in Nat
  /\ Skews \subseteq Int
  /\ LateKinds \subseteq Kinds

VARIABLES
  now,      \* true time, and the clock of the witness
  lag,      \* lag[h]: how far h's monotonic clock has fallen behind
  skew,     \* skew[h]: h's wall clock minus true time
  witness,  \* the durable lease
  process,  \* process[h]: "running", "closing", "closed" or "down"
  session,  \* session[h]: an ACTIVE SHOW or REHEARSAL Session exists on h
  grant,    \* Controller.grant
  fresh,    \* fresh[h]: who captured the current Controller.generation
  sup,      \* the operation that holds Supervisor.opMu, and Release's epoch
  current,  \* current[h]: the loop of the current renewGeneration, or NoLoop
  loop,     \* loop[h][i]: where renewal goroutine i stands
  call,     \* call[h]: the witness call made under Controller.opMu
  late      \* abandoned requests still on their way to the witness

clockVars == <<now, lag, skew>>
supVars == <<sup, current, loop>>
vars == <<now, lag, skew, witness, process, session, grant, fresh, sup,
          current, loop, call, late>>

-----------------------------------------------------------------------------
(* The clocks of a Hub and the local grant.                                *)

Mono(h) == now - lag[h]
Wall(h) == now + skew[h]

\* localGrant.  at is the true time of mono and wall; no guard reads it.
Grants == [epoch : 0..MaxEpoch, at : Nat, mono : Int, wall : Int,
           remaining : Int]

NoGrant == [epoch |-> 0, at |-> 0, mono |-> 0, wall |-> 0, remaining |-> 0]

\* Faulty variant: only the monotonic clock is consulted.
StillSafeMonotonic(h, g) ==
  Mono(h) - g.mono >= 0 /\ Mono(h) - g.mono < g.remaining

StillSafe(h, g) ==
  LET monotonicElapsed == Mono(h) - g.mono
      wallElapsed == Wall(h) - g.wall
  IN /\ monotonicElapsed >= 0 /\ monotonicElapsed < g.remaining
     /\ wallElapsed >= 0 /\ wallElapsed < g.remaining
     /\ wallElapsed + WallTolerance >= monotonicElapsed

\* Current answers LEADER; safeRemaining is positive in the same states.
IsLeader(h) == grant[h].epoch > 0 /\ StillSafe(h, grant[h])

-----------------------------------------------------------------------------
(* The witness call of a Hub.  stage: the request is on its way, the       *)
(* authority operation has committed, or the response is on its way.       *)

Calls == [kind : Kinds \cup {"none"}, by : Actors \cup {NoLoop},
          epoch : 0..MaxEpoch, at : Nat, mono : Int, wall : Int,
          stage : {"sent", "served", "answered"}, ok : BOOLEAN,
          expires : Nat, remaining : Int]

NoCall == [kind |-> "none", by |-> NoLoop, epoch |-> 0, at |-> 0, mono |-> 0,
           wall |-> 0, stage |-> "sent", ok |-> FALSE, expires |-> 0,
           remaining |-> 0]

\* doLease reads the clock before it sends the request; Release does not.
LeaseRequest(h, kind, a, e) ==
  [NoCall EXCEPT !.kind = kind, !.by = a, !.epoch = e, !.at = now,
                 !.mono = Mono(h), !.wall = Wall(h)]

ReleaseRequest(e) ==
  [NoCall EXCEPT !.kind = "release", !.by = Supervision, !.epoch = e]

\* Faulty variant: the lease is counted from the response.
OfferedOnReceipt(h) ==
  [epoch |-> call[h].epoch, at |-> now, mono |-> Mono(h),
   wall |-> Wall(h), remaining |-> call[h].remaining]

\* The localGrant that install builds from the observation.
Offered(h) ==
  [epoch |-> call[h].epoch, at |-> call[h].at, mono |-> call[h].mono,
   wall |-> call[h].wall, remaining |-> call[h].remaining]

\* Faulty variant: install does not compare generations.
InstallableUnfenced(h) ==
  /\ call[h].ok
  /\ call[h].remaining > 0
  /\ StillSafe(h, Offered(h))

\* Client validation and every check of install, generation included.
Installable(h) ==
  /\ call[h].ok
  /\ call[h].remaining > 0
  /\ StillSafe(h, Offered(h))
  /\ call[h].by \in fresh[h]

-----------------------------------------------------------------------------
(* Steps shared by the operations of a Hub.                                *)

Running(h) == process[h] \in {"running", "closing"}

\* An operation a captures the current generation.
Capture(h, a) == fresh' = [fresh EXCEPT ![h] = @ \cup {a}]

\* It ends, or the generation moves on, and what it captured means nothing.
Forget(h, a) == fresh' = [fresh EXCEPT ![h] = @ \ {a}]

\* demoteAndEpoch: every captured generation becomes an old one.
DropGrant(h) ==
  /\ grant' = [grant EXCEPT ![h] = NoGrant]
  /\ fresh' = [fresh EXCEPT ![h] = {}]

\* invalidateIfGeneration, by the operation a that then ends.
InvalidateIfFresh(h, a) ==
  IF a \in fresh[h] THEN DropGrant(h) ELSE UNCHANGED <<grant, fresh>>

SupAt(h, pc) == sup' = [sup EXCEPT ![h] = [pc |-> pc, epoch |-> 0]]
LoopAt(h, i, pc) == loop' = [loop EXCEPT ![h][i] = pc]
StopRenewal(h) == current' = [current EXCEPT ![h] = NoLoop]
Hang(h) == call' = [call EXCEPT ![h] = NoCall]

-----------------------------------------------------------------------------
(* The environment: time, clocks, Sessions.                                *)

\* Time passes; suspended Hubs do not see it on their monotonic clock.
Tick ==
  /\ now < MaxTime
  /\ now' = now + 1
  /\ \E S \in SUBSET SuspendHubs :
       lag' = [h \in Hubs |-> IF h \in S THEN lag[h] + 1 ELSE lag[h]]
  /\ UNCHANGED <<skew, witness, process, session, grant, fresh, supVars, call,
                 late>>

\* The wall clock of h is set.
SetWallClock(h) ==
  /\ \E s \in Skews : /\ s > skew[h] \/ h \in RollbackHubs
                      /\ skew' = [skew EXCEPT ![h] = s]
  /\ UNCHANGED <<now, lag, witness, process, session, grant, fresh, supVars,
                 call, late>>

\* A SHOW or REHEARSAL Session starts or ends; neither asks the HA authority.
ChangeSession(h) ==
  /\ h \in SessionHubs /\ Running(h)
  /\ session' = [session EXCEPT ![h] = ~@]
  /\ UNCHANGED <<clockVars, witness, process, grant, fresh, supVars, call,
                 late>>

-----------------------------------------------------------------------------
(* The witness.  An authority operation and the stamp that writeLease puts *)
(* on its answer are two steps.                                            *)

Accepted(l, kind, h, e) ==
  \/ kind = "acquire" /\ AcquireOK(l, h, now)
  \/ kind = "renew" /\ RenewOK(l, h, e, now)
  \/ kind = "release" /\ ReleaseOK(l, h, e)

Applied(l, kind, h, e) ==
  IF ~Accepted(l, kind, h, e) THEN l
  ELSE IF kind = "acquire" THEN Acquired(l, h, now)
  ELSE IF kind = "renew" THEN Renewed(l, now)
  ELSE Released(l)

\* The call once the authority operation committed, or was refused.
Served(c, accepted, l) ==
  [c EXCEPT !.ok = accepted, !.stage = "served",
            !.epoch = IF accepted THEN l.epoch ELSE @,
            !.expires = IF accepted THEN l.expires ELSE 0]

\* writeLease stamps the answer with WitnessTime; remaining is what is left.
Answered(c) ==
  [c EXCEPT !.stage = "answered",
            !.remaining = IF c.ok THEN c.expires - now ELSE 0]

Serve(h) ==
  LET c == call[h]
      after == Applied(witness, c.kind, h, c.epoch)
      accepted == Accepted(witness, c.kind, h, c.epoch)
  IN /\ c.kind # "none" /\ c.stage = "sent"
     /\ witness' = after
     /\ call' = [call EXCEPT ![h] = Served(c, accepted, after)]
     /\ UNCHANGED <<clockVars, process, session, grant, fresh, supVars, late>>

Answer(h) ==
  /\ call[h].kind # "none" /\ call[h].stage = "served"
  /\ call' = [call EXCEPT ![h] = Answered(call[h])]
  /\ UNCHANGED <<clockVars, witness, process, session, grant, fresh, supVars,
                 late>>

\* A request nobody waits for any more takes effect, or is lost.
ServeLate ==
  /\ \E r \in late :
       /\ late' = late \ {r}
       /\ witness' \in {witness, Applied(witness, r.kind, r.hub, r.epoch)}
  /\ UNCHANGED <<clockVars, process, session, grant, fresh, supVars, call>>

\* What stays behind of the call of h when h stops waiting for it.
Abandon(h) ==
  LET c == call[h]
      r == [kind |-> c.kind, hub |-> h, epoch |-> c.epoch]
  IN late' \in IF /\ c.kind \in LateKinds /\ c.stage = "sent"
                  /\ Cardinality(late) < MaxLate
               THEN {late, late \cup {r}}
               ELSE {late}

-----------------------------------------------------------------------------
(* Supervisor.Activate: checks, Controller.Acquire, then the local status. *)

Activate(h) ==
  /\ Running(h) /\ sup[h].pc = "idle"
  /\ \E i \in Loops : loop[h][i] = "none"  \* bound: a name for its goroutine
  /\ ~session[h] /\ ~IsLeader(h)
  /\ SupAt(h, "acquireWant")
  /\ Capture(h, Supervision)
  /\ UNCHANGED <<clockVars, witness, process, session, grant, current, loop,
                 call, late>>

\* Controller.Acquire gets opMu; a generation moved since is superseded.
StartAcquire(h) ==
  /\ sup[h].pc = "acquireWant" /\ call[h].kind = "none"
  /\ IF Supervision \in fresh[h]
     THEN /\ SupAt(h, "acquiring")
          /\ call' = [call EXCEPT ![h] = LeaseRequest(h, "acquire", Supervision, 0)]
     ELSE SupAt(h, "idle") /\ UNCHANGED call
  /\ UNCHANGED <<clockVars, witness, process, session, grant, fresh, current,
                 loop, late>>

AcquireInstalls(h) ==
  /\ sup[h].pc = "acquiring" /\ call[h].stage = "answered" /\ Installable(h)
  /\ grant' = [grant EXCEPT ![h] = Offered(h)]
  /\ SupAt(h, "installed")
  /\ Forget(h, Supervision)
  /\ Hang(h)
  /\ UNCHANGED <<clockVars, witness, process, session, current, loop, late>>

\* An error answer, a timeout, a lost connection, or a failed install.
AcquireFails(h) ==
  /\ sup[h].pc = "acquiring"
  /\ InvalidateIfFresh(h, Supervision)
  /\ SupAt(h, "idle")
  /\ Hang(h) /\ Abandon(h)
  /\ UNCHANGED <<clockVars, witness, process, session, current, loop>>

\* controllerStatus, then startRenewalLocked or Demote.
ConfirmActivation(h) ==
  /\ sup[h].pc = "installed"
  /\ IF IsLeader(h)
     THEN \E i \in Loops : /\ loop[h][i] = "none"
                           /\ LoopAt(h, i, "waiting")
                           /\ current' = [current EXCEPT ![h] = i]
                           /\ UNCHANGED <<grant, fresh>>
     ELSE DropGrant(h) /\ UNCHANGED <<loop, current>>
  /\ SupAt(h, "idle")
  /\ UNCHANGED <<clockVars, witness, process, session, call, late>>

-----------------------------------------------------------------------------
(* Supervisor.Release: local authority ends before the witness is asked.   *)

Release(h) ==
  /\ Running(h) /\ sup[h].pc = "idle"
  /\ StopRenewal(h)
  /\ DropGrant(h)
  /\ IF grant[h].epoch = 0
     THEN UNCHANGED sup
     ELSE sup' = [sup EXCEPT ![h] = [pc |-> "releaseWant",
                                     epoch |-> grant[h].epoch]]
  /\ UNCHANGED <<clockVars, witness, process, session, loop, call, late>>

StartRelease(h) ==
  /\ sup[h].pc = "releaseWant" /\ call[h].kind = "none"
  /\ SupAt(h, "releasing")
  /\ call' = [call EXCEPT ![h] = ReleaseRequest(sup[h].epoch)]
  /\ UNCHANGED <<clockVars, witness, process, session, grant, fresh, current,
                 loop, late>>

\* Whatever the witness said, or if it said nothing, Release returns.
ReleaseReturns(h) ==
  /\ sup[h].pc = "releasing"
  /\ SupAt(h, "idle")
  /\ Hang(h) /\ Abandon(h)
  /\ UNCHANGED <<clockVars, witness, process, session, grant, fresh, current,
                 loop>>

-----------------------------------------------------------------------------
(* Supervisor.Demote and Close, the crash and the restart of the process.  *)

\* Faulty variant: renewal stops but the grant stays.
DemoteKeepsGrant(h) ==
  /\ process[h] # "down" /\ sup[h].pc = "idle"
  /\ StopRenewal(h)
  /\ UNCHANGED <<clockVars, witness, process, session, grant, fresh, sup, loop,
                 call, late>>

Demote(h) ==
  /\ process[h] # "down" /\ sup[h].pc = "idle"
  /\ StopRenewal(h)
  /\ DropGrant(h)
  /\ UNCHANGED <<clockVars, witness, process, session, sup, loop, call, late>>

\* Close is called: it waits for Supervisor.opMu.
RequestClose(h) ==
  /\ h \in CloseHubs
  /\ process[h] = "running"
  /\ process' = [process EXCEPT ![h] = "closing"]
  /\ UNCHANGED <<clockVars, witness, session, grant, fresh, supVars, call,
                 late>>

Close(h) ==
  /\ process[h] = "closing" /\ sup[h].pc = "idle"
  /\ process' = [process EXCEPT ![h] = "closed"]
  /\ StopRenewal(h)
  /\ DropGrant(h)
  /\ UNCHANGED <<clockVars, witness, session, sup, loop, call, late>>

\* The process dies, at any point, or exits after Close.
Crash(h) ==
  /\ process[h] # "down" /\ (h \in CrashHubs \/ process[h] = "closed")
  /\ process' = [process EXCEPT ![h] = "down"]
  /\ SupAt(h, "idle")
  /\ StopRenewal(h)
  /\ loop' = [loop EXCEPT ![h] = [i \in Loops |-> "none"]]
  /\ DropGrant(h)
  /\ Hang(h) /\ Abandon(h)
  /\ UNCHANGED <<clockVars, witness, session>>

Restart(h) ==
  /\ process[h] = "down"
  /\ process' = [process EXCEPT ![h] = "running"]
  /\ UNCHANGED <<clockVars, witness, session, grant, fresh, supVars, call,
                 late>>

-----------------------------------------------------------------------------
(* renewLoop, goroutine i of Hub h.  How long it waits is left open.       *)

\* The wait ends; a loop that is not the current one exits.
LoopWakes(h, i) ==
  /\ loop[h][i] = "waiting"
  /\ LoopAt(h, i, IF current[h] = i THEN "ready" ELSE "none")
  /\ UNCHANGED <<clockVars, witness, process, session, grant, fresh, sup,
                 current, call, late>>

\* safeRemaining, then Controller.Renew captures the generation.
LoopChecks(h, i) ==
  /\ loop[h][i] = "ready"
  /\ IF IsLeader(h)
     THEN LoopAt(h, i, "renewWant") /\ Capture(h, i)
     ELSE LoopAt(h, i, "failing") /\ UNCHANGED fresh
  /\ UNCHANGED <<clockVars, witness, process, session, grant, sup, current,
                 call, late>>

\* Controller.Renew gets opMu: superseded, no active lease, or a request.
StartRenew(h, i) ==
  /\ loop[h][i] = "renewWant" /\ call[h].kind = "none"
  /\ IF i \in fresh[h] /\ IsLeader(h)
     THEN /\ LoopAt(h, i, "renewing")
          /\ call' = [call EXCEPT ![h] = LeaseRequest(h, "renew", i, grant[h].epoch)]
          /\ UNCHANGED fresh
     ELSE LoopAt(h, i, "failing") /\ Forget(h, i) /\ UNCHANGED call
  /\ UNCHANGED <<clockVars, witness, process, session, grant, sup, current,
                 late>>

RenewInstalls(h, i) ==
  /\ loop[h][i] = "renewing" /\ call[h].stage = "answered" /\ Installable(h)
  /\ grant' = [grant EXCEPT ![h] = Offered(h)]
  /\ LoopAt(h, i, "waiting")
  /\ Forget(h, i)
  /\ Hang(h)
  /\ UNCHANGED <<clockVars, witness, process, session, sup, current, late>>

\* An error answer, a timeout, a cancelled context, or a failed install.
RenewFails(h, i) ==
  /\ loop[h][i] = "renewing"
  /\ InvalidateIfFresh(h, i)
  /\ LoopAt(h, i, "failing")
  /\ Hang(h) /\ Abandon(h)
  /\ UNCHANGED <<clockVars, witness, process, session, sup, current>>

\* failClosedGeneration under Supervisor.opMu, then the goroutine ends.
FailClosed(h, i) ==
  /\ loop[h][i] = "failing" /\ sup[h].pc = "idle"
  /\ IF current[h] = i
     THEN StopRenewal(h) /\ DropGrant(h)
     ELSE UNCHANGED <<current, grant, fresh>>
  /\ LoopAt(h, i, "none")
  /\ UNCHANGED <<clockVars, witness, process, session, sup, call, late>>

-----------------------------------------------------------------------------
Init ==
  /\ now = 0
  /\ lag = [h \in Hubs |-> 0]
  /\ skew = [h \in Hubs |-> 0]
  /\ witness = FreshLease
  /\ process = [h \in Hubs |-> "running"]
  /\ session = [h \in Hubs |-> FALSE]
  /\ grant = [h \in Hubs |-> NoGrant]
  /\ fresh = [h \in Hubs |-> {}]
  /\ sup = [h \in Hubs |-> [pc |-> "idle", epoch |-> 0]]
  /\ current = [h \in Hubs |-> NoLoop]
  /\ loop = [h \in Hubs |-> [i \in Loops |-> "none"]]
  /\ call = [h \in Hubs |-> NoCall]
  /\ late = {}

LoopStep(h, i) ==
  \/ LoopWakes(h, i) \/ LoopChecks(h, i) \/ StartRenew(h, i)
  \/ RenewInstalls(h, i) \/ RenewFails(h, i) \/ FailClosed(h, i)

HubStep(h) ==
  \/ Activate(h) \/ StartAcquire(h) \/ AcquireInstalls(h) \/ AcquireFails(h)
  \/ ConfirmActivation(h)
  \/ Release(h) \/ StartRelease(h) \/ ReleaseReturns(h)
  \/ Demote(h) \/ RequestClose(h) \/ Close(h) \/ Crash(h) \/ Restart(h)
  \/ \E i \in Loops : LoopStep(h, i)

Next ==
  \/ Tick
  \/ ServeLate
  \/ \E h \in Hubs : SetWallClock(h) \/ ChangeSession(h) \/ Serve(h) \/ Answer(h)
  \/ \E h \in Hubs : HubStep(h)

Spec == Init /\ [][Next]_vars

(* Every witness call ends, because the client has a timeout; a running    *)
(* goroutine is scheduled; and sync.Mutex hands over to a waiter that has  *)
(* waited long enough, so a goroutine that finds a mutex free again and    *)
(* again obtains it.                                                       *)
FairLoop(h, i) ==
  /\ WF_vars(LoopChecks(h, i))
  /\ SF_vars(StartRenew(h, i))
  /\ WF_vars(RenewInstalls(h, i) \/ RenewFails(h, i))
  /\ SF_vars(FailClosed(h, i))

\* Faulty variant: an Activate whose acquire gets no answer waits for ever.
FairHubNoTimeout(h) ==
  /\ SF_vars(StartAcquire(h))
  /\ WF_vars(AcquireInstalls(h))
  /\ WF_vars(ConfirmActivation(h))
  /\ SF_vars(StartRelease(h))
  /\ WF_vars(ReleaseReturns(h))
  /\ SF_vars(Close(h))
  /\ \A i \in Loops : FairLoop(h, i)

FairHub(h) ==
  /\ SF_vars(StartAcquire(h))
  /\ WF_vars(AcquireInstalls(h) \/ AcquireFails(h))
  /\ WF_vars(ConfirmActivation(h))
  /\ SF_vars(StartRelease(h))
  /\ WF_vars(ReleaseReturns(h))
  /\ SF_vars(Close(h))
  /\ \A i \in Loops : FairLoop(h, i)

FairSpec == Spec /\ \A h \in Hubs : FairHub(h)

-----------------------------------------------------------------------------
(* Properties.                                                             *)

SupPCs == {"idle", "acquireWant", "acquiring", "installed", "releaseWant",
           "releasing"}
LoopPCs == {"none", "waiting", "ready", "renewWant", "renewing", "failing"}

\* Every variable holds what its code counterpart can hold; in particular the
\* fencing epoch never leaves the range of the int64 column it is stored in.
TypeOK ==
  /\ now \in Nat
  /\ lag \in [Hubs -> Nat]
  /\ skew \in [Hubs -> Int]
  /\ witness \in Leases
  /\ process \in [Hubs -> {"running", "closing", "closed", "down"}]
  /\ session \in [Hubs -> BOOLEAN]
  /\ grant \in [Hubs -> Grants]
  /\ fresh \in [Hubs -> SUBSET Actors]
  /\ sup \in [Hubs -> [pc : SupPCs, epoch : 0..MaxEpoch]]
  /\ current \in [Hubs -> Loops \cup {NoLoop}]
  /\ loop \in [Hubs -> [Loops -> LoopPCs]]
  /\ call \in [Hubs -> Calls]
  /\ late \subseteq [kind : Kinds, hub : Hubs, epoch : 0..MaxEpoch]

\* A Hub whose gate answers LEADER holds, at the witness, the unexpired lease
\* of the very epoch it dispatches under (ConservativeDeadline, grantStillSafe).
LeaderHoldsLease ==
  \A h \in Hubs : IsLeader(h) =>
    /\ witness.holder = h
    /\ witness.epoch = grant[h].epoch
    /\ now < witness.expires

\* No two Hubs are LEADER at once (Controller.Current of different Hubs).
AtMostOneLeader ==
  \A h1, h2 \in Hubs : IsLeader(h1) /\ IsLeader(h2) => h1 = h2

\* The epoch of the LEADER is higher than any epoch another Hub still keeps in
\* its grant, so a receiver that compares epochs fences the other Hub.
LeaderHasHighestEpoch ==
  \A h1, h2 \in Hubs :
    IsLeader(h1) /\ h1 # h2 => grant[h2].epoch < grant[h1].epoch

\* A Hub that leads has a renewal goroutine of the current generation looking
\* after its lease, or the Activate that will start one is about to.
LeaderHasRenewal ==
  \A h \in Hubs : IsLeader(h) =>
    sup[h].pc = "installed" \/ current[h] # NoLoop

\* A grant appears, or gets another epoch, only from the witness call of an
\* operator's Activate: a renewal that was under way when the Hub demoted,
\* released, closed or crashed never brings authority back, and a renewal never
\* moves a Hub to another epoch.
PromotionIsExplicit ==
  [][\A h \in Hubs :
       grant'[h].epoch \notin {0, grant[h].epoch} => sup[h].pc = "acquiring"]_vars

\* Activate and Release come to an end and free Supervisor.opMu, whatever the
\* witness and the renewal goroutines do; a renewal goroutine that failed
\* gets to fail closed and to end, however often the operator takes opMu in
\* between; and a Close that was called completes, or the process dies before.
SupervisionEnds ==
  \A h \in Hubs :
    /\ sup[h].pc # "idle" ~> sup[h].pc = "idle"
    /\ \A i \in Loops : loop[h][i] = "failing" ~> loop[h][i] = "none"
    /\ process[h] = "closing" ~> process[h] \in {"closed", "down"}

\* The authority a Hub can prove to its dispatch gate, as the abstract
\* specification sees it.
Authority == INSTANCE FencedAuthority WITH
  leader <- IF \E h \in Hubs : IsLeader(h)
            THEN CHOOSE h \in Hubs : IsLeader(h) ELSE NoHub,
  owner <- witness.holder,
  fence <- witness.epoch

\* The system implements the abstract fenced authority.
ImplementsFencedAuthority == Authority!Spec
-----------------------------------------------------------------------------
(* Why LeaderHoldsLease is an invariant.                                   *)

\* What the theorems assume of the environment: the two clocks of a Hub do not
\* both go wrong, and an abandoned release is not served later.
SafeEnvironment ==
  /\ SuspendHubs \cap RollbackHubs = {}
  /\ "release" \notin LateKinds

\* x is over, or h still holds epoch e at the witness until x at least.
Covered(h, e, x) ==
  \/ x <= now
  \/ witness.holder = h /\ witness.epoch = e /\ x <= witness.expires

\* Epoch e was granted to h and to no other Hub since.
Owned(h, e) ==
  /\ e <= witness.epoch
  /\ e = witness.epoch => witness.holder \in {h, NoHub}

\* Clock readings taken at once at a true time in the past.
ReadingsOK(h, r) ==
  /\ r.at <= now
  /\ h \notin SuspendHubs => r.mono = r.at
  /\ h \notin RollbackHubs => r.wall - r.at <= skew[h]

ClocksOK == \A h \in Hubs : h \notin SuspendHubs => lag[h] = 0

WitnessOK == witness.expires <= now + LeaseDuration

GrantOK(h) ==
  grant[h].epoch # 0 =>
    /\ ReadingsOK(h, grant[h])
    /\ Covered(h, grant[h].epoch, grant[h].at + grant[h].remaining)
    /\ Owned(h, grant[h].epoch)

CallOK(h) ==
  call[h].kind \in {"acquire", "renew"} =>
    /\ ReadingsOK(h, call[h])
    /\ call[h].stage # "sent" /\ call[h].ok =>
         /\ call[h].epoch # 0
         /\ Owned(h, call[h].epoch)
         /\ call[h].stage = "served" =>
              Covered(h, call[h].epoch, call[h].expires)
         /\ call[h].stage = "answered" =>
              Covered(h, call[h].epoch, call[h].at + call[h].remaining)

\* Who waits for which call; while Release runs nothing can be installed.
ControlOK(h) ==
  /\ sup[h].pc = "acquiring" <=> call[h].kind = "acquire"
  /\ sup[h].pc = "releasing" <=> call[h].kind = "release"
  /\ \A i \in Loops :
       loop[h][i] = "renewing" <=> call[h].kind = "renew" /\ call[h].by = i
  /\ call[h].kind = "renew" => call[h].by \in Loops
  /\ sup[h].pc \in {"releaseWant", "releasing"} =>
       /\ grant[h].epoch = 0
       /\ call[h].kind = "renew" => call[h].by \notin fresh[h]

LateOK == \A r \in late : r.kind \in LateKinds

\* The inductive strengthening of LeaderHoldsLease: every grant, and every
\* lease on its way to a Hub, is covered by the witness or over, and no Hub
\* can have one while its own release is on the way.
AuthorityInv ==
  /\ TypeOK
  /\ ClocksOK
  /\ WitnessOK
  /\ LateOK
  /\ \A h \in Hubs : GrantOK(h) /\ CallOK(h) /\ ControlOK(h)
=============================================================================
