------------------------- MODULE HAAuthority_proofs -------------------------
(***************************************************************************)
(* Proofs about HAAuthority, for any number of Hubs, renewal goroutines,   *)
(* lease duration and run length.                                          *)
(***************************************************************************)
EXTENDS HAAuthority, TLAPS

-----------------------------------------------------------------------------
(* Type correctness.                                                       *)

LEMMA NoGrantType == NoGrant \in Grants
  BY HALeaseAssumption DEF NoGrant, Grants

LEMMA NoCallType == NoCall \in Calls
  BY HALeaseAssumption DEF NoCall, Calls, Kinds, Actors

\* The witness keeps a well-formed lease whatever it is asked.
LEMMA AppliedType ==
  ASSUME NEW l \in Leases, NEW k, NEW h \in Hubs, NEW e, now \in Nat
  PROVE  Applied(l, k, h, e) \in Leases
  <1>1. CASE ~Accepted(l, k, h, e)
    BY <1>1 DEF Applied
  <1>2. CASE Accepted(l, k, h, e) /\ k = "acquire"
    BY <1>2, HALeaseAssumption
    DEF Applied, Accepted, AcquireOK, Acquired, Leases, ActiveAt
  <1>3. CASE Accepted(l, k, h, e) /\ k = "renew"
    BY <1>3, HALeaseAssumption DEF Applied, Renewed, Leases
  <1>4. CASE Accepted(l, k, h, e) /\ k \notin {"acquire", "renew"}
    BY <1>4, HALeaseAssumption DEF Applied, Released, Leases
  <1> QED
    BY <1>1, <1>2, <1>3, <1>4

LEMMA OfferedType ==
  ASSUME TypeOK, NEW h \in Hubs
  PROVE  Offered(h) \in Grants
  BY DEF TypeOK, Offered, Grants, Calls

LEMMA ClockTypes ==
  ASSUME TypeOK, NEW h \in Hubs
  PROVE  Mono(h) \in Int /\ Wall(h) \in Int
  BY DEF TypeOK, Mono, Wall

LEMMA LeaseRequestType ==
  ASSUME TypeOK, NEW h \in Hubs, NEW k \in Kinds, NEW a \in Actors,
         NEW e \in 0..MaxEpoch
  PROVE  LeaseRequest(h, k, a, e) \in Calls
  BY NoCallType, ClockTypes DEF TypeOK, LeaseRequest, Calls

LEMMA ReleaseRequestType ==
  ASSUME NEW e \in 0..MaxEpoch
  PROVE  ReleaseRequest(e) \in Calls
  BY NoCallType DEF ReleaseRequest, Calls, Actors, Kinds

LEMMA ServedType ==
  ASSUME NEW c \in Calls, NEW accepted \in BOOLEAN, NEW l \in Leases
  PROVE  Served(c, accepted, l) \in Calls
  BY DEF Served, Calls, Leases

\* What serving and answering a call leaves as it was.
LEMMA ServedFields ==
  ASSUME NEW c \in Calls, NEW accepted \in BOOLEAN, NEW l \in Leases
  PROVE  LET s == Served(c, accepted, l) IN
         /\ s.kind = c.kind /\ s.by = c.by /\ s.at = c.at /\ s.mono = c.mono
         /\ s.wall = c.wall /\ s.stage = "served" /\ s.ok = accepted
         /\ accepted => s.epoch = l.epoch /\ s.expires = l.expires
  BY DEF Served, Calls

LEMMA AnsweredFields ==
  ASSUME NEW c \in Calls
  PROVE  LET s == Answered(c) IN
         /\ s.kind = c.kind /\ s.by = c.by /\ s.at = c.at /\ s.mono = c.mono
         /\ s.wall = c.wall /\ s.stage = "answered" /\ s.ok = c.ok
         /\ s.epoch = c.epoch
         /\ c.ok => s.remaining = c.expires - now
  BY DEF Answered, Calls

LEMMA AnsweredType ==
  ASSUME NEW c \in Calls, now \in Nat
  PROVE  Answered(c) \in Calls
  <1> DEFINE left == IF c.ok THEN c.expires - now ELSE 0
  <1>1. left \in Int
    BY DEF Calls
  <1> HIDE DEF left
  <1>2. [c EXCEPT !.stage = "answered", !.remaining = left] \in Calls
    BY <1>1 DEF Calls
  <1> QED
    BY <1>2 DEF Answered, left

\* What a caller leaves behind is a request of its own.
LEMMA AbandonType ==
  ASSUME TypeOK, NEW h \in Hubs, Abandon(h)
  PROVE  late' \subseteq [kind : Kinds, hub : Hubs, epoch : 0..MaxEpoch]
  BY HAAuthorityAssumption DEF TypeOK, Abandon, Calls, Kinds

LEMMA DropGrantType ==
  ASSUME TypeOK, NEW h \in Hubs, DropGrant(h)
  PROVE  grant' \in [Hubs -> Grants] /\ fresh' \in [Hubs -> SUBSET Actors]
  BY NoGrantType DEF TypeOK, DropGrant

LEMMA SupAtType ==
  ASSUME TypeOK, NEW h \in Hubs, NEW pc \in SupPCs, SupAt(h, pc)
  PROVE  sup' \in [Hubs -> [pc : SupPCs, epoch : 0..MaxEpoch]]
  BY HALeaseAssumption DEF TypeOK, SupAt

LEMMA LoopAtType ==
  ASSUME TypeOK, NEW h \in Hubs, NEW i \in Loops, NEW pc \in LoopPCs,
         LoopAt(h, i, pc)
  PROVE  loop' \in [Hubs -> [Loops -> LoopPCs]]
  BY DEF TypeOK, LoopAt

LEMMA HangType ==
  ASSUME TypeOK, NEW h \in Hubs, Hang(h)
  PROVE  call' \in [Hubs -> Calls]
  BY NoCallType DEF TypeOK, Hang

LEMMA TypeInit == Init => TypeOK
  BY HALeaseAssumption, NoGrantType, NoCallType
  DEF Init, TypeOK, FreshLease, Leases, SupPCs, LoopPCs, Actors

\* Every step keeps the types.
LEMMA TypeStep == TypeOK /\ [Next]_vars => TypeOK'
  <1> SUFFICES ASSUME TypeOK, [Next]_vars PROVE TypeOK'
    OBVIOUS
  <1>1. CASE Tick
    BY <1>1 DEF TypeOK, Tick, supVars
  <1>2. CASE ServeLate
    <2>1. PICK r \in late : /\ late' = late \ {r}
                            /\ witness' \in {witness, Applied(witness, r.kind, r.hub, r.epoch)}
      BY <1>2 DEF ServeLate
    <2>2. r.hub \in Hubs /\ witness \in Leases /\ now \in Nat
      BY DEF TypeOK
    <2>3. witness' \in Leases
      BY <2>1, <2>2, AppliedType
    <2> QED
      BY <1>2, <2>1, <2>3 DEF TypeOK, ServeLate, clockVars, supVars
  <1>3. ASSUME NEW h \in Hubs, SetWallClock(h) PROVE TypeOK'
    BY <1>3, HAAuthorityAssumption DEF TypeOK, SetWallClock, supVars
  <1>4. ASSUME NEW h \in Hubs, ChangeSession(h) PROVE TypeOK'
    BY <1>4 DEF TypeOK, ChangeSession, clockVars, supVars
  <1>5. ASSUME NEW h \in Hubs, Serve(h) PROVE TypeOK'
    <2>1. Applied(witness, call[h].kind, h, call[h].epoch) \in Leases
      BY AppliedType DEF TypeOK
    <2>2. witness' \in Leases /\ call' \in [Hubs -> Calls]
      BY <1>5, <2>1, ServedType DEF TypeOK, Serve, Accepted
    <2> QED
      BY <1>5, <2>2 DEF TypeOK, Serve, clockVars, supVars
  <1>6. ASSUME NEW h \in Hubs, Answer(h) PROVE TypeOK'
    <2>1. call' \in [Hubs -> Calls]
      BY <1>6, AnsweredType DEF TypeOK, Answer
    <2> QED
      BY <1>6, <2>1 DEF TypeOK, Answer, clockVars, supVars
  <1>7. ASSUME NEW h \in Hubs, HubStep(h) PROVE TypeOK'
    <2>1. CASE Activate(h)
      BY <2>1, SupAtType DEF TypeOK, Activate, Capture, Actors, SupPCs, clockVars
    <2>2. CASE StartAcquire(h)
      <3>1. LeaseRequest(h, "acquire", Supervision, 0) \in Calls
        BY LeaseRequestType, HALeaseAssumption DEF Kinds, Actors
      <3>2. sup' \in [Hubs -> [pc : SupPCs, epoch : 0..MaxEpoch]]
        BY <2>2, SupAtType DEF StartAcquire, SupPCs
      <3> QED
        BY <2>2, <3>1, <3>2 DEF TypeOK, StartAcquire, clockVars
    <2>3. CASE AcquireInstalls(h)
      BY <2>3, SupAtType, HangType, OfferedType
      DEF TypeOK, AcquireInstalls, Forget, SupPCs, clockVars
    <2>4. CASE AcquireFails(h)
      <3>1. grant' \in [Hubs -> Grants] /\ fresh' \in [Hubs -> SUBSET Actors]
        BY <2>4, DropGrantType DEF TypeOK, AcquireFails, InvalidateIfFresh
      <3> QED
        BY <2>4, <3>1, SupAtType, HangType, AbandonType
        DEF TypeOK, AcquireFails, SupPCs, clockVars
    <2>5. CASE ConfirmActivation(h)
      <3>1. sup' \in [Hubs -> [pc : SupPCs, epoch : 0..MaxEpoch]]
        BY <2>5, SupAtType DEF ConfirmActivation, SupPCs
      <3>2. CASE IsLeader(h)
        BY <2>5, <3>1, <3>2, LoopAtType
        DEF TypeOK, ConfirmActivation, LoopPCs, clockVars
      <3>3. CASE ~IsLeader(h)
        BY <2>5, <3>1, <3>3, DropGrantType DEF TypeOK, ConfirmActivation, clockVars
      <3> QED
        BY <3>2, <3>3
    <2>6. CASE Release(h)
      <3>1. grant[h].epoch \in 0..MaxEpoch
        BY DEF TypeOK, Grants
      <3>2. [pc |-> "releaseWant", epoch |-> grant[h].epoch]
              \in [pc : SupPCs, epoch : 0..MaxEpoch]
        BY <3>1 DEF SupPCs
      <3> QED
        BY <2>6, <3>2, DropGrantType DEF TypeOK, Release, StopRenewal, clockVars
    <2>7. CASE StartRelease(h)
      <3>1. ReleaseRequest(sup[h].epoch) \in Calls
        BY ReleaseRequestType DEF TypeOK
      <3> QED
        BY <2>7, <3>1, SupAtType DEF TypeOK, StartRelease, SupPCs, clockVars
    <2>8. CASE ReleaseReturns(h)
      BY <2>8, SupAtType, HangType, AbandonType
      DEF TypeOK, ReleaseReturns, SupPCs, clockVars
    <2>9. CASE Demote(h)
      BY <2>9, DropGrantType DEF TypeOK, Demote, StopRenewal, clockVars
    <2>10. CASE RequestClose(h)
      BY <2>10 DEF TypeOK, RequestClose, clockVars, supVars
    <2>11. CASE Close(h)
      BY <2>11, DropGrantType DEF TypeOK, Close, StopRenewal, clockVars
    <2>12. CASE Crash(h)
      <3>1. loop' \in [Hubs -> [Loops -> LoopPCs]]
        BY <2>12 DEF TypeOK, Crash, LoopPCs
      <3> QED
        BY <2>12, <3>1, SupAtType, DropGrantType, HangType, AbandonType
        DEF TypeOK, Crash, StopRenewal, SupPCs, clockVars
    <2>13. CASE Restart(h)
      BY <2>13 DEF TypeOK, Restart, clockVars, supVars
    <2>14. ASSUME NEW i \in Loops, LoopStep(h, i) PROVE TypeOK'
      <3>1. CASE LoopWakes(h, i)
        BY <2>14, <3>1, LoopAtType DEF TypeOK, LoopWakes, LoopPCs, clockVars
      <3>2. CASE LoopChecks(h, i)
        <4>1. loop' \in [Hubs -> [Loops -> LoopPCs]]
          BY <3>2, LoopAtType DEF LoopChecks, LoopPCs
        <4>2. fresh[h] \cup {i} \in SUBSET Actors
          BY DEF TypeOK, Actors
        <4>3. fresh' \in [Hubs -> SUBSET Actors]
          BY <3>2, <4>2, Zenon DEF TypeOK, LoopChecks, Capture
        <4> QED
          BY <3>2, <4>1, <4>3 DEF TypeOK, LoopChecks, clockVars
      <3>3. CASE StartRenew(h, i)
        <4>1. loop' \in [Hubs -> [Loops -> LoopPCs]]
          BY <3>3, LoopAtType DEF StartRenew, LoopPCs
        <4>2. grant[h].epoch \in 0..MaxEpoch
          BY DEF TypeOK, Grants
        <4>3. LeaseRequest(h, "renew", i, grant[h].epoch) \in Calls
          BY <4>2, LeaseRequestType DEF Kinds, Actors
        <4>4. fresh' \in [Hubs -> SUBSET Actors] /\ call' \in [Hubs -> Calls]
          BY <3>3, <4>3 DEF TypeOK, StartRenew, Forget
        <4> QED
          BY <3>3, <4>1, <4>4 DEF TypeOK, StartRenew, clockVars
      <3>4. CASE RenewInstalls(h, i)
        BY <3>4, LoopAtType, HangType, OfferedType
        DEF TypeOK, RenewInstalls, Forget, LoopPCs, clockVars
      <3>5. CASE RenewFails(h, i)
        <4>1. grant' \in [Hubs -> Grants] /\ fresh' \in [Hubs -> SUBSET Actors]
          BY <3>5, DropGrantType DEF TypeOK, RenewFails, InvalidateIfFresh
        <4> QED
          BY <3>5, <4>1, LoopAtType, HangType, AbandonType
          DEF TypeOK, RenewFails, LoopPCs, clockVars
      <3>6. CASE FailClosed(h, i)
        <4>1. loop' \in [Hubs -> [Loops -> LoopPCs]]
          BY <3>6, LoopAtType DEF FailClosed, LoopPCs
        <4>2. /\ grant' \in [Hubs -> Grants] /\ fresh' \in [Hubs -> SUBSET Actors]
              /\ current' \in [Hubs -> Loops \cup {NoLoop}]
          BY <3>6, DropGrantType DEF TypeOK, FailClosed, StopRenewal
        <4> QED
          BY <3>6, <4>1, <4>2 DEF TypeOK, FailClosed, clockVars
      <3> QED
        BY <2>14, <3>1, <3>2, <3>3, <3>4, <3>5, <3>6 DEF LoopStep
    <2> QED
      BY <1>7, <2>1, <2>2, <2>3, <2>4, <2>5, <2>6, <2>7, <2>8, <2>9, <2>10,
         <2>11, <2>12, <2>13, <2>14 DEF HubStep
  <1>8. CASE UNCHANGED vars
    BY <1>8 DEF TypeOK, vars
  <1> QED
    BY <1>1, <1>2, <1>3, <1>4, <1>5, <1>6, <1>7, <1>8 DEF Next

\* Every variable of the Hubs and of the witness stays within its type; the
\* fencing epoch stays within the int64 column (TypeOK).
THEOREM TypeCorrect == Spec => []TypeOK
  BY TypeInit, TypeStep, PTL DEF Spec

-----------------------------------------------------------------------------
(* What a step can do to the witness, to the clocks and to a Hub.          *)

\* The four ways the lease can come out of an operation at the witness.
LEMMA AppliedCases ==
  ASSUME TypeOK, NEW h \in Hubs, NEW k, NEW e
  PROVE  LET after == Applied(witness, k, h, e) IN
         \/ after = witness
         \/ /\ ~ActiveAt(witness, now)
            /\ after = [holder |-> h, epoch |-> witness.epoch + 1,
                        expires |-> now + LeaseDuration]
         \/ /\ witness.holder = h
            /\ after = [witness EXCEPT !.expires = now + LeaseDuration]
         \/ /\ witness.holder = h /\ k \notin {"acquire", "renew"}
            /\ k = "release"
            /\ after = [witness EXCEPT !.holder = NoHub, !.expires = 0]
  BY DEF Applied, Accepted, AcquireOK, Acquired, RenewOK, Renewed, ReleaseOK,
         Released, Holds

\* A release reaches the witness only while its Hub waits for it.
LEMMA WitnessMoves ==
  ASSUME TypeOK, LateOK, SafeEnvironment, [Next]_vars
  PROVE  /\ now' \in Nat /\ now <= now'
         /\ \/ witness' = witness
            \/ /\ now' = now
               /\ \E h \in Hubs : \E k, e :
                    /\ witness' = Applied(witness, k, h, e)
                    /\ k = "release" => call[h].kind = "release"
  <1>1. CASE Tick
    BY <1>1 DEF Tick, TypeOK
  <1>2. CASE ServeLate
    <2>1. PICK r \in late : witness' \in {witness, Applied(witness, r.kind, r.hub, r.epoch)}
      BY <1>2 DEF ServeLate
    <2>2. r.hub \in Hubs /\ r.kind # "release"
      BY DEF TypeOK, LateOK, SafeEnvironment
    <2> QED
      BY <1>2, <2>1, <2>2 DEF ServeLate, TypeOK, clockVars
  <1>3. ASSUME NEW h \in Hubs, SetWallClock(h) \/ ChangeSession(h) \/ Answer(h)
        PROVE  UNCHANGED <<now, witness>>
    BY <1>3 DEF SetWallClock, ChangeSession, Answer, clockVars
  <1>4. ASSUME NEW h \in Hubs, Serve(h)
        PROVE  /\ now' = now
               /\ \E k, e : /\ witness' = Applied(witness, k, h, e)
                            /\ k = "release" => call[h].kind = "release"
    BY <1>4 DEF Serve, clockVars
  <1>5. ASSUME NEW h \in Hubs, HubStep(h) PROVE UNCHANGED <<now, witness>>
    BY <1>5 DEF HubStep, LoopStep, Activate, StartAcquire, AcquireInstalls,
      AcquireFails, ConfirmActivation, Release, StartRelease, ReleaseReturns,
      Demote, RequestClose, Close, Crash, Restart, LoopWakes, LoopChecks,
      StartRenew, RenewInstalls, RenewFails, FailClosed, clockVars
  <1>6. CASE UNCHANGED vars
    BY <1>6 DEF vars, TypeOK
  <1>7. now \in Nat
    BY DEF TypeOK
  <1> QED
    BY <1>1, <1>2, <1>3, <1>4, <1>5, <1>6, <1>7 DEF Next

\* Time that is covered stays covered unless the Hub itself releases.
LEMMA CoveredStable ==
  ASSUME TypeOK, LateOK, WitnessOK, SafeEnvironment, [Next]_vars,
         NEW h \in Hubs, NEW e \in Nat \ {0}, NEW x \in Int,
         call[h].kind # "release", Covered(h, e, x)
  PROVE  Covered(h, e, x)'
  <1>1. now \in Nat /\ witness \in Leases /\ h # NoHub /\ LeaseDuration \in Nat
    BY HALeaseAssumption DEF TypeOK
  <1>2. now' \in Nat /\ now <= now'
    BY WitnessMoves
  <1>3. CASE witness' = witness
    BY <1>1, <1>2, <1>3 DEF Covered
  <1>4. CASE witness' # witness
    <2>1. PICK g \in Hubs : \E k, d :
                               /\ now' = now
                               /\ witness' = Applied(witness, k, g, d)
                               /\ k = "release" => call[g].kind = "release"
      BY <1>4, WitnessMoves
    <2>2. \/ ~ActiveAt(witness, now)
          \/ witness.holder = g /\ witness' = [witness EXCEPT !.expires = now + LeaseDuration]
          \/ witness.holder = g /\ g # h
      BY <1>4, <2>1, AppliedCases
    <2>3. CASE ~ActiveAt(witness, now)
      BY <1>1, <2>1, <2>3 DEF Covered, ActiveAt, Leases
    <2>4. CASE witness.holder = g /\ witness' = [witness EXCEPT !.expires = now + LeaseDuration]
      BY <1>1, <2>1, <2>4 DEF Covered, Leases, WitnessOK
    <2>5. CASE witness.holder = g /\ g # h
      BY <1>1, <2>1, <2>5 DEF Covered
    <2> QED
      BY <2>2, <2>3, <2>4, <2>5
  <1> QED
    BY <1>3, <1>4

\* An epoch once granted to a Hub is never granted to another one.
LEMMA OwnedStable ==
  ASSUME TypeOK, LateOK, SafeEnvironment, [Next]_vars,
         NEW h \in Hubs, NEW e \in Nat, Owned(h, e)
  PROVE  Owned(h, e)'
  <1>1. witness \in Leases
    BY DEF TypeOK
  <1>2. CASE witness' = witness
    BY <1>2 DEF Owned
  <1>3. CASE witness' # witness
    <2>1. PICK g \in Hubs : \E k, d : witness' = Applied(witness, k, g, d)
      BY <1>3, WitnessMoves
    <2>2. \/ witness' = [holder |-> g, epoch |-> witness.epoch + 1,
                         expires |-> now + LeaseDuration]
          \/ witness' = [witness EXCEPT !.expires = now + LeaseDuration]
          \/ witness' = [witness EXCEPT !.holder = NoHub, !.expires = 0]
      BY <1>3, <2>1, AppliedCases
    <2>3. CASE witness' = [holder |-> g, epoch |-> witness.epoch + 1,
                           expires |-> now + LeaseDuration]
      BY <1>1, <2>3 DEF Owned, Leases
    <2>4. CASE witness' = [witness EXCEPT !.expires = now + LeaseDuration]
      BY <1>1, <2>4 DEF Owned, Leases
    <2>5. CASE witness' = [witness EXCEPT !.holder = NoHub, !.expires = 0]
      BY <1>1, <2>5 DEF Owned, Leases
    <2> QED
      BY <2>2, <2>3, <2>4, <2>5
  <1> QED
    BY <1>2, <1>3

\* The expiry never lies more than one lease duration ahead.
LEMMA WitnessStep ==
  ASSUME TypeOK, LateOK, WitnessOK, SafeEnvironment, [Next]_vars
  PROVE  WitnessOK'
  <1>1. now \in Nat /\ witness \in Leases /\ LeaseDuration \in Nat
    BY HALeaseAssumption DEF TypeOK
  <1>2. now' \in Nat /\ now <= now'
    BY WitnessMoves
  <1>3. CASE witness' = witness
    BY <1>1, <1>2, <1>3 DEF WitnessOK, Leases
  <1>4. CASE witness' # witness
    <2>1. PICK g \in Hubs : \E k, d : now' = now /\ witness' = Applied(witness, k, g, d)
      BY <1>4, WitnessMoves
    <2>2. \/ witness' = [holder |-> g, epoch |-> witness.epoch + 1,
                         expires |-> now + LeaseDuration]
          \/ witness' = [witness EXCEPT !.expires = now + LeaseDuration]
          \/ witness' = [witness EXCEPT !.holder = NoHub, !.expires = 0]
      BY <1>4, <2>1, AppliedCases
    <2>3. witness'.expires = 0 \/ witness'.expires = now + LeaseDuration
      <3>1. CASE witness' = [holder |-> g, epoch |-> witness.epoch + 1,
                             expires |-> now + LeaseDuration]
        BY <3>1
      <3>2. CASE witness' = [witness EXCEPT !.expires = now + LeaseDuration]
        BY <1>1, <3>2 DEF Leases
      <3>3. CASE witness' = [witness EXCEPT !.holder = NoHub, !.expires = 0]
        BY <1>1, <3>3 DEF Leases
      <3> QED
        BY <2>2, <3>1, <3>2, <3>3
    <2> QED
      BY <1>1, <2>1, <2>3 DEF WitnessOK
  <1> QED
    BY <1>3, <1>4

\* A monotonic clock that never stops and a wall clock that is never set back
\* stay so, and readings taken in the past stay valid.
LEMMA ClocksStep ==
  ASSUME TypeOK, ClocksOK, [Next]_vars
  PROVE  /\ ClocksOK'
         /\ \A h \in Hubs : h \notin RollbackHubs => skew[h] <= skew'[h]
  <1>1. CASE Tick
    BY <1>1 DEF Tick, TypeOK, ClocksOK
  <1>2. ASSUME NEW g \in Hubs, SetWallClock(g)
        PROVE  /\ lag' = lag
               /\ \A h \in Hubs : h \notin RollbackHubs => skew[h] <= skew'[h]
    BY <1>2, HAAuthorityAssumption DEF SetWallClock, TypeOK
  <1>3. CASE UNCHANGED <<lag, skew>>
    BY <1>3 DEF TypeOK, ClocksOK
  <1>4. ASSUME NEW h \in Hubs, ChangeSession(h) \/ Serve(h) \/ Answer(h) \/ HubStep(h)
        PROVE  UNCHANGED <<lag, skew>>
    BY <1>4 DEF ChangeSession, Serve, Answer, HubStep, LoopStep, Activate,
      StartAcquire, AcquireInstalls, AcquireFails, ConfirmActivation, Release,
      StartRelease, ReleaseReturns, Demote, RequestClose, Close, Crash, Restart,
      LoopWakes, LoopChecks, StartRenew, RenewInstalls, RenewFails, FailClosed,
      clockVars
  <1>5. CASE ServeLate \/ UNCHANGED vars
    BY <1>5, <1>3 DEF ServeLate, clockVars, vars
  <1> QED
    BY <1>1, <1>2, <1>3, <1>4, <1>5 DEF Next, ClocksOK

LEMMA ReadingsStable ==
  ASSUME TypeOK, LateOK, ClocksOK, SafeEnvironment, [Next]_vars, NEW h \in Hubs,
         NEW r, r.at \in Nat, r.mono \in Int, r.wall \in Int, ReadingsOK(h, r)
  PROVE  /\ r.at <= now'
         /\ h \notin SuspendHubs => r.mono = r.at
         /\ h \notin RollbackHubs => r.wall - r.at <= skew'[h]
  <1>1. now \in Nat /\ now' \in Nat /\ now <= now'
    BY WitnessMoves DEF TypeOK
  <1>2. skew[h] \in Int /\ skew'[h] \in Int
    BY TypeStep DEF TypeOK
  <1>3. h \notin RollbackHubs => skew[h] <= skew'[h]
    BY ClocksStep
  <1> QED
    BY <1>1, <1>2, <1>3 DEF ReadingsOK

\* Late requests are of the kinds that may be late.
LEMMA LateStep == TypeOK /\ LateOK /\ [Next]_vars => LateOK'
  <1> SUFFICES ASSUME TypeOK, LateOK, [Next]_vars PROVE LateOK'
    OBVIOUS
  <1>1. ASSUME NEW h \in Hubs, Abandon(h) PROVE LateOK'
    BY <1>1 DEF Abandon, LateOK
  <1>2. CASE UNCHANGED late
    BY <1>2 DEF LateOK
  <1>3. CASE ServeLate
    BY <1>3 DEF ServeLate, LateOK
  <1>4. ASSUME NEW h \in Hubs, HubStep(h) PROVE UNCHANGED late \/ Abandon(h)
    BY <1>4 DEF HubStep, LoopStep, Activate, StartAcquire, AcquireInstalls,
      AcquireFails, ConfirmActivation, Release, StartRelease, ReleaseReturns,
      Demote, RequestClose, Close, Crash, Restart, LoopWakes, LoopChecks,
      StartRenew, RenewInstalls, RenewFails, FailClosed
  <1>5. ASSUME NEW h \in Hubs, SetWallClock(h) \/ ChangeSession(h) \/ Serve(h) \/ Answer(h)
        PROVE  UNCHANGED late
    BY <1>5 DEF SetWallClock, ChangeSession, Serve, Answer
  <1>6. CASE Tick \/ UNCHANGED vars
    BY <1>2, <1>6 DEF Tick, vars
  <1> QED
    BY <1>1, <1>2, <1>3, <1>4, <1>5, <1>6 DEF Next

-----------------------------------------------------------------------------
(* The control state of a Hub.                                             *)

LEMMA ControlFrame ==
  ASSUME NEW h \in Hubs, ControlOK(h),
         sup'[h] = sup[h], loop'[h] = loop[h], call'[h] = call[h],
         grant'[h] = grant[h], fresh'[h] = fresh[h]
  PROVE  ControlOK(h)'
  BY DEF ControlOK

\* Dropping the grant and the captured generations disturbs nothing.
LEMMA ControlDrop ==
  ASSUME TypeOK, NEW h \in Hubs, ControlOK(h), DropGrant(h),
         sup'[h] = sup[h], loop'[h] = loop[h], call'[h] = call[h]
  PROVE  ControlOK(h)'
  BY DEF ControlOK, TypeOK, DropGrant, NoGrant

\* A step of one Hub leaves the other Hubs alone.
LEMMA OtherHub ==
  ASSUME TypeOK, NEW g \in Hubs, HubStep(g), NEW h \in Hubs, h # g
  PROVE  /\ sup'[h] = sup[h] /\ loop'[h] = loop[h] /\ call'[h] = call[h]
         /\ grant'[h] = grant[h] /\ fresh'[h] = fresh[h]
  <1> USE DEF TypeOK, SupAt, LoopAt, Hang, Forget, Capture, DropGrant,
              InvalidateIfFresh, StopRenewal, supVars
  <1>1. CASE Activate(g) \/ StartAcquire(g) \/ AcquireInstalls(g) \/ AcquireFails(g)
    BY <1>1 DEF Activate, StartAcquire, AcquireInstalls, AcquireFails
  <1>2. CASE ConfirmActivation(g)
    BY <1>2 DEF ConfirmActivation
  <1>3. CASE Release(g) \/ StartRelease(g) \/ ReleaseReturns(g)
    BY <1>3 DEF Release, StartRelease, ReleaseReturns
  <1>4. CASE Demote(g) \/ RequestClose(g) \/ Close(g) \/ Crash(g) \/ Restart(g)
    BY <1>4 DEF Demote, RequestClose, Close, Crash, Restart
  <1>5. ASSUME NEW i \in Loops, LoopStep(g, i)
        PROVE  /\ sup'[h] = sup[h] /\ loop'[h] = loop[h] /\ call'[h] = call[h]
               /\ grant'[h] = grant[h] /\ fresh'[h] = fresh[h]
    <2>1. CASE LoopWakes(g, i) \/ LoopChecks(g, i) \/ StartRenew(g, i)
      BY <2>1 DEF LoopWakes, LoopChecks, StartRenew
    <2>2. CASE RenewInstalls(g, i) \/ RenewFails(g, i) \/ FailClosed(g, i)
      BY <2>2 DEF RenewInstalls, RenewFails, FailClosed
    <2> QED
      BY <1>5, <2>1, <2>2 DEF LoopStep
  <1> QED
    BY <1>1, <1>2, <1>3, <1>4, <1>5 DEF HubStep

\* No step lets two operations of a Hub share its witness call, or opens the
\* way for an installation while Release runs.
LEMMA ControlHubStep ==
  ASSUME TypeOK, NEW h \in Hubs, ControlOK(h), HubStep(h)
  PROVE  ControlOK(h)'
  <1> USE DEF TypeOK, ControlOK
  <1>1. CASE Activate(h)
    BY <1>1, HAAuthorityAssumption DEF Activate, SupAt, Capture
  <1>2. CASE StartAcquire(h)
    <2>1. LeaseRequest(h, "acquire", Supervision, 0).kind = "acquire"
      BY DEF LeaseRequest, NoCall
    <2> QED
      BY <1>2, <2>1 DEF StartAcquire, SupAt
  <1>3. CASE AcquireInstalls(h)
    BY <1>3 DEF AcquireInstalls, SupAt, Hang, NoCall
  <1>4. CASE AcquireFails(h)
    BY <1>4 DEF AcquireFails, SupAt, Hang, NoCall
  <1>5. CASE ConfirmActivation(h)
    BY <1>5 DEF ConfirmActivation, SupAt, LoopAt
  <1>6. CASE Release(h)
    BY <1>6 DEF Release, DropGrant, NoGrant
  <1>7. CASE StartRelease(h)
    <2>1. ReleaseRequest(sup[h].epoch).kind = "release"
      BY DEF ReleaseRequest, NoCall
    <2> QED
      BY <1>7, <2>1 DEF StartRelease, SupAt
  <1>8. CASE ReleaseReturns(h)
    BY <1>8 DEF ReleaseReturns, SupAt, Hang, NoCall
  <1>9. CASE Demote(h)
    BY <1>9, ControlDrop DEF Demote
  <1>10. CASE RequestClose(h) \/ Restart(h)
    BY <1>10 DEF RequestClose, Restart, supVars
  <1>11. CASE Close(h)
    BY <1>11, ControlDrop DEF Close
  <1>12. CASE Crash(h)
    BY <1>12 DEF Crash, SupAt, Hang, NoCall
  <1>13. ASSUME NEW i \in Loops, LoopStep(h, i) PROVE ControlOK(h)'
    <2>1. CASE LoopWakes(h, i)
      BY <2>1 DEF LoopWakes, LoopAt
    <2>2. CASE LoopChecks(h, i)
      <3>1. CASE IsLeader(h)
        <4>1. grant[h].epoch # 0
          BY <3>1 DEF IsLeader, Grants
        <4> QED
          BY <2>2, <3>1, <4>1 DEF LoopChecks, LoopAt, Capture
      <3>2. CASE ~IsLeader(h)
        BY <2>2, <3>2 DEF LoopChecks, LoopAt
      <3> QED
        BY <3>1, <3>2
    <2>3. CASE StartRenew(h, i)
      <3>1. /\ LeaseRequest(h, "renew", i, grant[h].epoch).kind = "renew"
            /\ LeaseRequest(h, "renew", i, grant[h].epoch).by = i
        BY DEF LeaseRequest, NoCall
      <3>2. IsLeader(h) => grant[h].epoch # 0
        BY DEF IsLeader, Grants
      <3> QED
        BY <2>3, <3>1, <3>2 DEF StartRenew, LoopAt, Forget
    <2>4. CASE RenewInstalls(h, i)
      BY <2>4 DEF RenewInstalls, LoopAt, Hang, Forget, NoCall, Installable
    <2>5. CASE RenewFails(h, i)
      BY <2>5 DEF RenewFails, LoopAt, Hang, InvalidateIfFresh, DropGrant, NoCall, NoGrant
    <2>6. CASE FailClosed(h, i)
      BY <2>6 DEF FailClosed, LoopAt, DropGrant, NoGrant
    <2> QED
      BY <1>13, <2>1, <2>2, <2>3, <2>4, <2>5, <2>6 DEF LoopStep
  <1> QED
    BY <1>1, <1>2, <1>3, <1>4, <1>5, <1>6, <1>7, <1>8, <1>9, <1>10, <1>11,
       <1>12, <1>13 DEF HubStep

\* Being served or answered does not change whose call it is.
LEMMA CallKeepsKind ==
  ASSUME TypeOK, NEW g \in Hubs, Serve(g) \/ Answer(g)
  PROVE  \A h \in Hubs :
           call'[h].kind = call[h].kind /\ call'[h].by = call[h].by
  <1>1. CASE Serve(g)
    <2> DEFINE accepted == Accepted(witness, call[g].kind, g, call[g].epoch)
               after == Applied(witness, call[g].kind, g, call[g].epoch)
    <2>1. after \in Leases /\ accepted \in BOOLEAN /\ call[g] \in Calls
      BY AppliedType DEF TypeOK, Accepted
    <2>2. call' = [call EXCEPT ![g] = Served(call[g], accepted, after)]
      BY <1>1 DEF Serve
    <2> HIDE DEF accepted, after
    <2>3. /\ Served(call[g], accepted, after).kind = call[g].kind
          /\ Served(call[g], accepted, after).by = call[g].by
      BY <2>1, ServedFields
    <2> QED
      BY <2>2, <2>3 DEF TypeOK
  <1>2. CASE Answer(g)
    BY <1>2, AnsweredFields DEF Answer, TypeOK
  <1> QED
    BY <1>1, <1>2

LEMMA ControlStep ==
  ASSUME TypeOK, [Next]_vars, NEW h \in Hubs, ControlOK(h)
  PROVE  ControlOK(h)'
  <1>1. CASE UNCHANGED <<sup, loop, call, grant, fresh>>
    BY <1>1 DEF ControlOK
  <1>2. CASE Tick \/ ServeLate \/ UNCHANGED vars
    BY <1>1, <1>2 DEF Tick, ServeLate, vars, supVars
  <1>3. ASSUME NEW g \in Hubs, SetWallClock(g) \/ ChangeSession(g) PROVE ControlOK(h)'
    BY <1>1, <1>3 DEF SetWallClock, ChangeSession, supVars
  <1>4. ASSUME NEW g \in Hubs, Serve(g) \/ Answer(g) PROVE ControlOK(h)'
    <2>1. UNCHANGED <<sup, loop, grant, fresh>>
      BY <1>4 DEF Serve, Answer, supVars
    <2>2. call'[h].kind = call[h].kind /\ call'[h].by = call[h].by
      BY <1>4, CallKeepsKind
    <2> QED
      BY <2>1, <2>2 DEF ControlOK
  <1>5. ASSUME NEW g \in Hubs, HubStep(g) PROVE ControlOK(h)'
    BY <1>5, OtherHub, ControlFrame, ControlHubStep
  <1> QED
    BY <1>2, <1>3, <1>4, <1>5 DEF Next

-----------------------------------------------------------------------------
(* The grant and the call of a Hub.                                        *)

\* A grant stays, goes, or becomes what the witness just offered.
LEMMA GrantMoves ==
  ASSUME TypeOK, [Next]_vars, NEW h \in Hubs, ControlOK(h)
  PROVE  \/ grant'[h] = grant[h]
         \/ grant'[h] = NoGrant
         \/ /\ grant'[h] = Offered(h) /\ call[h].ok
            /\ call[h].stage = "answered" /\ call[h].kind \in {"acquire", "renew"}
            /\ UNCHANGED <<now, skew, witness>>
  <1>1. CASE Tick \/ ServeLate \/ UNCHANGED vars
    BY <1>1 DEF Tick, ServeLate, vars
  <1>2. ASSUME NEW g \in Hubs,
               SetWallClock(g) \/ ChangeSession(g) \/ Serve(g) \/ Answer(g)
        PROVE  grant' = grant
    BY <1>2 DEF SetWallClock, ChangeSession, Serve, Answer
  <1>3. ASSUME NEW g \in Hubs, HubStep(g), g # h PROVE grant'[h] = grant[h]
    BY <1>3, OtherHub
  <1>4. CASE AcquireInstalls(h)
    BY <1>4 DEF AcquireInstalls, ControlOK, Installable, TypeOK, clockVars
  <1>5. ASSUME NEW i \in Loops, RenewInstalls(h, i)
        PROVE  /\ grant'[h] = Offered(h) /\ call[h].ok
               /\ call[h].stage = "answered" /\ call[h].kind = "renew"
               /\ UNCHANGED <<now, skew, witness>>
    BY <1>5 DEF RenewInstalls, ControlOK, Installable, TypeOK, clockVars
  <1>6. CASE HubStep(h) /\ ~AcquireInstalls(h) /\ ~(\E i \in Loops : RenewInstalls(h, i))
    <2>1. grant' = grant \/ grant' = [grant EXCEPT ![h] = NoGrant]
      BY <1>6 DEF HubStep, LoopStep, Activate, StartAcquire, AcquireFails,
        ConfirmActivation, Release, StartRelease, ReleaseReturns, Demote,
        RequestClose, Close, Crash, Restart, LoopWakes, LoopChecks, StartRenew,
        RenewFails, FailClosed, DropGrant, InvalidateIfFresh
    <2> QED
      BY <2>1 DEF TypeOK
  <1> QED
    BY <1>1, <1>2, <1>3, <1>4, <1>5, <1>6 DEF Next

\* A grant is covered by the lease at the witness, or over.
LEMMA GrantStep ==
  ASSUME AuthorityInv, SafeEnvironment, [Next]_vars, NEW h \in Hubs
  PROVE  GrantOK(h)'
  <1> USE DEF AuthorityInv
  <1>1. CASE grant'[h] = NoGrant
    BY <1>1 DEF GrantOK, NoGrant
  <1>2. CASE grant'[h] = grant[h] /\ grant[h].epoch # 0
    <2>1. PICK g \in Grants : g = grant[h]
      BY DEF TypeOK
    <2>2. /\ g.epoch \in Nat \ {0} /\ g.at \in Nat /\ g.mono \in Int
          /\ g.wall \in Int /\ g.remaining \in Int /\ g.at + g.remaining \in Int
      BY <1>2, <2>1 DEF Grants
    <2>3. call[h].kind # "release"
      BY <1>2 DEF ControlOK
    <2>4. ReadingsOK(h, g) /\ Covered(h, g.epoch, g.at + g.remaining) /\ Owned(h, g.epoch)
      BY <1>2, <2>1 DEF GrantOK
    <2>5. Covered(h, g.epoch, g.at + g.remaining)'
      BY <2>2, <2>3, <2>4, CoveredStable
    <2>6. Owned(h, g.epoch)'
      BY <2>2, <2>4, OwnedStable
    <2>7. /\ g.at <= now'
          /\ h \notin SuspendHubs => g.mono = g.at
          /\ h \notin RollbackHubs => g.wall - g.at <= skew'[h]
      BY <2>2, <2>4, ReadingsStable
    <2> QED
      BY <1>2, <2>1, <2>5, <2>6, <2>7 DEF GrantOK, Covered, Owned, ReadingsOK
  <1>3. CASE /\ grant'[h] = Offered(h) /\ call[h].ok
             /\ call[h].stage = "answered" /\ call[h].kind \in {"acquire", "renew"}
             /\ UNCHANGED <<now, skew, witness>>
    <2>1. /\ ReadingsOK(h, call[h]) /\ Owned(h, call[h].epoch)
          /\ Covered(h, call[h].epoch, call[h].at + call[h].remaining)
      BY <1>3 DEF CallOK
    <2> QED
      BY <1>3, <2>1 DEF GrantOK, Offered, Covered, Owned, ReadingsOK
  <1>4. CASE grant'[h] = grant[h] /\ grant[h].epoch = 0
    BY <1>4 DEF GrantOK
  <1> QED
    BY <1>1, <1>2, <1>3, <1>4, GrantMoves

\* A call stays, ends, begins, is served or is answered.
LEMMA CallMoves ==
  ASSUME TypeOK, [Next]_vars, NEW h \in Hubs
  PROVE  \/ call'[h] = call[h]
         \/ call'[h] = NoCall
         \/ Serve(h)
         \/ Answer(h)
         \/ /\ UNCHANGED <<now, lag, skew>>
            /\ call'[h].kind # "none" /\ call'[h].stage = "sent"
            /\ call'[h].kind \in {"acquire", "renew"} =>
                 /\ call'[h].at = now /\ call'[h].mono = Mono(h)
                 /\ call'[h].wall = Wall(h)
  <1>1. CASE Tick \/ ServeLate \/ UNCHANGED vars
    BY <1>1 DEF Tick, ServeLate, vars
  <1>2. ASSUME NEW g \in Hubs, SetWallClock(g) \/ ChangeSession(g) PROVE call' = call
    BY <1>2 DEF SetWallClock, ChangeSession
  <1>3. ASSUME NEW g \in Hubs, g # h, Serve(g) \/ Answer(g) PROVE call'[h] = call[h]
    BY <1>3 DEF Serve, Answer, TypeOK
  <1>4. ASSUME NEW g \in Hubs, g # h, HubStep(g) PROVE call'[h] = call[h]
    BY <1>4, OtherHub
  <1>5. ASSUME NEW k, NEW a, NEW e
        PROVE  LET r == LeaseRequest(h, k, a, e) IN
               /\ r.kind = k /\ r.stage = "sent" /\ r.at = now
               /\ r.mono = Mono(h) /\ r.wall = Wall(h)
    BY DEF LeaseRequest, NoCall
  <1>6. ASSUME NEW e PROVE ReleaseRequest(e).kind = "release" /\ ReleaseRequest(e).stage = "sent"
    BY DEF ReleaseRequest, NoCall
  <1>7. CASE StartAcquire(h)
    BY <1>5, <1>7 DEF StartAcquire, TypeOK, clockVars
  <1>8. CASE StartRelease(h)
    BY <1>6, <1>8 DEF StartRelease, TypeOK, clockVars
  <1>9. ASSUME NEW i \in Loops, StartRenew(h, i)
        PROVE  \/ call'[h] = call[h]
               \/ /\ UNCHANGED <<now, lag, skew>>
                  /\ call'[h].kind # "none" /\ call'[h].stage = "sent"
                  /\ call'[h].at = now /\ call'[h].mono = Mono(h)
                  /\ call'[h].wall = Wall(h)
    BY <1>5, <1>9 DEF StartRenew, TypeOK, clockVars
  <1>10. CASE /\ HubStep(h) /\ ~StartAcquire(h) /\ ~StartRelease(h)
              /\ ~(\E i \in Loops : StartRenew(h, i))
    <2>1. call' = call \/ Hang(h)
      BY <1>10 DEF HubStep, LoopStep, Activate, AcquireInstalls, AcquireFails,
        ConfirmActivation, Release, ReleaseReturns, Demote, RequestClose, Close,
        Crash, Restart, LoopWakes, LoopChecks, RenewInstalls, RenewFails,
        FailClosed
    <2> QED
      BY <2>1 DEF Hang, TypeOK
  <1> QED
    BY <1>1, <1>2, <1>3, <1>4, <1>7, <1>8, <1>9, <1>10 DEF Next

\* A call that ended or has just begun carries no lease.
LEMMA CallBegins ==
  ASSUME TypeOK, ClocksOK, [Next]_vars, NEW h \in Hubs,
         \/ call'[h] = NoCall
         \/ /\ UNCHANGED <<now, lag, skew>>
            /\ call'[h].stage = "sent"
            /\ call'[h].kind \in {"acquire", "renew"} =>
                 /\ call'[h].at = now /\ call'[h].mono = Mono(h)
                 /\ call'[h].wall = Wall(h)
  PROVE  CallOK(h)'
  <1>1. CASE call'[h] = NoCall
    BY <1>1 DEF CallOK, NoCall
  <1>2. CASE call'[h] # NoCall
    <2>1. now \in Nat /\ lag[h] \in Nat /\ skew[h] \in Int
      BY DEF TypeOK
    <2> QED
      BY <1>2, <2>1 DEF CallOK, ReadingsOK, Mono, Wall, ClocksOK
  <1> QED
    BY <1>1, <1>2

\* A lease on its way to a Hub is covered by the lease at the witness, or over.
LEMMA CallStep ==
  ASSUME AuthorityInv, SafeEnvironment, [Next]_vars, NEW h \in Hubs
  PROVE  CallOK(h)'
  <1> USE DEF AuthorityInv
  <1>a. PICK c \in Calls : c = call[h]
    BY DEF TypeOK
  <1>b. /\ c.epoch \in Nat /\ c.at \in Nat /\ c.mono \in Int /\ c.wall \in Int
        /\ c.expires \in Int /\ c.remaining \in Int /\ c.at + c.remaining \in Int
        /\ c.ok \in BOOLEAN /\ c.stage \in {"sent", "served", "answered"}
    BY DEF Calls
  <1>c. CASE c.kind \in {"acquire", "renew"}
    <2>1. /\ ReadingsOK(h, c)
          /\ c.stage # "sent" /\ c.ok =>
               /\ c.epoch # 0
               /\ Owned(h, c.epoch)
               /\ c.stage = "served" => Covered(h, c.epoch, c.expires)
               /\ c.stage = "answered" => Covered(h, c.epoch, c.at + c.remaining)
      BY <1>a, <1>c DEF CallOK
    <2>2. /\ c.at <= now'
          /\ h \notin SuspendHubs => c.mono = c.at
          /\ h \notin RollbackHubs => c.wall - c.at <= skew'[h]
      BY <1>b, <2>1, ReadingsStable
    <2>3. c.kind # "release"
      BY <1>c
    <2>4. CASE call'[h] = c
      <3>1. c.stage # "sent" /\ c.ok => Owned(h, c.epoch)'
        BY <1>b, <2>1, OwnedStable
      <3>2. c.stage = "served" /\ c.ok => Covered(h, c.epoch, c.expires)'
        BY <1>a, <1>b, <2>1, <2>3, CoveredStable
      <3>3. c.stage = "answered" /\ c.ok => Covered(h, c.epoch, c.at + c.remaining)'
        BY <1>a, <1>b, <2>1, <2>3, CoveredStable
      <3> QED
        BY <1>b, <2>1, <2>2, <2>4, <3>1, <3>2, <3>3
        DEF CallOK, Covered, Owned, ReadingsOK
    <2>5. CASE Serve(h)
      <3> DEFINE accepted == Accepted(witness, c.kind, h, c.epoch)
                 after == Applied(witness, c.kind, h, c.epoch)
      <3>1. after \in Leases /\ accepted \in BOOLEAN
        BY AppliedType DEF TypeOK, Accepted
      <3>2. call'[h] = Served(c, accepted, after) /\ witness' = after
        BY <1>a, <2>5 DEF Serve, TypeOK
      <3>3. accepted => after.holder = h /\ after.epoch # 0
        <4>1. witness \in Leases /\ h # NoHub
          BY HALeaseAssumption DEF TypeOK
        <4>2. CASE c.kind = "acquire"
          BY <4>1, <4>2 DEF Accepted, Applied, AcquireOK, Acquired, ActiveAt, Leases
        <4>3. CASE c.kind = "renew"
          BY <4>1, <4>3 DEF Accepted, Applied, RenewOK, Renewed, Holds, Leases
        <4> QED
          BY <1>c, <4>2, <4>3
      <3> HIDE DEF accepted, after
      <3>4. PICK s \in Calls : s = Served(c, accepted, after)
        BY <3>1, ServedType
      <3>5. /\ s.at = c.at /\ s.mono = c.mono /\ s.wall = c.wall
            /\ s.stage = "served" /\ s.ok = accepted
            /\ accepted => s.epoch = after.epoch /\ s.expires = after.expires
        BY <3>1, <3>4, ServedFields
      <3>6. after.epoch \in Nat /\ after.expires \in Nat
        BY <3>1 DEF Leases
      <3> QED
        BY <2>2, <3>2, <3>3, <3>4, <3>5, <3>6 DEF CallOK, Covered, Owned, ReadingsOK
    <2>6. CASE Answer(h)
      <3>1. call'[h] = Answered(c) /\ UNCHANGED <<now, witness>> /\ c.stage = "served"
        BY <1>a, <2>6 DEF Answer, TypeOK, clockVars
      <3>2. PICK s \in Calls : s = Answered(c)
        BY AnsweredType DEF TypeOK
      <3>3. /\ s.at = c.at /\ s.mono = c.mono /\ s.wall = c.wall
            /\ s.stage = "answered" /\ s.ok = c.ok /\ s.epoch = c.epoch
            /\ c.ok => s.remaining = c.expires - now
        BY <3>2, AnsweredFields
      <3>4. c.ok => Covered(h, c.epoch, c.expires) /\ Owned(h, c.epoch) /\ c.epoch # 0
        BY <2>1, <3>1
      <3>5. c.ok => Covered(h, c.epoch, s.at + s.remaining)
        <4>1. now \in Nat /\ c.at <= now /\ witness.expires \in Nat
          BY <2>1 DEF TypeOK, ReadingsOK, Leases
        <4> QED
          BY <1>b, <3>3, <3>4, <4>1 DEF Covered
      <3> QED
        BY <2>2, <3>1, <3>2, <3>3, <3>4, <3>5 DEF CallOK, Covered, Owned, ReadingsOK
    <2> QED
      BY <1>a, <1>c, <2>4, <2>5, <2>6, CallMoves, CallBegins
  <1>d. CASE c.kind \notin {"acquire", "renew"}
    <2>1. call'[h] = c => CallOK(h)'
      BY <1>d DEF CallOK
    <2>2. Serve(h) \/ Answer(h) => call'[h].kind = c.kind
      BY <1>a, CallKeepsKind DEF TypeOK
    <2> QED
      BY <1>a, <1>d, <2>1, <2>2, CallMoves, CallBegins DEF CallOK
  <1> QED
    BY <1>c, <1>d
-----------------------------------------------------------------------------
(* The inductive invariant and what follows from it.                       *)

LEMMA InvInit == Init => AuthorityInv
  <1> SUFFICES ASSUME Init PROVE AuthorityInv
    OBVIOUS
  <1>1. TypeOK
    BY TypeInit
  <1>2. ClocksOK /\ WitnessOK /\ LateOK
    BY HALeaseAssumption DEF Init, ClocksOK, WitnessOK, LateOK, FreshLease
  <1>3. ASSUME NEW h \in Hubs PROVE GrantOK(h) /\ CallOK(h) /\ ControlOK(h)
    BY HAAuthorityAssumption
    DEF Init, GrantOK, CallOK, ControlOK, NoGrant, NoCall
  <1> QED
    BY <1>1, <1>2, <1>3 DEF AuthorityInv

LEMMA InvStep ==
  ASSUME SafeEnvironment
  PROVE  AuthorityInv /\ [Next]_vars => AuthorityInv'
  <1> SUFFICES ASSUME AuthorityInv, [Next]_vars PROVE AuthorityInv'
    OBVIOUS
  <1>1. TypeOK /\ ClocksOK /\ WitnessOK /\ LateOK
    BY DEF AuthorityInv
  <1>2. TypeOK' /\ ClocksOK' /\ WitnessOK' /\ LateOK'
    BY <1>1, TypeStep, ClocksStep, WitnessStep, LateStep
  <1>3. ASSUME NEW h \in Hubs PROVE GrantOK(h)' /\ CallOK(h)' /\ ControlOK(h)'
    <2>1. ControlOK(h)
      BY DEF AuthorityInv
    <2> QED
      BY <1>1, <2>1, GrantStep, CallStep, ControlStep
  <1> QED
    BY <1>2, <1>3 DEF AuthorityInv

\* A grant that still looks safe to its Hub is covered by the witness: of the
\* two clocks the Hub reads, the one that is right keeps it honest.
LEMMA LeaderIsCovered ==
  ASSUME AuthorityInv, SafeEnvironment, NEW h \in Hubs, IsLeader(h)
  PROVE  /\ witness.holder = h
         /\ witness.epoch = grant[h].epoch
         /\ now < witness.expires
  <1>1. PICK g \in Grants : g = grant[h]
    BY DEF AuthorityInv, TypeOK
  <1>2. /\ g.epoch > 0
        /\ Mono(h) - g.mono < g.remaining
        /\ Wall(h) - g.wall < g.remaining
    BY <1>1 DEF IsLeader, StillSafe
  <1>3. /\ g.at \in Nat /\ g.mono \in Int /\ g.wall \in Int
        /\ g.remaining \in Int /\ g.epoch \in 0..MaxEpoch
        /\ now \in Nat /\ lag[h] \in Nat /\ skew[h] \in Int
        /\ witness.expires \in Nat
    BY HALeaseAssumption DEF AuthorityInv, TypeOK, Grants, Leases
  <1>4. ReadingsOK(h, g) /\ Covered(h, g.epoch, g.at + g.remaining)
    BY <1>1, <1>2, <1>3, HALeaseAssumption DEF AuthorityInv, GrantOK
  <1>5. g.at + g.remaining > now
    <2>1. CASE h \notin SuspendHubs
      BY <1>2, <1>3, <1>4, <2>1 DEF AuthorityInv, ClocksOK, ReadingsOK, Mono
    <2>2. CASE h \notin RollbackHubs
      BY <1>2, <1>3, <1>4, <2>2 DEF ReadingsOK, Wall
    <2> QED
      BY <2>1, <2>2 DEF SafeEnvironment
  <1> QED
    BY <1>1, <1>3, <1>4, <1>5 DEF Covered

\* Whatever another Hub keeps in its grant, the LEADER's epoch is higher.
LEMMA LeaderIsNewest ==
  ASSUME AuthorityInv, SafeEnvironment,
         NEW h1 \in Hubs, NEW h2 \in Hubs, IsLeader(h1), h1 # h2
  PROVE  grant[h2].epoch < grant[h1].epoch
  <1>1. /\ witness.holder = h1
        /\ witness.epoch = grant[h1].epoch
    BY LeaderIsCovered
  <1>2. /\ grant[h1].epoch \in 0..MaxEpoch
        /\ grant[h2].epoch \in 0..MaxEpoch
    BY DEF AuthorityInv, TypeOK, Grants
  <1>3. grant[h1].epoch > 0
    BY DEF IsLeader
  <1>4. CASE grant[h2].epoch = 0
    BY <1>3, <1>4
  <1>5. CASE grant[h2].epoch # 0
    <2>1. Owned(h2, grant[h2].epoch)
      BY <1>5 DEF AuthorityInv, GrantOK
    <2> QED
      BY <1>1, <1>2, <2>1, HALeaseAssumption DEF Owned
  <1> QED
    BY <1>4, <1>5

LEMMA InvImpliesSafety ==
  ASSUME SafeEnvironment
  PROVE  AuthorityInv =>
           LeaderHoldsLease /\ AtMostOneLeader /\ LeaderHasHighestEpoch
  <1> SUFFICES ASSUME AuthorityInv
               PROVE  LeaderHoldsLease /\ AtMostOneLeader /\ LeaderHasHighestEpoch
    OBVIOUS
  <1>1. LeaderHoldsLease
    BY LeaderIsCovered DEF LeaderHoldsLease
  <1>2. AtMostOneLeader
    BY <1>1 DEF LeaderHoldsLease, AtMostOneLeader
  <1>3. LeaderHasHighestEpoch
    BY LeaderIsNewest DEF LeaderHasHighestEpoch
  <1> QED
    BY <1>1, <1>2, <1>3

\* While a Hub's two clocks do not both go wrong and no abandoned release is
\* served later, the strengthened invariant holds in every reachable state of
\* Hubs, witness and network (Controller, Supervisor, Client, halease.Service).
THEOREM AuthorityIsInvariant ==
  ASSUME SafeEnvironment
  PROVE  Spec => []AuthorityInv
  BY InvInit, InvStep, PTL DEF Spec

\* Under the same assumption a Hub that answers LEADER holds, at the witness,
\* the unexpired lease of the epoch in its grant (ConservativeDeadline,
\* grantStillSafe), for any number of Hubs and any lease duration.
THEOREM LeaseIsHeld ==
  ASSUME SafeEnvironment
  PROVE  Spec => []LeaderHoldsLease
  BY AuthorityIsInvariant, InvImpliesSafety, PTL

\* Under the same assumption no two Hubs answer LEADER at once.
THEOREM LeaderIsUnique ==
  ASSUME SafeEnvironment
  PROVE  Spec => []AtMostOneLeader
  BY AuthorityIsInvariant, InvImpliesSafety, PTL

\* Under the same assumption the LEADER's fencing epoch is above every epoch
\* another Hub still keeps, safe or not.
THEOREM LeaderIsNewestAlways ==
  ASSUME SafeEnvironment
  PROVE  Spec => []LeaderHasHighestEpoch
  BY AuthorityIsInvariant, InvImpliesSafety, PTL

-----------------------------------------------------------------------------
(* Renewal, and who may promote a Hub.                                     *)

\* A Hub with a grant, or with a renewal that may still install one, has a
\* renewal loop or is about to start it; and such a renewal asked for the epoch
\* that the Hub has.
RenewalOK(h) ==
  /\ grant[h].epoch # 0 \/ fresh[h] \cap Loops # {} =>
       sup[h].pc = "installed" \/ current[h] # NoLoop
  /\ call[h].kind = "renew" /\ call[h].by \in fresh[h] => call[h].epoch = grant[h].epoch

RenewalInv == TypeOK /\ \A h \in Hubs : ControlOK(h) /\ RenewalOK(h)

LEMMA RenewalFrame ==
  ASSUME NEW h \in Hubs, RenewalOK(h),
         sup'[h] = sup[h], current'[h] = current[h], call'[h] = call[h],
         grant'[h] = grant[h], fresh'[h] = fresh[h]
  PROVE  RenewalOK(h)'
  BY DEF RenewalOK

LEMMA RenewalDrop ==
  ASSUME TypeOK, NEW h \in Hubs, DropGrant(h)
  PROVE  RenewalOK(h)'
  BY DEF RenewalOK, TypeOK, DropGrant, NoGrant

LEMMA OtherHubsLoop ==
  ASSUME TypeOK, NEW g \in Hubs, HubStep(g), NEW h \in Hubs, h # g
  PROVE  current'[h] = current[h]
<1> USE DEF TypeOK, StopRenewal, supVars
<1>1. CASE Activate(g) \/ StartAcquire(g) \/ AcquireInstalls(g) \/ AcquireFails(g)
  BY <1>1 DEF Activate, StartAcquire, AcquireInstalls, AcquireFails
<1>2. CASE ConfirmActivation(g)
  BY <1>2 DEF ConfirmActivation
<1>3. CASE Release(g) \/ StartRelease(g) \/ ReleaseReturns(g)
  BY <1>3 DEF Release, StartRelease, ReleaseReturns
<1>4. CASE Demote(g) \/ RequestClose(g) \/ Close(g) \/ Crash(g) \/ Restart(g)
  BY <1>4 DEF Demote, RequestClose, Close, Crash, Restart
<1>5. ASSUME NEW i \in Loops, LoopStep(g, i) PROVE current'[h] = current[h]
  BY <1>5 DEF LoopStep, LoopWakes, LoopChecks, StartRenew, RenewInstalls, RenewFails, FailClosed
<1> QED
  BY <1>1, <1>2, <1>3, <1>4, <1>5 DEF HubStep

\* The witness answers a renewal with the epoch that it was asked for.
LEMMA CallKeepsEpoch ==
  ASSUME TypeOK, NEW g \in Hubs, Serve(g) \/ Answer(g), NEW h \in Hubs, call[h].kind = "renew"
  PROVE  call'[h].epoch = call[h].epoch
<1>1. CASE Serve(g) /\ h = g
  <2> DEFINE accepted == Accepted(witness, call[g].kind, g, call[g].epoch)
             after == Applied(witness, call[g].kind, g, call[g].epoch)
  <2>1. after \in Leases /\ accepted \in BOOLEAN /\ call[g] \in Calls
    BY AppliedType DEF TypeOK, Accepted
  <2>2. call' = [call EXCEPT ![g] = Served(call[g], accepted, after)]
    BY <1>1 DEF Serve
  <2>3. accepted => after.epoch = call[g].epoch
    BY <1>1 DEF Accepted, Applied, RenewOK, Holds, Renewed, TypeOK, Leases
  <2> HIDE DEF accepted, after
  <2>4. Served(call[g], accepted, after).epoch = call[g].epoch
    BY <2>1, <2>3 DEF Served, Calls
  <2> QED
    BY <1>1, <2>2, <2>4 DEF TypeOK
<1>2. CASE Serve(g) /\ h # g
  BY <1>2 DEF Serve, TypeOK
<1>3. CASE Answer(g)
  BY <1>3, AnsweredFields DEF Answer, TypeOK
<1> QED
  BY <1>1, <1>2, <1>3

LEMMA RenewalHubStep ==
  ASSUME TypeOK, NEW h \in Hubs, ControlOK(h), RenewalOK(h), HubStep(h)
  PROVE  RenewalOK(h)'
<1> USE DEF TypeOK, RenewalOK
<1>1. CASE Activate(h)
  BY <1>1, HAAuthorityAssumption DEF Activate, SupAt, Capture, ControlOK
<1>2. CASE StartAcquire(h)
  <2>1. LeaseRequest(h, "acquire", Supervision, 0).kind = "acquire"
    BY DEF LeaseRequest, NoCall
  <2> QED
    BY <1>2, <2>1 DEF StartAcquire, SupAt
<1>3. CASE AcquireInstalls(h)
  BY <1>3 DEF AcquireInstalls, SupAt, Hang, NoCall
<1>4. CASE AcquireFails(h)
  BY <1>4, RenewalDrop DEF AcquireFails, SupAt, Hang, NoCall, InvalidateIfFresh
<1>5. CASE ConfirmActivation(h)
  <2>1. CASE DropGrant(h)
    BY <2>1, RenewalDrop
  <2>2. CASE \E i \in Loops : current' = [current EXCEPT ![h] = i] /\ UNCHANGED <<grant, fresh>>
    BY <1>5, <2>2, HAAuthorityAssumption DEF ConfirmActivation
  <2> QED
    BY <1>5, <2>1, <2>2 DEF ConfirmActivation
<1>6. CASE Release(h) \/ Demote(h) \/ Close(h) \/ Crash(h)
  BY <1>6, RenewalDrop DEF Release, Demote, Close, Crash
<1>7. CASE StartRelease(h)
  <2>1. ReleaseRequest(sup[h].epoch).kind = "release"
    BY DEF ReleaseRequest, NoCall
  <2> QED
    BY <1>7, <2>1 DEF StartRelease, SupAt
<1>8. CASE ReleaseReturns(h)
  BY <1>8 DEF ReleaseReturns, SupAt, Hang, NoCall
<1>9. CASE RequestClose(h) \/ Restart(h)
  BY <1>9 DEF RequestClose, Restart, supVars
<1>10. ASSUME NEW i \in Loops, LoopStep(h, i) PROVE RenewalOK(h)'
  <2>1. CASE LoopWakes(h, i)
    BY <2>1 DEF LoopWakes
  <2>2. CASE LoopChecks(h, i)
    <3>1. IsLeader(h) => grant[h].epoch # 0
      BY DEF IsLeader, Grants
    <3>2. call[h].kind = "renew" => call[h].by # i
      BY <2>2 DEF LoopChecks, ControlOK
    <3> QED
      BY <2>2, <3>1, <3>2 DEF LoopChecks, Capture
  <2>3. CASE StartRenew(h, i)
    <3>1. LeaseRequest(h, "renew", i, grant[h].epoch).epoch = grant[h].epoch
      BY DEF LeaseRequest, NoCall
    <3> QED
      BY <2>3, <3>1 DEF StartRenew, Forget
  <2>4. CASE RenewInstalls(h, i)
    <3>1. call[h].by = i /\ i \in fresh[h]
      BY <2>4 DEF RenewInstalls, Installable, ControlOK
    <3> QED
      BY <2>4, <3>1 DEF RenewInstalls, Hang, NoCall, Forget
  <2>5. CASE RenewFails(h, i)
    BY <2>5, RenewalDrop DEF RenewFails, InvalidateIfFresh, Hang, NoCall
  <2>6. CASE FailClosed(h, i)
    BY <2>6, RenewalDrop DEF FailClosed
  <2> QED
    BY <1>10, <2>1, <2>2, <2>3, <2>4, <2>5, <2>6 DEF LoopStep
<1> QED
  BY <1>1, <1>2, <1>3, <1>4, <1>5, <1>6, <1>7, <1>8, <1>9, <1>10 DEF HubStep

LEMMA RenewalStep ==
  ASSUME TypeOK, [Next]_vars, NEW h \in Hubs, ControlOK(h), RenewalOK(h)
  PROVE  RenewalOK(h)'
<1>1. CASE UNCHANGED <<sup, current, call, grant, fresh>>
  BY <1>1, RenewalFrame
<1>2. CASE Tick \/ ServeLate \/ UNCHANGED vars
  BY <1>1, <1>2 DEF Tick, ServeLate, vars, supVars
<1>3. ASSUME NEW g \in Hubs, SetWallClock(g) \/ ChangeSession(g) PROVE RenewalOK(h)'
  BY <1>1, <1>3 DEF SetWallClock, ChangeSession, supVars
<1>4. ASSUME NEW g \in Hubs, Serve(g) \/ Answer(g) PROVE RenewalOK(h)'
  <2>1. UNCHANGED <<sup, current, grant, fresh>>
    BY <1>4 DEF Serve, Answer, supVars
  <2>2. call'[h].kind = call[h].kind /\ call'[h].by = call[h].by
    BY <1>4, CallKeepsKind
  <2>3. call[h].kind = "renew" => call'[h].epoch = call[h].epoch
    BY <1>4, CallKeepsEpoch
  <2> QED
    BY <2>1, <2>2, <2>3 DEF RenewalOK
<1>5. ASSUME NEW g \in Hubs, HubStep(g), g # h PROVE RenewalOK(h)'
  BY <1>5, OtherHub, OtherHubsLoop, RenewalFrame
<1>6. CASE HubStep(h)
  BY <1>6, RenewalHubStep
<1> QED
  BY <1>2, <1>3, <1>4, <1>5, <1>6 DEF Next

LEMMA RenewalIsInvariant == Spec => []RenewalInv
<1>1. Init => RenewalInv
  <2> SUFFICES ASSUME Init PROVE RenewalInv
    OBVIOUS
  <2>1. TypeOK
    BY TypeInit
  <2>2. ASSUME NEW h \in Hubs PROVE ControlOK(h) /\ RenewalOK(h)
    BY DEF Init, ControlOK, RenewalOK, NoGrant, NoCall
  <2> QED
    BY <2>1, <2>2 DEF RenewalInv
<1>2. RenewalInv /\ [Next]_vars => RenewalInv'
  BY TypeStep, ControlStep, RenewalStep DEF RenewalInv
<1> QED
  BY <1>1, <1>2, PTL DEF Spec

\* A Hub that leads has a renewal loop of its current generation, or is about to
\* start it, whatever fails and whatever its clocks do (startRenewalLocked,
\* failClosedGeneration).
THEOREM LeaderIsRenewed == Spec => []LeaderHasRenewal
<1>1. RenewalInv => LeaderHasRenewal
  BY DEF RenewalInv, RenewalOK, LeaderHasRenewal, IsLeader, TypeOK, Grants
<1> QED
  BY <1>1, RenewalIsInvariant, PTL

\* A grant appears or gets another epoch by an operator's Activate alone, whatever
\* was under way when the Hub demoted, released, closed or crashed (install and
\* its generation).
THEOREM PromotionExplicit == Spec => PromotionIsExplicit
<1>1. ASSUME RenewalInv, [Next]_vars, NEW h \in Hubs
      PROVE  grant'[h].epoch \notin {0, grant[h].epoch} => sup[h].pc = "acquiring"
  <2>1. TypeOK /\ ControlOK(h) /\ RenewalOK(h)
    BY <1>1 DEF RenewalInv
  <2>2. CASE grant'[h] \in {grant[h], NoGrant}
    BY <2>2 DEF NoGrant
  <2>3. CASE HubStep(h)
    <3>1. CASE AcquireInstalls(h)
      BY <3>1 DEF AcquireInstalls
    <3>2. ASSUME NEW i \in Loops, RenewInstalls(h, i) PROVE grant'[h].epoch = grant[h].epoch
      <4>1. call[h].kind = "renew" /\ call[h].by = i /\ i \in fresh[h]
        BY <2>1, <3>2 DEF RenewInstalls, Installable, ControlOK
      <4> QED
        BY <2>1, <3>2, <4>1 DEF RenewInstalls, RenewalOK, Offered, TypeOK
    <3>3. CASE ~AcquireInstalls(h) /\ ~(\E i \in Loops : RenewInstalls(h, i))
      <4>1. grant' = grant \/ grant' = [grant EXCEPT ![h] = NoGrant]
        BY <2>3, <3>3 DEF HubStep, LoopStep, Activate, StartAcquire, AcquireFails,
          ConfirmActivation, Release, StartRelease, ReleaseReturns, Demote,
          RequestClose, Close, Crash, Restart, LoopWakes, LoopChecks, StartRenew,
          RenewFails, FailClosed, DropGrant, InvalidateIfFresh
      <4> QED
        BY <2>1, <2>2, <4>1 DEF TypeOK
    <3> QED
      BY <3>1, <3>2, <3>3
  <2>4. ASSUME NEW g \in Hubs, HubStep(g), g # h PROVE grant'[h] = grant[h]
    BY <2>1, <2>4, OtherHub
  <2>5. CASE \/ Tick \/ ServeLate \/ UNCHANGED vars
             \/ \E g \in Hubs : SetWallClock(g) \/ ChangeSession(g) \/ Serve(g) \/ Answer(g)
    BY <2>2, <2>5 DEF Tick, ServeLate, vars, SetWallClock, ChangeSession, Serve, Answer
  <2> QED
    BY <1>1, <2>2, <2>3, <2>4, <2>5 DEF Next
<1>2. RenewalInv /\ [Next]_vars =>
        [\A h \in Hubs :
           grant'[h].epoch \notin {0, grant[h].epoch} => sup[h].pc = "acquiring"]_vars
  BY <1>1
<1> QED
  BY <1>2, RenewalIsInvariant, PTL DEF Spec, PromotionIsExplicit

-----------------------------------------------------------------------------
(* The system implements the abstract authority.                           *)

\* Who leads, as the refinement mapping of HAAuthority sees it.
Leader == IF \E h \in Hubs : IsLeader(h) THEN CHOOSE h \in Hubs : IsLeader(h) ELSE NoHub

LEMMA LeaderOwns ==
  ASSUME LeaderHoldsLease
  PROVE  /\ Leader \in {NoHub, witness.holder}
         /\ Leader # NoHub => Leader \in Hubs /\ IsLeader(Leader)
  BY HALeaseAssumption DEF Leader, LeaderHoldsLease

LEMMA LeaderStays ==
  ASSUME UNCHANGED <<grant, now, lag, skew>>
  PROVE  Leader' = Leader /\ \A h \in Hubs : IsLeader(h)' <=> IsLeader(h)
<1>1. \A h \in Hubs : IsLeader(h)' <=> IsLeader(h)
  BY DEF IsLeader, StillSafe, Mono, Wall
<1> QED
  BY <1>1 DEF Leader

\* The witness grants the next epoch, or clears the last one, or extends it.
LEMMA WitnessGrants ==
  ASSUME TypeOK, [Next]_vars
  PROVE  \/ witness'.holder = witness.holder /\ witness'.epoch = witness.epoch
         \/ /\ UNCHANGED <<grant, now, lag, skew>>
            /\ \/ witness'.holder \in Hubs /\ witness'.epoch = witness.epoch + 1
               \/ witness'.holder = NoHub /\ witness'.epoch = witness.epoch
<1>1. ASSUME NEW k, NEW h \in Hubs, NEW e, witness' = Applied(witness, k, h, e)
      PROVE  \/ witness'.holder = witness.holder /\ witness'.epoch = witness.epoch
             \/ witness'.holder \in Hubs /\ witness'.epoch = witness.epoch + 1
             \/ witness'.holder = NoHub /\ witness'.epoch = witness.epoch
  BY <1>1 DEF TypeOK, Leases, Applied, Acquired, Renewed, Released
<1>2. ASSUME NEW g \in Hubs, Serve(g)
      PROVE  /\ UNCHANGED <<grant, now, lag, skew>>
             /\ witness' = Applied(witness, call[g].kind, g, call[g].epoch)
  BY <1>2 DEF Serve, clockVars
<1>3. CASE ServeLate
  <2>1. PICK r \in late : witness' \in {witness, Applied(witness, r.kind, r.hub, r.epoch)}
    BY <1>3 DEF ServeLate
  <2>2. r.hub \in Hubs
    BY DEF TypeOK
  <2> QED
    BY <1>1, <1>3, <2>1, <2>2 DEF ServeLate, clockVars
<1>4. CASE ~ServeLate /\ ~(\E g \in Hubs : Serve(g))
  <2>1. witness' = witness
    BY <1>4 DEF Next, Tick, SetWallClock, ChangeSession, Answer, HubStep, LoopStep, Activate,
      StartAcquire, AcquireInstalls, AcquireFails, ConfirmActivation, Release, StartRelease,
      ReleaseReturns, Demote, RequestClose, Close, Crash, Restart, LoopWakes, LoopChecks,
      StartRenew, RenewInstalls, RenewFails, FailClosed, vars
  <2> QED
    BY <2>1
<1> QED
  BY <1>1, <1>2, <1>3, <1>4

LEMMA AuthorityStep ==
  ASSUME LeaderHoldsLease, LeaderHoldsLease', TypeOK, TypeOK', [Next]_vars
  PROVE  [Authority!Next]_(Authority!vars)
<1>1. /\ Leader \in {NoHub, witness.holder}
      /\ Leader' \in {NoHub, witness'.holder}
      /\ Leader # NoHub => Leader \in Hubs
      /\ Leader' # NoHub => Leader' \in Hubs
  <2>1. /\ Leader' \in {NoHub, witness'.holder}
        /\ Leader' # NoHub => Leader' \in Hubs
    BY HALeaseAssumption DEF Leader, LeaderHoldsLease
  <2> QED
    BY <2>1, LeaderOwns
<1>2. CASE witness'.holder = witness.holder /\ witness'.epoch = witness.epoch
  <2>1. CASE Leader' = Leader
    BY <1>2, <2>1 DEF Authority!vars, Leader
  <2>2. CASE Leader' = NoHub
    BY <1>2, <2>2 DEF Authority!Next, Authority!StandDown, Leader
  <2>3. CASE Leader = NoHub /\ Leader' = witness.holder /\ Leader' \in Hubs
    <3>1. Authority!Lead(witness.holder)
      BY <1>2, <2>3 DEF Authority!Lead, Leader
    <3> QED
      BY <2>3, <3>1 DEF Authority!Next
  <2> QED
    BY <1>1, <1>2, <2>1, <2>2, <2>3
<1>3. CASE UNCHANGED <<grant, now, lag, skew>>
           /\ ~(witness'.holder = witness.holder /\ witness'.epoch = witness.epoch)
  <2>1. Leader' = Leader /\ \A h \in Hubs : IsLeader(h)' <=> IsLeader(h)
    BY <1>3, LeaderStays
  <2>2. \A h \in Hubs : ~IsLeader(h)
    BY <1>3, <2>1 DEF LeaderHoldsLease
  <2>3. Leader = NoHub /\ Leader' = NoHub
    BY <2>1, <2>2 DEF Leader
  <2>4. CASE witness'.holder \in Hubs /\ witness'.epoch = witness.epoch + 1
    <3>1. Authority!Grant(witness'.holder)
      BY <2>3, <2>4 DEF Authority!Grant, Leader
    <3> QED
      BY <2>4, <3>1 DEF Authority!Next
  <2>5. CASE witness'.holder = NoHub /\ witness'.epoch = witness.epoch
    BY <2>3, <2>5 DEF Authority!Next, Authority!GiveUp, Leader
  <2> QED
    BY <1>3, <2>4, <2>5, WitnessGrants
<1> QED
  BY <1>2, <1>3, WitnessGrants

\* While a Hub's two clocks do not both go wrong and no abandoned release is
\* served later, the system is a fenced authority: a new epoch is granted, and the
\* last one given up, only while nobody leads, and only the owner of the last
\* epoch leads (Controller.Current, halease.Service).
THEOREM FencedAuthorityImplemented ==
  ASSUME SafeEnvironment
  PROVE  Spec => ImplementsFencedAuthority
<1>1. Init => Authority!Init
  <2> SUFFICES ASSUME Init PROVE Authority!Init
    OBVIOUS
  <2>1. \A h \in Hubs : grant[h].epoch = 0
    BY DEF Init, NoGrant
  <2>2. ASSUME NEW h \in Hubs PROVE ~IsLeader(h)
    <3>1. ~(grant[h].epoch > 0)
      BY <2>1
    <3> QED
      BY <3>1 DEF IsLeader
  <2> QED
    BY <2>2 DEF Init, FreshLease, Authority!Init
<1>2. AuthorityInv /\ AuthorityInv' /\ [Next]_vars => [Authority!Next]_(Authority!vars)
  <2>1. AuthorityInv => LeaderHoldsLease /\ TypeOK
    BY InvImpliesSafety DEF AuthorityInv
  <2>2. AuthorityInv' => LeaderHoldsLease' /\ TypeOK'
    BY <2>1, PTL
  <2> QED
    BY <2>1, <2>2, AuthorityStep
<1> QED
  BY <1>1, <1>2, AuthorityIsInvariant, PTL DEF Spec, Authority!Spec, ImplementsFencedAuthority
=============================================================================
