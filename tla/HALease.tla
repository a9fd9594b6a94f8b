------------------------------ MODULE HALease ------------------------------
(***************************************************************************)
(* The durable lease of the HA witness (internal/halease/service.go): one  *)
(* row holding a holder, a fencing epoch and an expiry.  Every operation   *)
(* of Service runs under one mutex in one immediate SQLite transaction, so *)
(* an operation is a function from the row to the row; the row survives a  *)
(* witness restart.  A lease is [holder, epoch, expires]; time counts the  *)
(* microseconds in which the row stores its expiry.                        *)
(***************************************************************************)
EXTENDS Integers

CONSTANTS
  Hubs,          \* the Hub identities the witness accepts
  NoHub,         \* the empty holder_id
  LeaseDuration, \* Config.LeaseDuration, owned by the witness
  MaxEpoch       \* math.MaxInt64, the last fencing epoch

ASSUME HALeaseAssumption ==
  /\ NoHub \notin Hubs
  /\ LeaseDuration \in Nat \ {0}
  /\ MaxEpoch \in Nat \ {0}

Leases == [holder : Hubs \cup {NoHub}, epoch : 0..MaxEpoch, expires : Nat]

FreshLease == [holder |-> NoHub, epoch |-> 0, expires |-> 0]

ActiveAt(l, t) == l.holder # NoHub /\ l.epoch > 0 /\ l.expires > t

-----------------------------------------------------------------------------
(* Acquire.  The holder of an active lease gets the same lease back, with  *)
(* no new expiry; a free or expired lease is granted at the next epoch.    *)

\* Faulty variant: the exhaustion check is dropped.
AcquireOKUnbounded(l, h, t) == ActiveAt(l, t) => l.holder = h

AcquireOK(l, h, t) ==
  IF ActiveAt(l, t) THEN l.holder = h ELSE l.epoch < MaxEpoch

\* Faulty variant: a free lease is granted again at its last epoch.
AcquiredSameEpoch(l, h, t) ==
  IF ActiveAt(l, t)
  THEN l
  ELSE [holder |-> h, epoch |-> IF l.epoch = 0 THEN 1 ELSE l.epoch,
        expires |-> t + LeaseDuration]

Acquired(l, h, t) ==
  IF ActiveAt(l, t)
  THEN l
  ELSE [holder |-> h, epoch |-> l.epoch + 1, expires |-> t + LeaseDuration]

-----------------------------------------------------------------------------
(* Renew extends the exact active holder and epoch; Release clears the     *)
(* exact holder and epoch, active or not, and keeps the epoch.             *)

Holds(l, h, e) == e # 0 /\ l.holder = h /\ l.epoch = e

RenewOK(l, h, e, t) == Holds(l, h, e) /\ ActiveAt(l, t)

Renewed(l, t) == [l EXCEPT !.expires = t + LeaseDuration]

ReleaseOK(l, h, e) == Holds(l, h, e)

\* Faulty variant: releasing clears the whole row, epoch included.
ReleasedWithEpoch(l) == FreshLease

Released(l) == [l EXCEPT !.holder = NoHub, !.expires = 0]
=============================================================================
