-------------------------- MODULE FencedAuthority --------------------------
(***************************************************************************)
(* What the HA authority promises to everything that dispatches physical   *)
(* output: at any time at most one Hub is LEADER; a fencing epoch belongs  *)
(* to the Hub it was granted to; a Hub can lead only at the epoch granted  *)
(* last; and a new epoch is granted, or the last one given up, only while  *)
(* nobody leads.                                                           *)
(***************************************************************************)
EXTENDS Integers

CONSTANTS Hubs, NoHub

VARIABLES
  leader,  \* the Hub whose dispatch gate answers LEADER, or NoHub
  owner,   \* the Hub the last epoch was granted to, NoHub once released
  fence    \* the last epoch granted

vars == <<leader, owner, fence>>

Init == leader = NoHub /\ owner = NoHub /\ fence = 0

Grant(h) ==
  /\ leader = NoHub
  /\ owner' = h
  /\ fence' = fence + 1
  /\ UNCHANGED leader

GiveUp ==
  /\ leader = NoHub
  /\ owner' = NoHub
  /\ UNCHANGED <<leader, fence>>

Lead(h) ==
  /\ leader = NoHub
  /\ owner = h
  /\ leader' = h
  /\ UNCHANGED <<owner, fence>>

StandDown ==
  /\ leader' = NoHub
  /\ UNCHANGED <<owner, fence>>

Next == GiveUp \/ StandDown \/ \E h \in Hubs : Grant(h) \/ Lead(h)

Spec == Init /\ [][Next]_vars
=============================================================================
