--------------------------- MODULE MCHAAuthority ---------------------------
(***************************************************************************)
(* Instances of HAAuthority for TLC.                                       *)
(***************************************************************************)
EXTENDS HAAuthority, TLC

CONSTANTS hubA, hubB, loopA, loopB

TwoHubs == {hubA, hubB}
OneLoop == {loopA}
TwoLoops == {loopA, loopB}
OnlyA == {hubA}
OnlyB == {hubB}
AtRest == {0}
Ahead == 0..2
BackAndForth == {-1, 0, 1}
NotReleases == {"acquire", "renew"}
Releases == {"release"}

HubSymmetry == Permutations(TwoHubs)
=============================================================================
