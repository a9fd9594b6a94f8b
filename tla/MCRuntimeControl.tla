-------------------------- MODULE MCRuntimeControl --------------------------
(* Small instances of RuntimeControl for TLC.  An instance is named for the *)
(* commands that its clients send.                                          *)
EXTENDS RuntimeControl, TLC

CONSTANTS g1, g2, x1, x2, x3

FirstCue == {1}
NoJumps == {}

GoAndTwo == {g1, x1, x2}
GoesAndOne == {g1, g2, x1}
GoesAndTwo == {g1, g2, x1, x2}
GoAndThree == {g1, x1, x2, x3}

Asking(other) == [r \in Requests |-> IF r \in {g1, g2} THEN "go" ELSE other[r]]

BlackoutAndExit == Asking(x1 :> "blackout" @@ x2 :> "stopSession")
StopAndForcedExit == Asking(x1 :> "stopCue" @@ x2 :> "forceStop")
TimecodeAndBlackout == Asking(x1 :> "timecode" @@ x2 :> "blackout" @@ x3 :> "clear")
TimecodeAndExit == Asking(x1 :> "timecode" @@ x2 :> "stopSession")
Blackout == Asking(x1 :> "blackout")

\* Handlers are interchangeable, and so are the GO requests.
Interchangeable == Permutations(Threads) \cup Permutations({g1, g2})
=============================================================================
