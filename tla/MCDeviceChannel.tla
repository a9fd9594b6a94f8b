--------------------------- MODULE MCDeviceChannel ---------------------------
(* Small instances of DeviceChannel for TLC. *)
EXTENDS DeviceChannel, TLC

CONSTANTS a, f, s

\* A Cue that arms the laser, one that flashes it, and a blackout.
ShowCommands == a :> "ARM" @@ f :> "FLASH_START" @@ s :> "SAFE_OFF"

SnapshotSymmetry == Permutations(Snapshots)
=============================================================================
