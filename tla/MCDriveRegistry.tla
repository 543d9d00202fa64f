-------------------------- MODULE MCDriveRegistry --------------------------
(* Each device has a serial of its own, itself; devices and scans are       *)
(* interchangeable.                                                         *)
EXTENDS DriveRegistry, TLC

CONSTANTS d1, d2, j1, s1, s2

OwnSerials      == [d \in Devices |-> d]
Interchangeable == Permutations({d1, d2}) \cup Permutations({s1, s2})
=============================================================================
