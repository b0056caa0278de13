--------------------------- MODULE DeviceFleetMC ---------------------------
(* Small instances of DeviceFleet for TLC.  Request threads are            *)
(* interchangeable; symmetry is used for safety only.                      *)
EXTENDS DeviceFleet, TLC

Interchangeable == Permutations(Threads)

=============================================================================
