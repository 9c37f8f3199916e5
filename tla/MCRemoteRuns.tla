---------------------------- MODULE MCRemoteRuns ----------------------------
(* Two devices, for TLC. *)
EXTENDS RemoteRuns

CONSTANTS d1, d2
TwoDevices == {d1, d2}
=============================================================================
