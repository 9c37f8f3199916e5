---------------------------- MODULE MCDocuments ----------------------------
(* Three calls by the workspace and the remote service, for TLC. *)
EXTENDS Documents, TLC

CONSTANTS j1, j2, j3, workspace, service, b1, b2
ThreeJobs == {j1, j2, j3}
TwoProcesses == {workspace, service}
TwoBodies == {b1, b2}
Symmetry == Permutations(ThreeJobs) \cup Permutations(TwoProcesses) \cup Permutations(TwoBodies)
=============================================================================
