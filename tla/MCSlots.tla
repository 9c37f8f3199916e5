------------------------------ MODULE MCSlots ------------------------------
(* Five connections from two addresses, for TLC. *)
EXTENDS Slots, TLC

CONSTANTS c1, c2, c3, c4, c5, a1, a2
FiveConnections == {c1, c2, c3, c4, c5}
TwoAddresses == {a1, a2}
Symmetry == Permutations(FiveConnections) \cup Permutations(TwoAddresses)
=============================================================================
