----------------------------- MODULE MCPairing -----------------------------
(* Instances of Pairing for TLC. *)
EXTENDS Pairing, TLC

Symmetry == Permutations(Challenges) \cup Permutations(Certs)
=============================================================================
