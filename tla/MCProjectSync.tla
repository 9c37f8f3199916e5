--------------------------- MODULE MCProjectSync ---------------------------
(* Two documents, two texts: the constants of ProjectSync for TLC. *)
EXTENDS ProjectSync, TLC

Symmetry == Permutations(Docs)
=============================================================================
