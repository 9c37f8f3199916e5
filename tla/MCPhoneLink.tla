---------------------------- MODULE MCPhoneLink ----------------------------
(* The constants of PhoneLink for TLC: keys are alike. *)
EXTENDS PhoneLink, TLC

Symmetry == Permutations(Keys)
=============================================================================
