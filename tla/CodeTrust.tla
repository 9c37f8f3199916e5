----------------------------- MODULE CodeTrust -----------------------------
(***************************************************************************)
(* What pairing promises, with no files, clocks, locks or crashes in it.   *)
(* The person at the PC gives each code to one certificate, once, and may  *)
(* take it back while it has not been used.  A device record appears only  *)
(* for the certificate a code was given to, it replaces the certificate's  *)
(* older live record, and a record that has ended never lives again.       *)
(***************************************************************************)
EXTENDS Naturals

CONSTANTS Challenges, Certs, NoCert, Withdrawn

VARIABLES
    decision,   \* for each code: undecided, the certificate it was given to, or taken back
    devices     \* the record under each code and certificate

Records == Challenges \X Certs

Init ==
    /\ decision = [k \in Challenges |-> NoCert]
    /\ devices = [r \in Records |-> "none"]

Give(k, c) ==
    /\ decision[k] = NoCert
    /\ decision' = [decision EXCEPT ![k] = c]
    /\ UNCHANGED devices

TakeBack(k) ==
    /\ decision[k] \in Certs
    /\ devices[<<k, decision[k]>>] = "none"
    /\ decision' = [decision EXCEPT ![k] = Withdrawn]
    /\ UNCHANGED devices

Trust(r) ==
    /\ decision[r[1]] = r[2]
    /\ devices[r] = "none"
    /\ devices' = [q \in Records |->
                     IF q = r THEN "live"
                     ELSE IF q[2] = r[2] /\ devices[q] = "live" THEN "revoked"
                     ELSE devices[q]]
    /\ UNCHANGED decision

End(r) ==
    /\ devices[r] = "live"
    /\ devices' = [devices EXCEPT ![r] = "revoked"]
    /\ UNCHANGED decision

Next ==
    \/ \E k \in Challenges, c \in Certs : Give(k, c)
    \/ \E k \in Challenges : TakeBack(k)
    \/ \E r \in Records : Trust(r) \/ End(r)

Spec == Init /\ [][Next]_<<decision, devices>>
=============================================================================
