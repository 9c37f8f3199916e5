--------------------------- MODULE PairingProofs ---------------------------
(***************************************************************************)
(* Proofs about Pairing, for any sets of codes and certificates, any       *)
(* limits, any number of crashes and a clock that may be set back.         *)
(*                                                                         *)
(* Linked alone is not preserved without TypeOK, and TrustOnlyApproved is  *)
(* not inductive at all: that the next device record is made for the right *)
(* certificate depends on what links the challenge, the candidate, the     *)
(* reservation and the finalization in progress.  Inv is the conjunction   *)
(* that is inductive.                                                      *)
(***************************************************************************)
EXTENDS Pairing, TLAPS

\* A record that an unpair in progress read is still in the registry.
UnpairKnown == \A r \in unpairing : devices[r] # "none"

Inv == TypeOK /\ Linked /\ OneLivePerKey /\ UnpairKnown

PairingFile ==
    [challenge : [Challenges -> Challenge],
     status : [Requests -> Status],
     reserved : SUBSET Requests]

\* State::prune forgets whole challenges and candidates and changes nothing else:
\* it never touches whom a code was given to, and it keeps a candidate whose
\* finalization began as long as the challenge is kept.
LEMMA PruneKeeps ==
    ASSUME NEW s \in PairingFile, NEW t \in Nat
    PROVE  /\ Prune(s, t) \in PairingFile
           /\ \A k \in Challenges :
                /\ Prune(s, t).challenge[k].approved = s.challenge[k].approved
                /\ Prune(s, t).challenge[k].consumed = s.challenge[k].consumed
                /\ s.challenge[k].kept # "kept" =>
                      Prune(s, t).challenge[k].kept = s.challenge[k].kept
                /\ s.challenge[k].kept = "kept" =>
                      Prune(s, t).challenge[k].kept \in {"kept", "pruned"}
           /\ \A r \in Requests :
                /\ Prune(s, t).status[r] \in {s.status[r], "none"}
                /\ Prune(s, t).status[r] # "none" =>
                      Prune(s, t).challenge[ChallengeOf(r)].kept = "kept"
                /\ r \in Prune(s, t).reserved =>
                      r \in s.reserved /\ Prune(s, t).status[r] = s.status[r]
                /\ r \in s.reserved /\ Prune(s, t).challenge[ChallengeOf(r)].kept = "kept" =>
                      r \in Prune(s, t).reserved
<1> USE DEF PairingFile
<1> DEFINE ch == Prune(s, t).challenge
<1>r. \A r \in Requests : ChallengeOf(r) \in Challenges
  BY DEF Requests, ChallengeOf
<1>1. \A k \in Challenges : ch[k] \in Challenge
                            /\ ch[k].approved = s.challenge[k].approved
                            /\ ch[k].consumed = s.challenge[k].consumed
                            /\ (s.challenge[k].kept # "kept" => ch[k].kept = s.challenge[k].kept)
                            /\ (s.challenge[k].kept = "kept" => ch[k].kept \in {"kept", "pruned"})
  BY DEF Prune, Challenge
<1>2. ch \in [Challenges -> Challenge]
  BY <1>1 DEF Prune
<1>3. Prune(s, t).status \in [Requests -> Status]
  BY <1>r DEF Prune, Status
<1>4. Prune(s, t).reserved \in SUBSET Requests
  BY DEF Prune
<1>5. Prune(s, t) \in PairingFile
  BY <1>2, <1>3, <1>4 DEF Prune
<1>6. ASSUME NEW r \in Requests
      PROVE  /\ Prune(s, t).status[r] \in {s.status[r], "none"}
             /\ Prune(s, t).status[r] # "none" => ch[ChallengeOf(r)].kept = "kept"
             /\ r \in Prune(s, t).reserved =>
                   r \in s.reserved /\ Prune(s, t).status[r] = s.status[r]
             /\ r \in s.reserved /\ ch[ChallengeOf(r)].kept = "kept" =>
                   r \in Prune(s, t).reserved
  BY <1>r, <1>6 DEF Prune
<1>7. QED BY <1>1, <1>5, <1>6

\* The part of Linked that pairing.json, the registry and the decision share.
LinkedOf(s, dec, dev) ==
    /\ \A k \in Challenges :
          /\ dec[k] = NoCert <=> s.challenge[k].approved = NoCert
          /\ dec[k] \in Certs => s.challenge[k].approved = dec[k]
          /\ s.challenge[k].kept = "unissued" =>
                s.challenge[k].approved = NoCert /\ s.challenge[k].consumed = NoCert
    /\ \A r \in Requests :
          /\ s.status[r] # "none" => s.challenge[ChallengeOf(r)].kept = "kept"
          /\ s.status[r] \in {"approved", "finalized"} => dec[ChallengeOf(r)] = CertOf(r)
          /\ r \in s.reserved => s.status[r] \in {"approved", "finalized"}
          /\ dev[r] # "none" =>
                r \in s.reserved \/ s.challenge[ChallengeOf(r)].kept = "pruned"

\* A request names its code and its certificate and nothing more.
LEMMA RequestParts ==
    /\ \A r \in Requests : /\ ChallengeOf(r) \in Challenges /\ CertOf(r) \in Certs
                           /\ r = <<ChallengeOf(r), CertOf(r)>>
    /\ \A k \in Challenges, c \in Certs :
          <<k, c>> \in Requests /\ ChallengeOf(<<k, c>>) = k /\ CertOf(<<k, c>>) = c
BY DEF Requests, ChallengeOf, CertOf

\* Writing pairing.json back, pruned, with the lock free afterwards keeps the
\* two files, and the decision, in agreement (State::prune, Pairing::store).
LEMMA StoreLinked ==
    ASSUME NEW s \in PairingFile, NEW t \in Nat, Store(s, t),
           LinkedOf(s, decision', devices'), finishing' = Idle
    PROVE  /\ Linked'
           /\ challenge' \in [Challenges -> Challenge]
           /\ status' \in [Requests -> Status]
           /\ reserved' \in SUBSET Requests
<1>1. Prune(s, t) \in PairingFile
  BY PruneKeeps
<1>2. /\ challenge' = Prune(s, t).challenge
      /\ status' = Prune(s, t).status
      /\ reserved' = Prune(s, t).reserved
  BY DEF Store
<1>3. ASSUME NEW k \in Challenges
      PROVE  /\ decision'[k] = NoCert <=> challenge'[k].approved = NoCert
             /\ decision'[k] \in Certs => challenge'[k].approved = decision'[k]
             /\ challenge'[k].kept = "unissued" =>
                   challenge'[k].approved = NoCert /\ challenge'[k].consumed = NoCert
  BY <1>2, PruneKeeps DEF LinkedOf
<1>4. ASSUME NEW r \in Requests
      PROVE  /\ status'[r] # "none" => challenge'[ChallengeOf(r)].kept = "kept"
             /\ status'[r] \in {"approved", "finalized"} =>
                   decision'[ChallengeOf(r)] = CertOf(r)
             /\ r \in reserved' => status'[r] \in {"approved", "finalized"}
             /\ devices'[r] # "none" =>
                   r \in reserved' \/ challenge'[ChallengeOf(r)].kept = "pruned"
  <2> DEFINE k == ChallengeOf(r)
  <2>1. k \in Challenges
    BY <1>4, RequestParts
  <2>2. /\ s.status[r] \in {"approved", "finalized"} => decision'[k] = CertOf(r)
        /\ s.status[r] # "none" => s.challenge[k].kept = "kept"
        /\ r \in s.reserved => s.status[r] \in {"approved", "finalized"}
        /\ devices'[r] # "none" => r \in s.reserved \/ s.challenge[k].kept = "pruned"
    BY <1>4 DEF LinkedOf
  <2>3. /\ status'[r] \in {s.status[r], "none"}
        /\ status'[r] # "none" => challenge'[k].kept = "kept"
        /\ r \in reserved' => r \in s.reserved /\ status'[r] = s.status[r]
        /\ r \in s.reserved /\ challenge'[k].kept = "kept" => r \in reserved'
    BY <1>2, <1>4, PruneKeeps
  <2>4. /\ s.challenge[k].kept # "kept" => challenge'[k].kept = s.challenge[k].kept
        /\ s.challenge[k].kept = "kept" => challenge'[k].kept \in {"kept", "pruned"}
    BY <1>2, <2>1, PruneKeeps
  <2> HIDE DEF k
  <2>5. QED BY <2>2, <2>3, <2>4 DEF k
<1>5. Linked'
  BY <1>3, <1>4 DEF Linked
<1>6. QED BY <1>1, <1>2, <1>5 DEF PairingFile

\* Type correctness of the initial state, and the rest of Inv there.
LEMMA InitInv == Init => Inv
<1> SUFFICES ASSUME Init PROVE Inv
  OBVIOUS
<1>1. TypeOK
  BY PairingAssumption, RequestParts DEF Init, TypeOK, Challenge, Status, Finishing, Idle, Time
<1>2. Linked
  BY PairingAssumption, RequestParts DEF Init, Linked
<1>3. OneLivePerKey
  BY DEF Init, OneLivePerKey
<1>4. UnpairKnown
  BY DEF Init, UnpairKnown
<1>5. QED BY <1>1, <1>2, <1>3, <1>4 DEF Inv

\* pairing.json as it stands is a well-formed file that agrees with the rest.
LEMMA StateFile ==
    ASSUME Inv
    PROVE  State \in PairingFile /\ LinkedOf(State, decision, devices)
BY DEF Inv, TypeOK, State, PairingFile, Linked, LinkedOf

\* Every step keeps Inv: one step of the proof per operation.
LEMMA StepInv == Inv /\ [Next]_vars => Inv'
<1> SUFFICES ASSUME Inv, [Next]_vars PROVE Inv'
  OBVIOUS
<1> USE DEF Inv
<1>t. /\ now \in Nat /\ finishing.at \in Nat /\ now \in Time
      /\ \A k \in Challenges : challenge[k] \in Challenge
      /\ \A r \in Requests : status[r] \in Status
  BY PairingAssumption DEF TypeOK, Time, Finishing, Idle
<1>1. ASSUME NEW k \in Challenges, Create(k) PROVE Inv'
  <2> DEFINE n == [kept |-> "kept", expires |-> now + TTL, approved |-> NoCert, consumed |-> NoCert]
             s == [challenge |-> [challenge EXCEPT ![k] = n], status |-> status, reserved |-> reserved]
  <2>n. n \in Challenge /\ n.kept = "kept" /\ n.approved = NoCert
    BY <1>t, PairingAssumption DEF Challenge
  <2>s. Store(s, now) /\ finishing' = Idle
    BY <1>1 DEF Create, Unlocked
  <2> HIDE DEF n
  <2>1. s \in PairingFile
    BY <2>n DEF PairingFile, TypeOK
  <2>2. LinkedOf(s, decision', devices')
    <3>1. /\ challenge[k].kept = "unissued"
          /\ decision' = decision /\ devices' = devices
      BY <1>1 DEF Create
    <3>2. \A j \in Challenges : s.challenge[j] = IF j = k THEN n ELSE challenge[j]
      BY DEF TypeOK
    <3>3. s.status = status /\ s.reserved = reserved
      OBVIOUS
    <3> HIDE DEF s
    <3>4. QED BY <2>n, <3>1, <3>2, <3>3, RequestParts DEF Linked, LinkedOf
  <2>4. Linked' /\ challenge' \in [Challenges -> Challenge]
        /\ status' \in [Requests -> Status] /\ reserved' \in SUBSET Requests
    BY <1>t, <2>1, <2>2, <2>s, StoreLinked
  <2>5. QED BY <1>1, <2>4 DEF Create, TypeOK, OneLivePerKey, UnpairKnown
<1>2. ASSUME NEW r \in Requests, Approve(r) PROVE Inv'
  <2> DEFINE k == ChallengeOf(r)
             s == [challenge |-> [challenge EXCEPT ![k].approved = CertOf(r)],
                   status |-> [q \in Requests |->
                            CASE q = r -> "approved"
                              [] q # r /\ ChallengeOf(q) = k /\ status[q] = "pending"
                                   -> "superseded"
                              [] OTHER -> status[q]],
                   reserved |-> reserved]
  <2>k. k \in Challenges /\ CertOf(r) \in Certs
    BY <1>2, RequestParts
  <2>1. s \in PairingFile
    BY <1>t, <2>k DEF PairingFile, Challenge, Status, TypeOK
  <2>2. LinkedOf(s, decision', devices')
    <3>1. challenge[k].approved = NoCert /\ decision[k] = NoCert /\ challenge[k].kept = "kept"
          /\ decision' = [decision EXCEPT ![k] = CertOf(r)] /\ devices' = devices
          /\ status[r] = "pending"
      BY <1>2, <2>k DEF Approve, Unused, Linked
    <3>2. \A j \in Challenges : s.challenge[j].kept = challenge[j].kept
                                /\ s.challenge[j].approved =
                                     (IF j = k THEN CertOf(r) ELSE challenge[j].approved)
                                /\ s.challenge[j].consumed = challenge[j].consumed
      BY <1>t, <2>k DEF TypeOK, Challenge
    <3>3. \A q \in Requests : q # r => s.status[q] \in {status[q], "superseded"}
                              /\ (s.status[q] # "none" => status[q] # "none")
      OBVIOUS
    <3>4. s.status[r] = "approved" /\ s.reserved = reserved
      OBVIOUS
    <3>5. \A q \in Requests : ChallengeOf(q) = k => status[q] \notin {"approved", "finalized"}
      BY <2>k, <3>1, RequestParts, PairingAssumption DEF Linked
    <3> HIDE DEF s
    <3>6. ASSUME NEW j \in Challenges
          PROVE  /\ decision'[j] = NoCert <=> s.challenge[j].approved = NoCert
                 /\ decision'[j] \in Certs => s.challenge[j].approved = decision'[j]
                 /\ s.challenge[j].kept = "unissued" =>
                       s.challenge[j].approved = NoCert /\ s.challenge[j].consumed = NoCert
      BY <2>k, <3>1, <3>2, <3>6, PairingAssumption DEF Linked, TypeOK
    <3>7. ASSUME NEW q \in Requests
          PROVE  /\ s.status[q] # "none" => s.challenge[ChallengeOf(q)].kept = "kept"
                 /\ s.status[q] \in {"approved", "finalized"} =>
                       decision'[ChallengeOf(q)] = CertOf(q)
                 /\ q \in s.reserved => s.status[q] \in {"approved", "finalized"}
                 /\ devices'[q] # "none" =>
                       q \in s.reserved \/ s.challenge[ChallengeOf(q)].kept = "pruned"
      <4>1. ChallengeOf(q) \in Challenges
        BY <3>7, RequestParts
      <4>2. s.status[q] # "none" => s.challenge[ChallengeOf(q)].kept = "kept"
        BY <2>k, <3>1, <3>2, <3>3, <3>4, <4>1 DEF Linked
      <4>3. s.status[q] \in {"approved", "finalized"} => decision'[ChallengeOf(q)] = CertOf(q)
        BY <2>k, <3>1, <3>3, <3>5, <4>1 DEF Linked, TypeOK
      <4>4. q \in s.reserved => s.status[q] \in {"approved", "finalized"}
        <5>1. q \in s.reserved => status[q] \in {"approved", "finalized"}
          BY <3>4 DEF Linked
        <5>2. status[q] \in {"approved", "finalized"} => s.status[q] = status[q]
          BY <3>1, <3>5 DEF s
        <5>3. QED BY <5>1, <5>2
      <4>5. devices'[q] # "none" =>
               q \in s.reserved \/ s.challenge[ChallengeOf(q)].kept = "pruned"
        BY <3>1, <3>2, <3>4, <4>1 DEF Linked
      <4>6. QED BY <4>2, <4>3, <4>4, <4>5
    <3>8. QED BY <3>6, <3>7 DEF LinkedOf
  <2>3. Store(s, now) /\ finishing' = Idle
    BY <1>2 DEF Approve, Unlocked
  <2>4. Linked' /\ challenge' \in [Challenges -> Challenge]
        /\ status' \in [Requests -> Status] /\ reserved' \in SUBSET Requests
    BY <1>t, <2>1, <2>2, <2>3, StoreLinked
  <2>5. decision' \in [Challenges -> Certs \cup {NoCert, Withdrawn}]
    BY <1>2, <2>k DEF Approve, TypeOK
  <2>6. QED BY <1>2, <2>4, <2>5 DEF Approve, TypeOK, OneLivePerKey, UnpairKnown
<1>3. ASSUME NEW r \in Requests, Deny(r) PROVE Inv'
  <2> DEFINE k == ChallengeOf(r)
             s == [State EXCEPT !.status[r] = "denied"]
  <2>k. k \in Challenges /\ CertOf(r) \in Certs
    BY <1>3, RequestParts
  <2>1. s \in PairingFile
    BY <1>3, StateFile DEF PairingFile, Status
  <2>2. LinkedOf(s, decision', devices')
    <3>1. /\ s.challenge = challenge /\ s.reserved = reserved
          /\ \A q \in Requests : s.status[q] = IF q = r THEN "denied" ELSE status[q]
      BY <1>3 DEF State, TypeOK
    <3>2. devices' = devices /\ r \notin reserved /\ challenge[k].kept = "kept"
      BY <1>3 DEF Deny, Deniable, Linked
    <3>3. \A q \in Requests : q # r /\ ChallengeOf(q) = k /\ status[r] = "approved"
                                 => status[q] \notin {"approved", "finalized"}
      BY <1>3, RequestParts DEF Linked
    <3>4. \/ decision' = decision
          \/ /\ status[r] = "approved" /\ decision[k] \in Certs
             /\ decision' = [decision EXCEPT ![k] = Withdrawn]
      BY <1>3, <2>k DEF Deny, Linked
    <3> HIDE DEF s
    <3>5. ASSUME NEW j \in Challenges
          PROVE  /\ decision'[j] = NoCert <=> s.challenge[j].approved = NoCert
                 /\ decision'[j] \in Certs => s.challenge[j].approved = decision'[j]
                 /\ s.challenge[j].kept = "unissued" =>
                       s.challenge[j].approved = NoCert /\ s.challenge[j].consumed = NoCert
      BY <2>k, <3>1, <3>4, <3>5, PairingAssumption DEF Linked, TypeOK
    <3>6. ASSUME NEW q \in Requests
          PROVE  /\ s.status[q] # "none" => s.challenge[ChallengeOf(q)].kept = "kept"
                 /\ s.status[q] \in {"approved", "finalized"} =>
                       decision'[ChallengeOf(q)] = CertOf(q)
                 /\ q \in s.reserved => s.status[q] \in {"approved", "finalized"}
                 /\ devices'[q] # "none" =>
                       q \in s.reserved \/ s.challenge[ChallengeOf(q)].kept = "pruned"
      <4>1. ChallengeOf(q) \in Challenges
        BY <3>6, RequestParts
      <4>2. s.status[q] # "none" => s.challenge[ChallengeOf(q)].kept = "kept"
        BY <3>1, <3>2 DEF Linked
      <4>3. s.status[q] \in {"approved", "finalized"} => decision'[ChallengeOf(q)] = CertOf(q)
        BY <2>k, <3>1, <3>3, <3>4, <4>1 DEF Linked, TypeOK
      <4>4. q \in s.reserved => s.status[q] \in {"approved", "finalized"}
        BY <3>1, <3>2 DEF Linked
      <4>5. devices'[q] # "none" =>
               q \in s.reserved \/ s.challenge[ChallengeOf(q)].kept = "pruned"
        BY <3>1, <3>2 DEF Linked
      <4>6. QED BY <4>2, <4>3, <4>4, <4>5
    <3>7. QED BY <3>5, <3>6 DEF LinkedOf
  <2>3. Store(s, now) /\ finishing' = Idle
    BY <1>3 DEF Deny, Unlocked
  <2>4. Linked' /\ challenge' \in [Challenges -> Challenge]
        /\ status' \in [Requests -> Status] /\ reserved' \in SUBSET Requests
    BY <1>t, <2>1, <2>2, <2>3, StoreLinked
  <2>5. decision' \in [Challenges -> Certs \cup {NoCert, Withdrawn}]
    BY <1>3, <2>k DEF Deny, TypeOK
  <2>6. QED BY <1>3, <2>4, <2>5 DEF Deny, TypeOK, OneLivePerKey, UnpairKnown
<1>4. ASSUME NEW c \in Certs, NEW k \in Challenges, Enlist(c, k) PROVE Inv'
  <2> DEFINE r == <<k, c>>
             s == [State EXCEPT !.status[r] = "pending"]
  <2>k. r \in Requests /\ ChallengeOf(r) = k
    BY <1>4, RequestParts
  <2>1. s \in PairingFile
    BY <2>k, StateFile DEF PairingFile, Status
  <2>2. LinkedOf(s, decision', devices')
    <3>1. /\ s.challenge = challenge /\ s.reserved = reserved
          /\ \A q \in Requests : s.status[q] = IF q = r THEN "pending" ELSE status[q]
      BY <2>k DEF State, TypeOK
    <3>2. devices' = devices /\ decision' = decision
          /\ r \notin reserved /\ challenge[k].kept = "kept"
      BY <1>4, <2>k DEF Enlist, Linked
    <3> HIDE DEF s, r
    <3>3. QED BY <2>k, <3>1, <3>2 DEF Linked, LinkedOf
  <2>3. Store(s, now) /\ finishing' = Idle
    BY <1>4 DEF Enlist, Unlocked
  <2>4. Linked' /\ challenge' \in [Challenges -> Challenge]
        /\ status' \in [Requests -> Status] /\ reserved' \in SUBSET Requests
    BY <1>t, <2>1, <2>2, <2>3, StoreLinked
  <2>5. QED BY <1>4, <2>4 DEF Enlist, TypeOK, OneLivePerKey, UnpairKnown
<1>5. ASSUME NEW c \in Certs, NEW k \in Challenges, Reserve(c, k) PROVE Inv'
  <2> DEFINE r == <<k, c>>
  <2>k. r \in Requests /\ ChallengeOf(r) = k /\ CertOf(r) = c
    BY <1>5, RequestParts
  <2>0. /\ status[r] = "approved"
        /\ reserved' = reserved \cup {r}
        /\ finishing' = [req |-> r, step |-> "enroll", at |-> now]
        /\ UNCHANGED <<now, challenge, status, devices, sessions, unpairing, crashes, gone, decision>>
    BY <1>5 DEF Reserve, Finishable
  <2> HIDE DEF r
  <2>1. TypeOK'
    BY <1>t, <2>k, <2>0 DEF TypeOK, Finishing
  <2>2. Linked'
    BY <2>k, <2>0 DEF Linked, Idle
  <2>3. OneLivePerKey'
    BY <2>0 DEF OneLivePerKey
  <2>4. QED BY <2>0, <2>1, <2>2, <2>3 DEF UnpairKnown
<1>6. CASE Enroll
  <2> DEFINE r == finishing.req
  <2>0. /\ finishing # Idle /\ r \in Requests /\ r \in reserved /\ status[r] = "approved"
        /\ finishing \in [req : Requests, step : {"enroll", "spend"}, at : Time]
    BY <1>6 DEF Enroll, TypeOK, Finishing, Idle, Linked
  <2>1. /\ devices[r] # "revoked"
        /\ finishing' = [finishing EXCEPT !.step = "spend"]
        /\ UNCHANGED <<now, challenge, status, reserved, sessions, unpairing, crashes, gone, decision>>
        /\ \A q \in Requests :
              devices'[q] = IF q = r THEN "live"
                            ELSE IF devices[r] = "none" /\ CertOf(q) = CertOf(r)
                                    /\ devices[q] = "live" THEN "revoked"
                            ELSE devices[q]
        /\ devices' \in [Requests -> {"none", "live", "revoked"}]
    BY <1>6, <2>0 DEF Enroll, TypeOK
  <2>2. TypeOK'
    BY <2>0, <2>1 DEF TypeOK, Finishing
  <2>3. Linked'
    <3>1. finishing'.req = r
      BY <2>0, <2>1
    <3>2. devices'[r] = "live"
      BY <2>0, <2>1
    <3>3. \A q \in Requests : devices'[q] # "none" => devices[q] # "none" \/ q = r
      BY <2>1
    <3> HIDE DEF r
    <3>4. QED BY <2>0, <2>1, <3>1, <3>2, <3>3 DEF Linked
  <2>4. OneLivePerKey'
    <3> SUFFICES ASSUME NEW p \in Requests, NEW q \in Requests,
                        devices'[p] = "live", devices'[q] = "live", CertOf(p) = CertOf(q)
                 PROVE  p = q
      BY DEF OneLivePerKey
    <3> HIDE DEF r
    <3>1. CASE devices[r] = "none"
      BY <2>0, <2>1, <3>1 DEF OneLivePerKey
    <3>2. CASE devices[r] = "live"
      BY <2>0, <2>1, <3>2 DEF OneLivePerKey
    <3>3. QED BY <2>0, <2>1, <3>1, <3>2 DEF TypeOK
  <2>5. UnpairKnown'
    BY <2>0, <2>1 DEF UnpairKnown, TypeOK
  <2>6. QED BY <2>2, <2>3, <2>4, <2>5
<1>7. CASE Spend
  <2> DEFINE r == finishing.req
             k == ChallengeOf(r)
             s == Spent(r)
  <2>0. r \in Requests /\ r \in reserved /\ status[r] = "approved" /\ devices[r] # "none"
    BY <1>7 DEF Spend, TypeOK, Finishing, Idle, Linked
  <2>kept. challenge[k].kept = "kept"
    BY <2>0 DEF Linked
  <2>k. k \in Challenges /\ CertOf(r) \in Certs
    BY <2>0, RequestParts
  <2>1. s \in PairingFile
    BY <1>t, <2>0, <2>k DEF Spent, PairingFile, Challenge, Status, TypeOK
  <2>2. LinkedOf(s, decision', devices')
    <3>1. decision' = decision /\ devices' = devices
      BY <1>7 DEF Spend
    <3>2. \A j \in Challenges : s.challenge[j].kept = challenge[j].kept
                                /\ s.challenge[j].approved = challenge[j].approved
                                /\ (j # k => s.challenge[j].consumed = challenge[j].consumed)
      BY <1>t, <2>k DEF Spent, TypeOK, Challenge
    <3>3. \A q \in Requests : q # r => \/ s.status[q] = status[q]
                                       \/ /\ ChallengeOf(q) = k
                                          /\ status[q] \in {"pending", "approved"}
                                          /\ s.status[q] = "superseded"
      BY DEF Spent
    <3>4. s.status[r] = "finalized" /\ s.reserved = reserved
      BY <2>0 DEF Spent
    <3>5. \A q \in Requests : q # r /\ ChallengeOf(q) = k
                                 => status[q] \notin {"approved", "finalized"}
      BY <2>0, RequestParts DEF Linked
    <3> HIDE DEF s, r
    <3>6. \A q \in Requests : ChallengeOf(q) \in Challenges
      BY RequestParts
    <3>7. \A j \in Challenges :
             /\ decision[j] = NoCert <=> s.challenge[j].approved = NoCert
             /\ decision[j] \in Certs => s.challenge[j].approved = decision[j]
             /\ s.challenge[j].kept = "unissued" =>
                   s.challenge[j].approved = NoCert /\ s.challenge[j].consumed = NoCert
      BY <2>kept, <3>2 DEF Linked
    <3>8. ASSUME NEW q \in Requests
          PROVE  /\ s.status[q] # "none" => s.challenge[ChallengeOf(q)].kept = "kept"
                 /\ s.status[q] \in {"approved", "finalized"} =>
                       decision[ChallengeOf(q)] = CertOf(q)
                 /\ q \in s.reserved => s.status[q] \in {"approved", "finalized"}
                 /\ devices[q] # "none" =>
                       q \in s.reserved \/ s.challenge[ChallengeOf(q)].kept = "pruned"
      BY <2>0, <3>2, <3>3, <3>4, <3>5, <3>6 DEF Linked
    <3>9. QED BY <3>1, <3>7, <3>8 DEF LinkedOf
  <2>3. Store(s, finishing.at) /\ finishing' = Idle
    BY <1>7 DEF Spend
  <2>4. Linked' /\ challenge' \in [Challenges -> Challenge]
        /\ status' \in [Requests -> Status] /\ reserved' \in SUBSET Requests
    BY <1>t, <2>1, <2>2, <2>3, StoreLinked
  <2>5. sessions' \in SUBSET Requests
    BY <1>7, <2>0 DEF Spend, TypeOK
  <2>6. QED BY <1>7, <2>4, <2>5 DEF Spend, TypeOK, Finishing, OneLivePerKey, UnpairKnown
<1>8. ASSUME NEW r \in Requests, Revoke(r) \/ UnpairRevoke(r) PROVE Inv'
  <2>0. /\ devices' = [devices EXCEPT ![r] = "revoked"]
        /\ devices[r] # "none"
        /\ unpairing' \in SUBSET Requests /\ unpairing' \subseteq unpairing
        /\ UNCHANGED <<now, challenge, status, reserved, finishing, sessions, crashes, gone, decision>>
    BY <1>8 DEF Revoke, UnpairRevoke, TypeOK, UnpairKnown
  <2>1. \A q \in Requests : devices'[q] = IF q = r THEN "revoked" ELSE devices[q]
    BY <2>0 DEF TypeOK
  <2>2. TypeOK'
    BY <2>0 DEF TypeOK
  <2>3. finishing # Idle => finishing.req \in Requests
    BY DEF TypeOK, Finishing
  <2>4. Linked'
    BY <2>0, <2>1, <2>3 DEF Linked
  <2>5. OneLivePerKey' /\ UnpairKnown'
    BY <2>0, <2>1 DEF OneLivePerKey, UnpairKnown, TypeOK
  <2>6. QED BY <2>2, <2>4, <2>5
<1>9. CASE Tick
  BY <1>9 DEF Tick, TypeOK, Linked, OneLivePerKey, UnpairKnown
<1>10. CASE EnrollRefused \/ Abandon \/ Crash
  <2>0. /\ finishing' = Idle
        /\ sessions' \in SUBSET Requests
        /\ unpairing' \in SUBSET Requests /\ unpairing' \subseteq unpairing
        /\ crashes' \in 0..MaxCrashes
        /\ UNCHANGED <<now, challenge, status, reserved, devices, gone, decision>>
    BY <1>10, PairingAssumption DEF EnrollRefused, Abandon, Crash, TypeOK
  <2>1. QED BY <2>0 DEF TypeOK, Finishing, Linked, OneLivePerKey, UnpairKnown
<1>11. ASSUME NEW c \in Certs, NEW k \in Challenges, Connect(c) \/ PresentFinalized(c, k)
       PROVE  Inv'
  <2>0. /\ sessions' \in SUBSET Requests
        /\ UNCHANGED <<now, challenge, status, reserved, devices, finishing, unpairing,
                       crashes, gone, decision>>
    BY <1>11, RequestParts DEF Connect, PresentFinalized, LiveRecords, TypeOK
  <2>1. QED BY <2>0 DEF TypeOK, Linked, OneLivePerKey, UnpairKnown
<1>12. ASSUME NEW r \in Requests, Recheck(r) \/ Disconnect(r) PROVE Inv'
  <2>0. /\ sessions' \in SUBSET Requests
        /\ UNCHANGED <<now, challenge, status, reserved, devices, finishing, unpairing,
                       crashes, gone, decision>>
    BY <1>12 DEF Recheck, Disconnect, TypeOK
  <2>1. QED BY <2>0 DEF TypeOK, Linked, OneLivePerKey, UnpairKnown
<1>13. ASSUME NEW r \in Requests, UnpairLookup(r) PROVE Inv'
  <2>0. PICK q \in LiveRecords(CertOf(r)) : unpairing' = unpairing \cup {q}
    BY <1>13 DEF UnpairLookup
  <2>1. q \in Requests /\ devices[q] = "live"
    BY <2>0 DEF LiveRecords
  <2>2. UNCHANGED <<now, challenge, status, reserved, devices, finishing, sessions,
                    crashes, gone, decision>>
    BY <1>13 DEF UnpairLookup
  <2>3. QED BY <2>0, <2>1, <2>2 DEF TypeOK, Linked, OneLivePerKey, UnpairKnown
<1>14. CASE UNCHANGED vars
  BY <1>14 DEF vars, TypeOK, Linked, OneLivePerKey, UnpairKnown
<1>15. \A c \in Certs : Connect(c) => Challenges # {}
  BY RequestParts DEF Connect, LiveRecords
<1>16. ASSUME NEW r \in Requests, GiveUp(r) PROVE Inv'
  BY <1>16 DEF GiveUp, TypeOK, Linked, OneLivePerKey, UnpairKnown
<1>17. QED
  BY <1>1, <1>2, <1>3, <1>4, <1>5, <1>6, <1>7, <1>8, <1>9, <1>10, <1>11, <1>12, <1>13,
     <1>14, <1>15, <1>16 DEF Next

-----------------------------------------------------------------------------
(* The registry and the decision change only as CodeTrust says. *)

\* Every step of the detailed specification is a step of CodeTrust or leaves
\* the decision and the registry alone.
LEMMA StepPromise == Inv /\ [Next]_vars => [Promise!Next]_<<decision, devices>>
<1> SUFFICES ASSUME Inv, [Next]_vars PROVE [Promise!Next]_<<decision, devices>>
  OBVIOUS
<1>t. /\ decision \in [Challenges -> Certs \cup {NoCert, Withdrawn}]
      /\ devices \in [Requests -> {"none", "live", "revoked"}]
      /\ Requests = Promise!Records
  BY DEF Inv, TypeOK, Promise!Records, Requests
<1>1. ASSUME NEW r \in Requests, Approve(r) PROVE \E k \in Challenges, c \in Certs : Promise!Give(k, c)
  <2>1. /\ ChallengeOf(r) \in Challenges /\ CertOf(r) \in Certs
        /\ decision[ChallengeOf(r)] = NoCert
        /\ decision' = [decision EXCEPT ![ChallengeOf(r)] = CertOf(r)]
        /\ devices' = devices
    BY <1>1, RequestParts DEF Approve, Unused, Inv, Linked
  <2>2. Promise!Give(ChallengeOf(r), CertOf(r))
    BY <2>1 DEF Promise!Give
  <2>3. QED BY <2>1, <2>2
<1>2. ASSUME NEW r \in Requests, Deny(r)
      PROVE  UNCHANGED <<decision, devices>> \/ \E k \in Challenges : Promise!TakeBack(k)
  <2>1. CASE status[r] # "approved"
    BY <1>2, <2>1 DEF Deny
  <2>2. CASE status[r] = "approved"
    <3> DEFINE k == ChallengeOf(r)
    <3>1. k \in Challenges /\ CertOf(r) \in Certs /\ r = <<k, CertOf(r)>>
      BY <1>2, RequestParts
    <3>2. decision[k] = CertOf(r) /\ devices[r] = "none"
      BY <1>2, <2>2 DEF Deny, Deniable, Inv, Linked
    <3>3. decision' = [decision EXCEPT ![k] = Withdrawn] /\ devices' = devices
      BY <1>2, <2>2 DEF Deny
    <3>4. Promise!TakeBack(k)
      BY <3>1, <3>2, <3>3 DEF Promise!TakeBack
    <3>5. QED BY <3>1, <3>4
  <2>3. QED BY <2>1, <2>2
<1>3. ASSUME Enroll
      PROVE  UNCHANGED <<decision, devices>> \/ \E r \in Requests : Promise!Trust(r)
  <2> DEFINE r == finishing.req
  <2>1. /\ r \in Requests /\ status[r] = "approved" /\ decision[ChallengeOf(r)] = CertOf(r)
        /\ devices[r] # "revoked" /\ decision' = decision
    BY <1>3 DEF Enroll, Inv, TypeOK, Finishing, Idle, Linked
  <2>2. devices' = [q \in Requests |->
                     CASE q = r -> "live"
                       [] q # r /\ devices[r] = "none"
                          /\ CertOf(q) = CertOf(r) /\ devices[q] = "live" -> "revoked"
                       [] OTHER -> devices[q]]
    BY <1>3 DEF Enroll
  <2> HIDE DEF r
  <2>3. CASE devices[r] = "live"
    <3>1. \A q \in Requests : devices'[q] = devices[q]
      BY <2>2, <2>3
    <3>2. devices' = devices
      BY <1>t, <2>2, <3>1
    <3>3. QED BY <2>1, <3>2
  <2>4. CASE devices[r] = "none"
    <3>1. devices' = [q \in Requests |->
                        IF q = r THEN "live"
                        ELSE IF q[2] = r[2] /\ devices[q] = "live" THEN "revoked"
                        ELSE devices[q]]
      BY <2>2, <2>4 DEF CertOf
    <3>2. Promise!Trust(r)
      BY <1>t, <2>1, <2>4, <3>1 DEF Promise!Trust, ChallengeOf, CertOf
    <3>3. QED BY <2>1, <3>2
  <2>5. QED BY <1>t, <2>1, <2>3, <2>4
<1>4. ASSUME NEW r \in Requests, Revoke(r) \/ UnpairRevoke(r)
      PROVE  UNCHANGED <<decision, devices>> \/ Promise!End(r)
  <2>1. /\ decision' = decision /\ devices[r] # "none"
        /\ devices' = [devices EXCEPT ![r] = "revoked"]
    BY <1>4 DEF Revoke, UnpairRevoke, Inv, UnpairKnown
  <2>2. CASE devices[r] = "live"
    BY <2>1, <2>2 DEF Promise!End
  <2>3. CASE devices[r] = "revoked"
    BY <1>t, <2>1, <2>3
  <2>4. QED BY <1>t, <2>1, <2>2, <2>3
<1>5. CASE Tick \/ Crash \/ EnrollRefused \/ Spend \/ Abandon \/ UNCHANGED vars
  BY <1>5 DEF Tick, Crash, EnrollRefused, Spend, Abandon, vars
<1>6. ASSUME NEW c \in Certs, NEW k \in Challenges,
             Create(k) \/ Enlist(c, k) \/ PresentFinalized(c, k) \/ Reserve(c, k) \/ Connect(c)
      PROVE  UNCHANGED <<decision, devices>>
  BY <1>6 DEF Create, Enlist, PresentFinalized, Reserve, Connect
<1>7. ASSUME NEW r \in Requests,
             Recheck(r) \/ Disconnect(r) \/ UnpairLookup(r) \/ GiveUp(r)
      PROVE  UNCHANGED <<decision, devices>>
  BY <1>7 DEF Recheck, Disconnect, UnpairLookup, GiveUp
<1>8. /\ \A k \in Challenges : Create(k) => UNCHANGED <<decision, devices>>
      /\ \A c \in Certs : Connect(c) => UNCHANGED <<decision, devices>>
  BY DEF Create, Connect
<1>9. QED
  BY <1>t, <1>1, <1>2, <1>3, <1>4, <1>5, <1>6, <1>7, <1>8 DEF Next, Promise!Next

\* In CodeTrust a record is only ever made for the certificate its code was given
\* to, and a code with a record is neither given again nor taken back.
LEMMA PromiseTrust ==
    ASSUME TypeOK, TypeOK', TrustOnlyApproved, [Promise!Next]_<<decision, devices>>
    PROVE  TrustOnlyApproved'
<1> SUFFICES ASSUME NEW r \in Requests, devices'[r] # "none"
             PROVE  decision'[ChallengeOf(r)] = CertOf(r)
  BY DEF TrustOnlyApproved
<1>t. /\ decision \in [Challenges -> Certs \cup {NoCert, Withdrawn}]
      /\ devices \in [Requests -> {"none", "live", "revoked"}]
      /\ Requests = Promise!Records
      /\ ChallengeOf(r) \in Challenges /\ CertOf(r) \in Certs /\ r = <<ChallengeOf(r), CertOf(r)>>
      /\ devices[r] # "none" => decision[ChallengeOf(r)] = CertOf(r)
  BY RequestParts DEF TypeOK, Promise!Records, Requests, TrustOnlyApproved
<1>1. CASE \E k \in Challenges, c \in Certs : Promise!Give(k, c)
  BY <1>1, <1>t, PairingAssumption DEF Promise!Give
<1>2. CASE \E k \in Challenges : Promise!TakeBack(k)
  BY <1>2, <1>t DEF Promise!TakeBack
<1>3. CASE \E q \in Promise!Records : Promise!Trust(q)
  BY <1>3, <1>t DEF Promise!Trust, ChallengeOf, CertOf
<1>4. CASE \E q \in Promise!Records : Promise!End(q)
  BY <1>4, <1>t DEF Promise!End
<1>5. CASE UNCHANGED <<decision, devices>>
  BY <1>5, <1>t
<1>6. QED BY <1>1, <1>2, <1>3, <1>4, <1>5 DEF Promise!Next

-----------------------------------------------------------------------------
(* The theorems. *)

\* Inv is an invariant of the specification.
LEMMA SpecInv == Spec => []Inv
BY InitInv, StepInv, PTL DEF Spec

\* Every variable keeps its type in every behaviour of the pairing code.
THEOREM TypeCorrect == Spec => []TypeOK
<1>1. Inv => TypeOK
  BY DEF Inv
<1>2. QED BY SpecInv, <1>1, PTL

\* However often a key pairs, and however a finalization is interrupted and
\* retried, the registry never holds two live records of one certificate.
THEOREM OneLive == Spec => []OneLivePerKey
<1>1. Inv => OneLivePerKey
  BY DEF Inv
<1>2. QED BY SpecInv, <1>1, PTL

\* A denied request never has a device record or an id reserved for one.
THEOREM Denied == Spec => []DeniedNotTrusted
<1>1. Inv => DeniedNotTrusted
  BY DEF Inv, Linked, DeniedNotTrusted
<1>2. QED BY SpecInv, <1>1, PTL

\* The pairing code implements CodeTrust: two files, three writes, crashes and
\* a clock that may jump do what the one-step promise says.
THEOREM PairingImplementsCodeTrust == Spec => ImplementsCodeTrust
<1>1. Init => Promise!Init
  BY DEF Init, Promise!Init, Promise!Records, Requests
<1>2. QED BY SpecInv, StepPromise, <1>1, PTL DEF Spec, ImplementsCodeTrust, Promise!Spec

\* A device record exists only for the certificate the person at the PC gave
\* that code to and has not taken it back from.
THEOREM TrustIsDecided == Spec => []TrustOnlyApproved
<1>1. Init => TrustOnlyApproved
  BY RequestParts DEF Init, TrustOnlyApproved
<1>2. Inv /\ Inv' /\ TrustOnlyApproved /\ [Next]_vars => TrustOnlyApproved'
  BY StepPromise, PromiseTrust DEF Inv
<1>3. QED BY SpecInv, <1>1, <1>2, PTL DEF Spec

\* No step of any process makes a revoked record live again.
THEOREM RevokedStaysRevoked == Spec => NoRevival
<1>1. Inv /\ [Next]_vars =>
        [\A r \in Requests : devices[r] = "revoked" => devices'[r] = "revoked"]_vars
  <2> SUFFICES ASSUME Inv, [Next]_vars, NEW r \in Requests, devices[r] = "revoked"
               PROVE  devices'[r] = "revoked"
    OBVIOUS
  <2>t. devices \in [Requests -> {"none", "live", "revoked"}] /\ Requests = Promise!Records
    BY DEF Inv, TypeOK, Requests, Promise!Records
  <2>1. [Promise!Next]_<<decision, devices>>
    BY StepPromise
  <2>2. CASE \E k \in Challenges, c \in Certs : Promise!Give(k, c) \/ Promise!TakeBack(k)
    BY <2>2 DEF Promise!Give, Promise!TakeBack
  <2>3. CASE \E q \in Promise!Records : Promise!Trust(q)
    BY <2>3, <2>t DEF Promise!Trust
  <2>4. CASE \E q \in Promise!Records : Promise!End(q)
    BY <2>4, <2>t DEF Promise!End
  <2>5. CASE \E k \in Challenges : Promise!TakeBack(k)
    BY <2>5 DEF Promise!TakeBack
  <2>6. QED BY <2>1, <2>2, <2>3, <2>4, <2>5 DEF Promise!Next
<1>2. QED BY SpecInv, <1>1, PTL DEF Spec, NoRevival
=============================================================================
