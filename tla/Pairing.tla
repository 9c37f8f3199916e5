------------------------------ MODULE Pairing ------------------------------
(***************************************************************************)
(* Pairing and trust on the PC side of LCL for Android (remote/src):       *)
(* `pairing.json` (challenges and candidates), `devices.json` (the device  *)
(* registry) and the sessions admitted on the strength of the registry.    *)
(*                                                                         *)
(* Three kinds of process change this state: the service's connection      *)
(* threads (present, connect, recheck, unpair), the command line and the   *)
(* desktop (create, approve, deny, revoke), and crashes of either.  The    *)
(* pairing lock is held over a whole read-modify-write of pairing.json,    *)
(* so those are single steps here, except for the finalization of an       *)
(* approved request, whose three writes go to two files and are three      *)
(* steps: registry operations, crashes and I/O errors fall between them.   *)
(*                                                                         *)
(* A candidate is identified, as in the code, by its challenge and the     *)
(* fingerprint of its certificate; its random request id, and the random   *)
(* device id reserved for it, are both represented by that pair.           *)
(***************************************************************************)
EXTENDS Naturals, FiniteSets

CONSTANTS
    Challenges,      \* pairing codes, known by the challenge behind each
    Certs,           \* certificates (fingerprints) devices hold a key for
    NoCert,          \* no certificate
    Withdrawn,       \* the person took back what they had decided
    NoRequest,       \* no request
    TTL,             \* seconds a code is good for
    HISTORY_SECONDS, \* seconds an expired challenge is kept
    MAX_PENDING_PER_CHALLENGE,
    MAX_PENDING,
    MAX_CANDIDATES_PER_CHALLENGE,
    MaxTime,         \* bound: the clock stops here
    MaxCrashes,      \* bound: crashes and failed writes of one behaviour
    ClockSetBack     \* may the wall clock be set back?

Requests == Challenges \X Certs

ChallengeOf(r) == r[1]
CertOf(r) == r[2]
RequestsOf(k) == {k} \X Certs

ASSUME PairingAssumption ==
    /\ NoCert \notin Certs /\ Withdrawn \notin Certs /\ NoCert # Withdrawn
    /\ NoRequest \notin Requests
    /\ TTL \in Nat /\ HISTORY_SECONDS \in Nat /\ MaxTime \in Nat /\ MaxCrashes \in Nat
    /\ MAX_PENDING_PER_CHALLENGE \in Nat /\ MAX_PENDING \in Nat
    /\ MAX_CANDIDATES_PER_CHALLENGE \in Nat
    /\ ClockSetBack \in BOOLEAN

VARIABLES
    now,        \* the wall clock, seconds
    challenge,  \* pairing.json: each challenge
    status,     \* pairing.json: each candidate's status, "none" if not there
    reserved,   \* pairing.json: candidates given a device id
    devices,    \* devices.json: the record under each reserved id
    finishing,  \* the finalization in progress, which holds the pairing lock
    sessions,   \* the records that open connections were admitted as
    unpairing,  \* the records that `unpair`s in progress read, not yet revoked
    crashes,    \* crashes and failed writes so far
    gone,       \* approved requests whose device has stopped asking
    decision    \* history: to whom the person at the PC gave each code

vars == <<now, challenge, status, reserved, devices, finishing, sessions,
          unpairing, crashes, gone, decision>>

Time == 0..MaxTime

Challenge == [kept : {"unissued", "kept", "pruned"},
              expires : Nat,
              approved : Certs \cup {NoCert},
              consumed : Certs \cup {NoCert}]

Status == {"none", "pending", "approved", "denied", "finalized", "superseded"}

Idle == [req |-> NoRequest, step |-> "idle", at |-> 0]

Finishing == {Idle} \cup [req : Requests, step : {"enroll", "spend"}, at : Time]

TypeOK ==
    /\ now \in Time
    /\ challenge \in [Challenges -> Challenge]
    /\ status \in [Requests -> Status]
    /\ reserved \in SUBSET Requests
    /\ devices \in [Requests -> {"none", "live", "revoked"}]
    /\ finishing \in Finishing
    /\ sessions \in SUBSET Requests
    /\ unpairing \in SUBSET Requests
    /\ crashes \in 0..MaxCrashes
    /\ gone \in SUBSET Requests
    /\ decision \in [Challenges -> Certs \cup {NoCert, Withdrawn}]

Init ==
    /\ now = 0
    /\ challenge = [k \in Challenges |->
           [kept |-> "unissued", expires |-> 0, approved |-> NoCert, consumed |-> NoCert]]
    /\ status = [r \in Requests |-> "none"]
    /\ reserved = {}
    /\ devices = [r \in Requests |-> "none"]
    /\ finishing = Idle
    /\ sessions = {}
    /\ unpairing = {}
    /\ crashes = 0
    /\ gone = {}
    /\ decision = [k \in Challenges |-> NoCert]

-----------------------------------------------------------------------------
(* pairing.json as one value, and what every write of it ends with. *)

State == [challenge |-> challenge, status |-> status, reserved |-> reserved]

\* Mutant: candidates of an expired code go even if their finalization began.
PruneBegun(s, t) ==
    LET ch == [k \in Challenges |->
                 IF s.challenge[k].kept = "kept"
                    /\ s.challenge[k].expires + HISTORY_SECONDS <= t
                 THEN [s.challenge[k] EXCEPT !.kept = "pruned"]
                 ELSE s.challenge[k]]
        Stays(r) == /\ ch[ChallengeOf(r)].kept = "kept"
                    /\ t < ch[ChallengeOf(r)].expires \/ s.status[r] = "finalized"
    IN  [challenge |-> ch,
         status    |-> [r \in Requests |-> IF Stays(r) THEN s.status[r] ELSE "none"],
         reserved  |-> {r \in s.reserved : Stays(r)}]

\* Challenges a day past their expiry go, and with them or with an expired code
\* the candidates that neither paired nor began to.
Prune(s, t) ==
    LET ch == [k \in Challenges |->
                 IF s.challenge[k].kept = "kept"
                    /\ s.challenge[k].expires + HISTORY_SECONDS <= t
                 THEN [s.challenge[k] EXCEPT !.kept = "pruned"]
                 ELSE s.challenge[k]]
        Stays(r) == /\ ch[ChallengeOf(r)].kept = "kept"
                    /\ \/ t < ch[ChallengeOf(r)].expires
                       \/ s.status[r] = "finalized"
                       \/ r \in s.reserved
    IN  [challenge |-> ch,
         status    |-> [r \in Requests |-> IF Stays(r) THEN s.status[r] ELSE "none"],
         reserved  |-> {r \in s.reserved : Stays(r)}]

Store(s, t) ==
    /\ challenge' = Prune(s, t).challenge
    /\ status' = Prune(s, t).status
    /\ reserved' = Prune(s, t).reserved

\* The pairing lock is free: the one step that holds it across others is a
\* finalization.
Unlocked == finishing = Idle

Expired(k) == now >= challenge[k].expires

\* Mutant: a code that was approved for a device but not spent looks unused.
UnusedUnlessSpent(k) == challenge[k].consumed = NoCert

\* No device was approved or paired with this code.
Unused(k) == challenge[k].approved = NoCert /\ challenge[k].consumed = NoCert

Waiting(r) == status[r] = "pending" /\ ~Expired(ChallengeOf(r))

-----------------------------------------------------------------------------
(* The command line and the desktop. *)

\* `pair`: issue a code.
Create(k) ==
    /\ Unlocked
    /\ challenge[k].kept = "unissued"
    /\ Store([challenge |-> [challenge EXCEPT ![k] = [kept |-> "kept", expires |-> now + TTL,
                                                      approved |-> NoCert, consumed |-> NoCert]],
              status |-> status, reserved |-> reserved], now)
    /\ UNCHANGED <<now, devices, finishing, sessions, unpairing, crashes, gone, decision>>

\* `approve`: exactly one pending request of a code nobody has yet; the code's
\* other pending requests are superseded.
Approve(r) ==
    LET k == ChallengeOf(r) IN
    /\ Unlocked
    /\ status[r] = "pending"
    /\ ~Expired(k)
    /\ challenge[k].kept = "kept"
    /\ Unused(k)
    /\ Store([challenge |-> [challenge EXCEPT ![k].approved = CertOf(r)],
              status |-> [q \in Requests |->
                            CASE q = r -> "approved"
                              [] q # r /\ ChallengeOf(q) = k /\ status[q] = "pending"
                                   -> "superseded"
                              [] OTHER -> status[q]],
              reserved |-> reserved], now)
    /\ decision' = [decision EXCEPT ![k] = CertOf(r)]
    /\ UNCHANGED <<now, devices, finishing, sessions, unpairing, crashes, gone>>

\* `deny`: a request not decided yet, or approved and not yet given a device id.
\* The code's approval is left as it is.
Deniable(r) ==
    /\ status[r] = "pending" \/ (status[r] = "approved" /\ r \notin reserved)
    /\ ~Expired(ChallengeOf(r))

Deny(r) ==
    /\ Unlocked
    /\ Deniable(r)
    /\ Store([State EXCEPT !.status[r] = "denied"], now)
    /\ decision' = IF status[r] = "approved"
                   THEN [decision EXCEPT ![ChallengeOf(r)] = Withdrawn] ELSE decision
    /\ UNCHANGED <<now, devices, finishing, sessions, unpairing, crashes, gone>>

\* `revoke`: only the registry's own lock is taken.
Revoke(r) ==
    /\ devices[r] # "none"
    /\ devices' = [devices EXCEPT ![r] = "revoked"]
    /\ UNCHANGED <<now, challenge, status, reserved, finishing, sessions, unpairing,
                   crashes, gone, decision>>

-----------------------------------------------------------------------------
(* A device presents a code. *)

Count(S) == Cardinality(S)

Busy(k) ==
    \/ Count({r \in RequestsOf(k) : Waiting(r)}) >= MAX_PENDING_PER_CHALLENGE
    \/ Count({r \in RequestsOf(k) : status[r] # "none"}) >= MAX_CANDIDATES_PER_CHALLENGE
    \/ Count({r \in Requests : Waiting(r)}) >= MAX_PENDING

\* The first time, it becomes a pending candidate and nothing more.
Enlist(c, k) ==
    /\ Unlocked
    /\ challenge[k].kept = "kept"
    /\ status[<<k, c>>] = "none"
    /\ Unused(k)
    /\ ~Expired(k)
    /\ ~Busy(k)
    /\ Store([State EXCEPT !.status[<<k, c>>] = "pending"], now)
    /\ UNCHANGED <<now, devices, finishing, sessions, unpairing, crashes, gone, decision>>

\* The live record a certificate belongs to, which is what `authorize` returns.
LiveRecords(c) == {r \in Requests : CertOf(r) = c /\ devices[r] = "live"}
Trusted(c) == LiveRecords(c) # {}

\* It asks again after it was trusted (the answer was lost): let in only while
\* that very record is still the live one.
PresentFinalized(c, k) ==
    /\ Unlocked
    /\ status[<<k, c>>] = "finalized" /\ <<k, c>> \notin gone
    /\ <<k, c>> \in LiveRecords(c)
    /\ sessions' = sessions \cup {<<k, c>>}
    /\ UNCHANGED <<now, challenge, status, reserved, devices, finishing, unpairing,
                   crashes, gone, decision>>

\* Mutant: only the challenge is asked whom it was approved for.
FinishableDenied(r) ==
    LET k == ChallengeOf(r) IN
    /\ status[r] \in {"approved", "denied"}
    /\ challenge[k].approved = CertOf(r)
    /\ challenge[k].consumed \in {NoCert, CertOf(r)}
    /\ ~Expired(k) \/ r \in reserved

\* Step 1 of finalization: the challenge names this very request, the approval
\* has not lapsed; the device id is reserved and that is written first.
Finishable(r) ==
    LET k == ChallengeOf(r) IN
    /\ status[r] = "approved"
    /\ challenge[k].approved = CertOf(r)
    /\ challenge[k].consumed \in {NoCert, CertOf(r)}
    /\ ~Expired(k) \/ r \in reserved

Reserve(c, k) ==
    /\ Unlocked
    /\ challenge[k].kept = "kept" /\ <<k, c>> \notin gone
    /\ Finishable(<<k, c>>)
    /\ reserved' = reserved \cup {<<k, c>>}
    /\ finishing' = [req |-> <<k, c>>, step |-> "enroll", at |-> now]
    /\ UNCHANGED <<now, challenge, status, devices, sessions, unpairing, crashes, gone, decision>>

\* The device stops asking and deletes its key: the person there cancels, the
\* code has expired by its own clock, which may be behind the PC's, or the PC
\* refused it, as it does when a write failed.  Of a request not yet approved
\* that is told when it is approved: nothing here waits for it before.
GiveUp(r) ==
    /\ status[r] = "approved" /\ r \notin gone
    /\ gone' = gone \cup {r}
    /\ UNCHANGED <<now, challenge, status, reserved, devices, finishing, sessions,
                   unpairing, crashes, decision>>

\* Mutant: enrolling leaves the key's older record live.
EnrollSecond ==
    /\ finishing.step = "enroll"
    /\ devices[finishing.req] # "revoked"
    /\ devices' = [devices EXCEPT ![finishing.req] = "live"]
    /\ finishing' = [finishing EXCEPT !.step = "spend"]
    /\ UNCHANGED <<now, challenge, status, reserved, sessions, unpairing, crashes, gone, decision>>

\* Step 2: the registry adds the record under that id, or finds it there.  Any
\* other live record of the same key is revoked.
Enroll ==
    LET r == finishing.req IN
    /\ finishing.step = "enroll"
    /\ devices[r] # "revoked"
    /\ devices' = [q \in Requests |->
                     CASE q = r -> "live"
                       [] q # r /\ devices[r] = "none"
                          /\ CertOf(q) = CertOf(r) /\ devices[q] = "live" -> "revoked"
                       [] OTHER -> devices[q]]
    /\ finishing' = [finishing EXCEPT !.step = "spend"]
    /\ UNCHANGED <<now, challenge, status, reserved, sessions, unpairing, crashes, gone, decision>>

\* Step 2 refused: the id is taken by a record that was revoked since.
EnrollRefused ==
    /\ finishing.step = "enroll"
    /\ devices[finishing.req] = "revoked"
    /\ finishing' = Idle
    /\ UNCHANGED <<now, challenge, status, reserved, devices, sessions, unpairing,
                   crashes, gone, decision>>

\* Step 3: the candidate is finalized, the code spent, the others superseded.
Spent(r) ==
    LET k == ChallengeOf(r) IN
    [challenge |-> [challenge EXCEPT ![k].consumed = CertOf(r)],
     status |-> [q \in Requests |->
                   CASE q = r -> "finalized"
                     [] q # r /\ ChallengeOf(q) = k /\ status[q] \in {"pending", "approved"}
                          -> "superseded"
                     [] OTHER -> status[q]],
     reserved |-> reserved]

\* The device is answered `paired` and `welcome` and its session starts, unless
\* the answer is lost or the directory sync after the rename failed.
Spend ==
    LET r == finishing.req IN
    /\ finishing.step = "spend"
    /\ Store(Spent(r), finishing.at)
    /\ sessions' \in {sessions, sessions \cup {r}}
    /\ finishing' = Idle
    /\ UNCHANGED <<now, devices, unpairing, crashes, gone, decision>>

\* A write of the finalization fails: the lock is dropped, what was written
\* stays.
Abandon ==
    /\ crashes < MaxCrashes
    /\ finishing # Idle
    /\ finishing' = Idle
    /\ crashes' = crashes + 1
    /\ UNCHANGED <<now, challenge, status, reserved, devices, sessions, unpairing, gone, decision>>

\* The service crashes and is started again: its locks and connections go.
Crash ==
    /\ crashes < MaxCrashes
    /\ finishing' = Idle
    /\ sessions' = {}
    /\ unpairing' = {}
    /\ crashes' = crashes + 1
    /\ UNCHANGED <<now, challenge, status, reserved, devices, gone, decision>>

-----------------------------------------------------------------------------
(* Sessions.  Any number of connections may be open as one record. *)

\* `connect`: let in as the live record of the certificate it proved.
Connect(c) ==
    \E r \in LiveRecords(c) :
        /\ sessions' = sessions \cup {r}
        /\ UNCHANGED <<now, challenge, status, reserved, devices, finishing, unpairing,
                       crashes, gone, decision>>

\* Mutant: only a certificate without any record, revoked or not, is refused.
RecheckUnknown(r) ==
    /\ r \in sessions
    /\ \A q \in Requests : CertOf(q) = CertOf(r) => devices[q] = "none"
    /\ sessions' = sessions \ {r}
    /\ UNCHANGED <<now, challenge, status, reserved, devices, finishing, unpairing,
                   crashes, gone, decision>>

\* Every second a session checks that its certificate is still trusted: the
\* certificate, not the record it was admitted as.
Recheck(r) ==
    /\ r \in sessions
    /\ ~Trusted(CertOf(r))
    /\ sessions' = sessions \ {r}
    /\ UNCHANGED <<now, challenge, status, reserved, devices, finishing, unpairing,
                   crashes, gone, decision>>

\* The last connection admitted as a record is closed, or silent too long.
Disconnect(r) ==
    /\ r \in sessions
    /\ sessions' = sessions \ {r}
    /\ UNCHANGED <<now, challenge, status, reserved, devices, finishing, unpairing,
                   crashes, gone, decision>>

\* `unpair`: the record is looked up by the certificate, then revoked by its id;
\* the two take the registry's lock separately.
UnpairLookup(r) ==
    /\ r \in sessions
    /\ \E q \in LiveRecords(CertOf(r)) : unpairing' = unpairing \cup {q}
    /\ UNCHANGED <<now, challenge, status, reserved, devices, finishing, sessions,
                   crashes, gone, decision>>

UnpairRevoke(r) ==
    /\ r \in unpairing
    /\ devices' = [devices EXCEPT ![r] = "revoked"]
    /\ unpairing' = unpairing \ {r}
    /\ UNCHANGED <<now, challenge, status, reserved, finishing, sessions, crashes, gone, decision>>

-----------------------------------------------------------------------------
Tick ==
    /\ now' \in Time
    /\ now' # now
    /\ ~ClockSetBack => now' = now + 1
    /\ UNCHANGED <<challenge, status, reserved, devices, finishing, sessions, unpairing,
                   crashes, gone, decision>>

Next ==
    \/ Tick
    \/ Crash
    \/ Enroll \/ EnrollRefused \/ Spend \/ Abandon
    \/ \E k \in Challenges : Create(k)
    \/ \E c \in Certs, k \in Challenges :
          Enlist(c, k) \/ PresentFinalized(c, k) \/ Reserve(c, k)
    \/ \E c \in Certs : Connect(c)
    \/ \E r \in Requests :
          \/ Approve(r) \/ Deny(r) \/ Revoke(r) \/ GiveUp(r)
          \/ Recheck(r) \/ Disconnect(r) \/ UnpairLookup(r) \/ UnpairRevoke(r)

Spec == Init /\ [][Next]_vars

-----------------------------------------------------------------------------
(* Properties. *)

\* A device record exists only for the certificate the person gave that code to
\* and has not taken the code back from (present, approve, deny): neither a
\* crash between the writes of a finalization, nor a late request, nor a clock
\* set back makes one for anybody else.
TrustOnlyApproved ==
    \A r \in Requests : devices[r] # "none" => decision[ChallengeOf(r)] = CertOf(r)

\* A key has at most one live record, however often it pairs (Registry::enroll),
\* so `authorize` has one answer.
OneLivePerKey ==
    \A r, q \in Requests :
        devices[r] = "live" /\ devices[q] = "live" /\ CertOf(r) = CertOf(q) => r = q

\* A request that was denied has no device record and no id to get one under:
\* a denial cannot hit a pairing that has begun (Pairing::deny).
DeniedNotTrusted ==
    \A r \in Requests : status[r] = "denied" => devices[r] = "none" /\ r \notin reserved

\* A spent code has its device record, and a finalized request is the one that
\* spent it: the registry is written before the code is spent (present, steps
\* 2 and 3).
SpentHasRecord ==
    /\ \A k \in Challenges :
          challenge[k].consumed # NoCert => devices[<<k, challenge[k].consumed>>] # "none"
    /\ \A r \in Requests :
          status[r] = "finalized" => challenge[ChallengeOf(r)].consumed = CertOf(r)

\* A revoked record is never live again, however its device asks and whatever
\* finalization is retried after a crash (Registry::enroll, revoke).
NoRevival ==
    [][\A r \in Requests : devices[r] = "revoked" => devices'[r] = "revoked"]_vars

\* What a device holds of the PC is decided at the PC: files, locks, crashes and
\* clocks together do what CodeTrust says and nothing else.
Promise == INSTANCE CodeTrust WITH
    Challenges <- Challenges, Certs <- Certs, NoCert <- NoCert, Withdrawn <- Withdrawn,
    decision <- decision, devices <- devices

ImplementsCodeTrust == Promise!Spec

\* The inductive invariant the proofs use: what links the two files, the
\* finalization in progress and the decision.
Linked ==
    /\ \A k \in Challenges :
          /\ decision[k] = NoCert <=> challenge[k].approved = NoCert
          /\ decision[k] \in Certs => challenge[k].approved = decision[k]
          /\ challenge[k].kept = "unissued" =>
                challenge[k].approved = NoCert /\ challenge[k].consumed = NoCert
    /\ \A r \in Requests :
          /\ status[r] # "none" => challenge[ChallengeOf(r)].kept = "kept"
          /\ status[r] \in {"approved", "finalized"} => decision[ChallengeOf(r)] = CertOf(r)
          /\ r \in reserved => status[r] \in {"approved", "finalized"}
          /\ devices[r] # "none" =>
                r \in reserved \/ challenge[ChallengeOf(r)].kept = "pruned"
    /\ finishing # Idle =>
          /\ finishing.req \in reserved
          /\ status[finishing.req] = "approved"
          /\ finishing.step = "spend" => devices[finishing.req] # "none"

-----------------------------------------------------------------------------
(* Liveness.  The session loop rechecks every second, a started unpair and a  *)
(* started finalization run to their end, and a phone whose request was       *)
(* approved and that has not given up asks again every two seconds, so it     *)
(* gets the pairing lock at some point although others keep taking it.        *)
(* Whether it gives up, and when, is left open.                               *)

Fairness ==
    /\ \A r \in Requests : WF_vars(Recheck(r)) /\ WF_vars(UnpairRevoke(r))
    /\ WF_vars(Enroll) /\ WF_vars(EnrollRefused) /\ WF_vars(Spend)
    /\ \A c \in Certs, k \in Challenges : SF_vars(Reserve(c, k))

FairSpec == Spec /\ Fairness

\* A connection whose certificate is no longer trusted ends, unless the same
\* certificate is paired again first (the recheck in Session::serve).
UntrustedSessionEnds ==
    \A r \in Requests :
        (r \in sessions /\ ~Trusted(CertOf(r))) ~> (r \notin sessions \/ Trusted(CertOf(r)))

\* A pairing that has begun finishes, for as long as its device goes on asking,
\* although the service crashes or a write fails on the way and the code expires
\* meanwhile at the PC (State::prune keeps a candidate that has a device id);
\* otherwise its record was revoked or its code has been forgotten.
BegunPairingFinishes ==
    \A r \in Requests :
        (r \in reserved /\ status[r] = "approved")
            ~> \/ status[r] = "finalized" \/ devices[r] = "revoked"
               \/ challenge[ChallengeOf(r)].kept = "pruned"
               \/ r \in gone
=============================================================================
