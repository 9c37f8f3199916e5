----------------------------- MODULE PhoneLink -----------------------------
(***************************************************************************)
(* The phone's side of one paired PC: ConnectionManager.kt, its records    *)
(* and keys, and the pairing attempt of PairingController.kt.  Pairing     *)
(* again makes a new key and leaves the earlier one to be retired: the     *)
(* earlier key asks the PC itself to stop trusting it, and goes when the   *)
(* PC is known to.                                                         *)
(*                                                                         *)
(* Of the PC, which Pairing models, only the standing of each key is here. *)
(* The phone's coroutines run on its main thread, so they interleave where *)
(* they wait for the PC.  Any request may be lost, before or after the PC  *)
(* acts on it, and the application may be killed at any time.              *)
(***************************************************************************)
EXTENDS Naturals, Sequences, FiniteSets

CONSTANTS
    Keys,        \* device keys the phone may make, one for each attempt
    NoKey,       \* no key, no record
    MaxLosses,   \* bound: requests lost
    MaxTasks,    \* bound: retirements under way or waiting
    MaxRestarts  \* bound: times the application is killed

ASSUME PhoneLinkAssumption ==
    NoKey \notin Keys /\ {MaxLosses, MaxTasks, MaxRestarts} \subseteq Nat

VARIABLES
    trust,     \* the PC: where each key stands
    keystore,  \* the keys the phone holds
    record,    \* the saved record of the PC, its key NoKey if there is none
    link,      \* the connection loop
    attempt,   \* the pairing attempt
    shown,     \* what the Pair screen says of it
    tasks,     \* retirements, the first holding the mutex
    goodbyes,  \* keys whose live session is asking the PC to forget them
    losses, restarts,
    off,       \* history: keys taken off the list as retired
    revoked    \* history: keys the person at the PC revoked

vars == <<trust, keystore, record, link, attempt, shown, tasks, goodbyes, losses, restarts,
          off, revoked>>

NoRecord == [key |-> NoKey, retiring |-> {}]
NoAttempt == [at |-> "none", key |-> NoKey, answered |-> FALSE]

Init ==
    /\ trust = [k \in Keys |-> "unknown"]
    /\ keystore = {}
    /\ record = NoRecord
    /\ link = "none"
    /\ attempt = NoAttempt
    /\ shown = "idle"
    /\ tasks = <<>> /\ goodbyes = {}
    /\ losses = 0 /\ restarts = 0 /\ off = {} /\ revoked = {}

History == <<restarts, off, revoked>>

\* How a request fares.
Fates == {"answered", "lost before", "lost after"}

Lossy(fate) ==
    /\ fate # "answered" => losses < MaxLosses
    /\ losses' = IF fate = "answered" THEN losses ELSE losses + 1

Reaches(fate) == fate # "lost before"

-----------------------------------------------------------------------------
(* The person at the PC. *)

Approve(k) ==
    /\ trust[k] = "asked"
    /\ trust' = [trust EXCEPT ![k] = "approved"]
    /\ UNCHANGED <<keystore, record, link, attempt, shown, tasks, goodbyes, losses, History>>

Deny(k) ==
    /\ trust[k] = "asked"
    /\ trust' = [trust EXCEPT ![k] = "denied"]
    /\ UNCHANGED <<keystore, record, link, attempt, shown, tasks, goodbyes, losses, History>>

\* A session of the key is told and ended.
Revoke(k) ==
    /\ trust[k] = "live"
    /\ trust' = [trust EXCEPT ![k] = "revoked"]
    /\ revoked' = revoked \cup {k}
    /\ link' = IF link = "connected" /\ record.key = k THEN "refused" ELSE link
    /\ UNCHANGED <<keystore, record, attempt, shown, tasks, goodbyes, losses, restarts, off>>

-----------------------------------------------------------------------------
(* The connection loop. *)

\* Ending the loop cancels the retirements it began, wherever they are.
Stopped(queue) ==
    [i \in DOMAIN queue |->
        IF queue[i].kind = "loop"
          THEN [queue[i] EXCEPT !.at = "cancelled", !.keys = {}, !.key = NoKey]
          ELSE queue[i]]

stop == tasks' = Stopped(tasks)

Task(kind, keys) == [kind |-> kind, keys |-> keys, at |-> "waiting", key |-> NoKey]

\* connectOnce: the PC accepts or refuses the key, or cannot be reached.
connectOnce(reached) ==
    /\ link = "connecting"
    /\ reached \/ losses < MaxLosses
    /\ losses' = IF reached THEN losses ELSE losses + 1
    /\ link' = IF ~reached THEN link
               ELSE IF trust[record.key] = "live" THEN "connected"
               ELSE "refused"
    /\ IF link' = "connected" /\ record.retiring # {}
         THEN Len(tasks) < MaxTasks /\ tasks' = Append(tasks, Task("loop", {}))
         ELSE UNCHANGED tasks
    /\ UNCHANGED <<trust, keystore, record, attempt, shown, goodbyes, History>>

\* The connection ends, or the network changes.
Ends ==
    /\ link = "connected"
    /\ link' = "connecting"
    /\ losses < MaxLosses /\ losses' = losses + 1
    /\ UNCHANGED <<trust, keystore, record, attempt, shown, tasks, goodbyes, History>>

disconnect ==
    /\ link \in {"connecting", "connected", "refused"}
    /\ link' = "disconnected"
    /\ stop
    /\ UNCHANGED <<trust, keystore, record, attempt, shown, goodbyes, losses, History>>

\* connect and reconnectNow: the loop begins anew.
connect ==
    /\ record # NoRecord /\ link \in {"disconnected", "refused", "none"}
    /\ link' = "connecting"
    /\ stop
    /\ UNCHANGED <<trust, keystore, record, attempt, shown, goodbyes, losses, History>>

-----------------------------------------------------------------------------
(* Pairing. *)

\* A fresh key for every attempt.
pair(k) ==
    /\ attempt = NoAttempt
    /\ k \notin keystore /\ trust[k] = "unknown"
    /\ keystore' = keystore \cup {k}
    /\ attempt' = [at |-> "asking", key |-> k, answered |-> FALSE]
    /\ shown' = "working"
    /\ UNCHANGED <<trust, record, link, tasks, goodbyes, losses, History>>

\* The PC's answer to a key that presents the code.
Present(k) ==
    [trust EXCEPT ![k] = CASE @ = "unknown" -> "asked" [] @ = "approved" -> "live" [] OTHER -> @]

\* Mutant: only the last key is listed for retirement.
RetiringLast == {record.key} \ {NoKey}

\* The key used until now, and those still waiting, stay listed.
Retiring == record.retiring \cup ({record.key} \ {NoKey})

\* Asking, and asking again: a request that was answered once is asked until
\* it is decided; one that never was fails.
Ask(fate) ==
    LET k == attempt.key IN
    /\ attempt.at = "asking" /\ trust[k] \in {"unknown", "asked"}
    /\ Lossy(fate)
    /\ trust' = IF Reaches(fate) THEN Present(k) ELSE trust
    /\ IF fate = "answered" \/ attempt.answered
         THEN /\ attempt' = [attempt EXCEPT !.answered = TRUE]
              /\ UNCHANGED <<keystore, shown>>
         ELSE /\ attempt' = NoAttempt /\ keystore' = keystore \ {k} /\ shown' = "failed"
    /\ UNCHANGED <<record, link, tasks, goodbyes, History>>

\* The approved key is accepted, and the answer that says so is lost.
AskLost ==
    /\ attempt.at = "asking" /\ trust[attempt.key] \in {"approved", "live"}
    /\ Lossy("lost after")
    /\ trust' = Present(attempt.key)
    /\ UNCHANGED <<keystore, record, link, attempt, shown, tasks, goodbyes, History>>

\* The pairing is saved and becomes the connection; earlier keys are retired.
Accepted ==
    LET k == attempt.key IN
    /\ attempt.at = "asking" /\ trust[k] \in {"approved", "live"}
    /\ trust' = Present(k)
    /\ record' = [key |-> k, retiring |-> Retiring]
    /\ link' = "connected"
    /\ IF Retiring = {}
         THEN /\ attempt' = NoAttempt /\ shown' = "paired"
              /\ stop
         ELSE /\ attempt' = [attempt EXCEPT !.at = "finishing"] /\ shown' = "finishing"
              /\ Len(tasks) < MaxTasks
              /\ tasks' = Append(Stopped(tasks), Task("pair", {}))
    /\ UNCHANGED <<keystore, goodbyes, losses, History>>

\* Denied, revoked or expired: the attempt's key is deleted.
PairFails ==
    /\ attempt.at = "asking"
    /\ attempt' = NoAttempt
    /\ keystore' = keystore \ {attempt.key}
    /\ shown' = "failed"
    /\ UNCHANGED <<trust, record, link, tasks, goodbyes, losses, History>>

\* Cancel, or leaving the screen, once the pairing was saved: what it saved stays.
cancelFinishing ==
    /\ attempt.at = "finishing"
    /\ attempt' = NoAttempt
    /\ shown' = "failed"
    /\ UNCHANGED <<trust, keystore, record, link, tasks, goodbyes, losses, History>>

\* Forget a PC: its key and record go at once, and the rest is asked for after.
forget ==
    /\ record # NoRecord
    /\ keystore' = keystore \ {record.key}
    /\ goodbyes' = IF link = "connected" THEN goodbyes \cup {record.key} ELSE goodbyes
    /\ record' = NoRecord
    /\ link' = "none"
    /\ IF record.retiring = {} THEN stop
       ELSE /\ Len(tasks) < MaxTasks
            /\ tasks' = Append(Stopped(tasks), Task("forget", record.retiring))
    /\ UNCHANGED <<trust, attempt, shown, losses, History>>

Goodbye(k, fate) ==
    /\ k \in goodbyes
    /\ Lossy(fate)
    /\ trust' = IF Reaches(fate) /\ trust[k] = "live" THEN [trust EXCEPT ![k] = "revoked"] ELSE trust
    /\ goodbyes' = goodbyes \ {k}
    /\ UNCHANGED <<keystore, record, link, attempt, shown, tasks, History>>

-----------------------------------------------------------------------------
(* Retiring earlier keys: one task at a time. *)

Running(at) == tasks # <<>> /\ Head(tasks).at = at

Become(task) == tasks' = <<task>> \o Tail(tasks)

\* retirePrevious takes the mutex and reads the list; forget brought its own.
RetireBegins ==
    /\ Running("waiting")
    /\ LET task == Head(tasks) IN
         Become([task EXCEPT !.at = "next",
                             !.keys = IF task.kind = "forget" THEN @ ELSE record.retiring])
    /\ UNCHANGED <<trust, keystore, record, link, attempt, shown, goodbyes, losses, History>>

\* The list is done with, or the PC was forgotten meanwhile.  The attempt that
\* waited for its own task ends with it.
RetireEnds ==
    /\ Running("next")
    /\ LET task == Head(tasks) IN
         /\ task.keys = {} \/ (task.kind # "forget" /\ record = NoRecord)
         /\ IF task.kind = "pair" /\ attempt.at = "finishing"
              THEN /\ attempt' = NoAttempt
                   /\ shown' = IF record # NoRecord /\ record.retiring = {} THEN "paired" ELSE "incomplete"
              ELSE UNCHANGED <<attempt, shown>>
    /\ tasks' = Tail(tasks)
    /\ UNCHANGED <<trust, keystore, record, link, goodbyes, losses, History>>

\* A cancelled retirement lets the mutex go.
RetireCancelled ==
    /\ Running("cancelled")
    /\ tasks' = Tail(tasks)
    /\ UNCHANGED <<trust, keystore, record, link, attempt, shown, goodbyes, losses, History>>

\* The task is through with a key: one the PC is known not to trust leaves the
\* list and is deleted, and forgetting deletes it in any case.
Through(k, done) ==
    LET task == Head(tasks)
        listed == done /\ task.kind # "forget" IN
    /\ Become([task EXCEPT !.at = "next", !.keys = @ \ {k}, !.key = NoKey])
    /\ record' = IF listed THEN [record EXCEPT !.retiring = @ \ {k}] ELSE record
    /\ keystore' = IF done \/ task.kind = "forget" THEN keystore \ {k} ELSE keystore
    /\ off' = IF listed THEN off \cup {k} ELSE off

\* The key connects as itself.
RetireOpens(k, reached) ==
    /\ Running("next") /\ k \in Head(tasks).keys
    /\ Head(tasks).kind = "forget" \/ record # NoRecord
    /\ Lossy(IF reached THEN "answered" ELSE "lost before")
    /\ IF reached /\ k \in keystore /\ trust[k] = "live"
         THEN /\ Become([Head(tasks) EXCEPT !.at = "opened", !.key = k])
              /\ UNCHANGED <<keystore, record, off>>
         ELSE Through(k, reached /\ k \in keystore)
    /\ UNCHANGED <<trust, link, attempt, shown, goodbyes, restarts, revoked>>

\* Mutant: the live connection, not the key's own, is asked to unpair.
UnpairedLive(k) == IF record # NoRecord THEN record.key ELSE k

\* The PC revokes the record of the certificate the connection proved.
Unpaired(k) == k

\* Mutant: an answer that does not come is taken for the PC's.
retireAssumed(fate) == TRUE

\* Only the PC's own answer is proof.
retireProved(fate) == fate = "answered"

RetireUnpairs(fate) ==
    LET k == Head(tasks).key
        gone == Unpaired(k) IN
    /\ Running("opened")
    /\ Lossy(fate)
    /\ trust' = IF Reaches(fate) /\ trust[gone] = "live" THEN [trust EXCEPT ![gone] = "revoked"]
                ELSE trust
    /\ Through(k, retireProved(fate))
    /\ UNCHANGED <<link, attempt, shown, goodbyes, restarts, revoked>>

-----------------------------------------------------------------------------
\* The application is killed, and starts again: keys no record uses or is
\* retiring are deleted, and the PC is connected to.
start ==
    /\ restarts < MaxRestarts
    /\ restarts' = restarts + 1
    /\ keystore' = keystore \cap ({record.key} \cup record.retiring)
    /\ attempt' = NoAttempt /\ shown' = "idle"
    /\ tasks' = <<>> /\ goodbyes' = {}
    /\ link' = IF record = NoRecord THEN "none" ELSE "connecting"
    /\ UNCHANGED <<trust, record, losses, off, revoked>>

Next ==
    \/ \E k \in Keys :
         \/ Approve(k) \/ Deny(k) \/ Revoke(k) \/ pair(k)
         \/ \E fate \in Fates : Goodbye(k, fate)
         \/ \E reached \in BOOLEAN : RetireOpens(k, reached)
    \/ (\E reached \in BOOLEAN : connectOnce(reached)) \/ Ends \/ disconnect \/ connect
    \/ \E fate \in Fates : Ask(fate) \/ RetireUnpairs(fate)
    \/ AskLost \/ Accepted \/ PairFails \/ cancelFinishing \/ forget
    \/ RetireBegins \/ RetireEnds \/ RetireCancelled
    \/ start

Spec == Init /\ [][Next]_vars

-----------------------------------------------------------------------------
(* Properties. *)

TypeOK ==
    /\ trust \in [Keys -> {"unknown", "asked", "approved", "denied", "live", "revoked"}]
    /\ {keystore, goodbyes, off, revoked} \subseteq SUBSET Keys
    /\ record \in [key : Keys, retiring : SUBSET Keys] \cup {NoRecord}
    /\ link \in {"none", "connecting", "connected", "refused", "disconnected"}
    /\ attempt \in [at : {"asking", "finishing"}, key : Keys, answered : BOOLEAN] \cup {NoAttempt}
    /\ shown \in {"idle", "working", "finishing", "paired", "incomplete", "failed"}
    /\ \A i \in DOMAIN tasks :
          tasks[i] \in [kind : {"loop", "pair", "forget"}, keys : SUBSET Keys,
                       at : {"waiting", "next", "opened", "cancelled"}, key : Keys \cup {NoKey}]
    /\ losses \in 0..MaxLosses /\ restarts \in 0..MaxRestarts

\* A replacement is finished only when it is: a key taken off the list of those
\* to retire is one the PC trusts no more, whichever requests were lost, however
\* pairings, connections, forgetting and retirements overlap
\* (ConnectionManager.kt `retirePrevious`, `retire`).
RetiredUntrusted == \A k \in off : trust[k] # "live"

\* Retiring earlier keys never costs the pairing in use: its key is trusted
\* until the person at the PC revokes it (ConnectionManager.kt `retire`).
CurrentTrusted ==
    record # NoRecord => trust[record.key] = "live" \/ record.key \in revoked

\* Every key the phone holds is one it can account for, and every key its record
\* needs is there: the record's own, those to retire, the attempt's, and those a
\* forgotten PC is still to be told of (ConnectionManager.kt `pair`, `forget`,
\* `start`).
Forgetting == UNION {tasks[i].keys : i \in {j \in DOMAIN tasks : tasks[j].kind = "forget"}}

KeysAccounted ==
    /\ keystore \subseteq {record.key, attempt.key} \cup record.retiring \cup Forgetting
    /\ record # NoRecord => {record.key} \cup record.retiring \subseteq keystore

\* An attempt said to have failed has paired nothing (PairingController.kt
\* `cancel`: "its key is deleted, nothing is saved").
FailedPairedNothing ==
    [][shown' = "failed" /\ attempt # NoAttempt => attempt.key \notin keystore']_vars
=============================================================================
