---------------------------- MODULE PhoneProofs ----------------------------
(***************************************************************************)
(* Proofs about the phone: PhoneLink, for any keys and any number of lost  *)
(* requests, retirements and restarts; and ProjectSync, for any documents  *)
(* and texts and any number of edits, changes on the PC, lost requests and *)
(* syncs.  The two share no state.                                         *)
(***************************************************************************)
EXTENDS PhoneLink, ProjectSync, SequenceTheorems, TLAPS

-----------------------------------------------------------------------------
(* PhoneLink.                                                              *)
(*                                                                         *)
(* The three invariants lean on one another.  A key is retired, or asks to *)
(* be forgotten, only once it has been the pairing in use, so the PC knows *)
(* it for good (Paired), and a fresh key is none of those.  What a         *)
(* retirement may touch is therefore never the key in use nor the one an   *)
(* attempt is pairing (Apart); and what a forgotten PC is told of is no    *)
(* part of a later record (ForgettingApart).                               *)


TaskSet == [kind : {"loop", "pair", "forget"}, keys : SUBSET Keys,
            at : {"waiting", "next", "opened", "cancelled"}, key : Keys \cup {NoKey}]

Types ==
    /\ trust \in [Keys -> {"unknown", "asked", "approved", "denied", "live", "revoked"}]
    /\ keystore \subseteq Keys /\ goodbyes \subseteq Keys
    /\ off \subseteq Keys /\ revoked \subseteq Keys
    /\ record \in [key : Keys \cup {NoKey}, retiring : SUBSET Keys]
    /\ record.key = NoKey => record = NoRecord
    /\ attempt \in [at : {"asking", "finishing", "none"}, key : Keys \cup {NoKey},
                    answered : BOOLEAN]
    /\ (attempt.at = "none") <=> (attempt = NoAttempt)
    /\ attempt.at # "none" => attempt.key \in Keys
    /\ tasks \in Seq(TaskSet)

\* Keys a retirement, now or later, or a goodbye may act on.
InTasks == UNION {tasks[i].keys : i \in DOMAIN tasks}
Leaving == InTasks \cup goodbyes \cup record.retiring

\* They were each the pairing in use once.
Paired == \A k \in Leaving \cup ({record.key} \ {NoKey}) : trust[k] \in {"live", "revoked"}

\* The key in use and the key being paired are none of them.
Apart ==
    /\ record.key \notin Leaving
    /\ attempt.at = "asking" => attempt.key \notin Leaving \cup {record.key} \cup off

\* Keys a forgotten PC is told of belong to no later record.
ForgettingApart == Forgetting \cap (record.retiring \cup {record.key}) = {}

\* An open connection is that of a key still to be dealt with.
QueueKept ==
    \A i \in DOMAIN tasks :
        /\ tasks[i].at = "opened" => tasks[i].key \in tasks[i].keys
        /\ tasks[i].at = "cancelled" => tasks[i].keys = {}

\* An attempt holds its key; what it saved is the pairing, or forgotten.
AttemptKept ==
    /\ attempt.at = "asking" => attempt.key \in keystore
    /\ attempt.at = "finishing" => attempt.key = record.key \/ attempt.key \notin keystore

OffRevoked == \A k \in off : trust[k] = "revoked"

Inv ==
    /\ Types /\ Paired /\ Apart /\ ForgettingApart /\ QueueKept /\ AttemptKept
    /\ OffRevoked /\ CurrentTrusted /\ KeysAccounted

-----------------------------------------------------------------------------
(* What each change of the queue does to the keys in it. *)

LEMMA QueueStopped ==
    ASSUME Types, QueueKept
    PROVE  LET q == Stopped(tasks) IN
           /\ q \in Seq(TaskSet) /\ Len(q) = Len(tasks) /\ DOMAIN q = DOMAIN tasks
           /\ \A i \in DOMAIN q :
                /\ q[i].keys \subseteq tasks[i].keys /\ q[i].kind = tasks[i].kind
                /\ q[i].kind # "loop" => q[i] = tasks[i]
                /\ q[i].at = "opened" => q[i].key \in q[i].keys
                /\ q[i].at = "cancelled" => q[i].keys = {}
<1> DEFINE q == Stopped(tasks)
<1>1. tasks \in Seq(TaskSet) /\ DOMAIN tasks = 1..Len(tasks) /\ Len(tasks) \in Nat
  BY DEF Types
<1>2. \A i \in DOMAIN tasks : tasks[i] \in TaskSet
  BY <1>1
<1>3. DOMAIN q = DOMAIN tasks
  BY DEF Stopped
<1>4. \A i \in DOMAIN tasks :
         /\ q[i] \in TaskSet
         /\ q[i].keys \subseteq tasks[i].keys /\ q[i].kind = tasks[i].kind
         /\ q[i].kind # "loop" => q[i] = tasks[i]
         /\ q[i].at = "opened" => q[i].key \in q[i].keys
         /\ q[i].at = "cancelled" => q[i].keys = {}
  BY <1>2 DEF Stopped, TaskSet, QueueKept
<1>5. q = [i \in 1..Len(tasks) |-> q[i]]
  BY <1>1 DEF Stopped
<1>6. q \in Seq(TaskSet) /\ Len(q) = Len(tasks)
  BY <1>1, <1>4, <1>5
<1>7. QED
  BY <1>3, <1>4, <1>6

LEMMA Stops ==
    ASSUME Types, QueueKept, tasks' = Stopped(tasks)
    PROVE  tasks' \in Seq(TaskSet) /\ QueueKept' /\ InTasks' \subseteq InTasks
           /\ Forgetting' = Forgetting
<1>1. tasks' \in Seq(TaskSet) /\ QueueKept'
  BY QueueStopped DEF QueueKept
<1>2. InTasks' \subseteq InTasks
  BY QueueStopped DEF InTasks
<1>3. {j \in DOMAIN tasks' : tasks'[j].kind = "forget"}
        = {j \in DOMAIN tasks : tasks[j].kind = "forget"}
  BY QueueStopped
<1>4. \A j \in DOMAIN tasks : tasks[j].kind = "forget" => tasks'[j].keys = tasks[j].keys
  BY QueueStopped
<1>5. Forgetting' = Forgetting
  BY <1>3, <1>4 DEF Forgetting
<1>6. QED
  BY <1>1, <1>2, <1>5

LEMMA Joins ==
    ASSUME Types, QueueKept, NEW q \in {tasks, Stopped(tasks)},
           NEW kind \in {"loop", "pair", "forget"}, NEW keys \in SUBSET Keys,
           tasks' = Append(q, Task(kind, keys))
    PROVE  /\ tasks' \in Seq(TaskSet) /\ QueueKept'
           /\ InTasks' \subseteq InTasks \cup keys
           /\ Forgetting' = IF kind = "forget" THEN Forgetting \cup keys ELSE Forgetting
<1> DEFINE t == Task(kind, keys)
<1> DEFINE n == Len(tasks) + 1
<1>1. /\ tasks \in Seq(TaskSet) /\ q \in Seq(TaskSet) /\ Len(q) = Len(tasks)
      /\ Len(tasks) \in Nat /\ DOMAIN tasks = 1..Len(tasks)
  BY QueueStopped DEF Types
<1>2. \A i \in DOMAIN tasks :
        /\ q[i].keys \subseteq tasks[i].keys /\ q[i].kind = tasks[i].kind
        /\ q[i].kind # "loop" => q[i] = tasks[i]
        /\ q[i].at = "opened" => q[i].key \in q[i].keys
        /\ q[i].at = "cancelled" => q[i].keys = {}
  BY QueueStopped DEF QueueKept
<1>3. t \in TaskSet /\ t.kind = kind /\ t.keys = keys /\ t.at = "waiting"
  BY DEF Task, TaskSet
<1>4. /\ tasks' \in Seq(TaskSet) /\ DOMAIN tasks' = (DOMAIN tasks) \cup {n}
      /\ n \notin DOMAIN tasks
      /\ tasks'[n] = t /\ \A i \in DOMAIN tasks : tasks'[i] = q[i]
  BY <1>1, <1>3
<1>5. QueueKept'
  BY <1>2, <1>3, <1>4 DEF QueueKept
<1>6. InTasks' \subseteq InTasks \cup keys
  BY <1>2, <1>3, <1>4 DEF InTasks
<1>7. \A i \in DOMAIN tasks : tasks'[i].kind = tasks[i].kind
                             /\ (tasks[i].kind = "forget" => tasks'[i].keys = tasks[i].keys)
  BY <1>2, <1>4
<1>8. Forgetting' = IF kind = "forget" THEN Forgetting \cup keys ELSE Forgetting
  BY <1>3, <1>4, <1>7 DEF Forgetting
<1>9. QED
  BY <1>4, <1>5, <1>6, <1>8

LEMMA Leaves ==
    ASSUME Types, QueueKept, tasks # <<>>, tasks' = Tail(tasks)
    PROVE  /\ tasks' \in Seq(TaskSet) /\ QueueKept' /\ InTasks' \subseteq InTasks
           /\ (Head(tasks).kind = "forget" => Head(tasks).keys = {}) => Forgetting' = Forgetting
<1>1. /\ tasks \in Seq(TaskSet) /\ Len(tasks) \in Nat \ {0}
      /\ DOMAIN tasks = 1..Len(tasks) /\ Head(tasks) = tasks[1]
  BY DEF Types
<1>2. /\ tasks' \in Seq(TaskSet) /\ DOMAIN tasks' = 1..(Len(tasks) - 1)
      /\ \A i \in DOMAIN tasks' : tasks'[i] = tasks[i + 1] /\ i + 1 \in DOMAIN tasks
  BY <1>1
<1>3. \A i \in DOMAIN tasks : i # 1 => i - 1 \in DOMAIN tasks' /\ tasks[i] = tasks'[i - 1]
  BY <1>1, <1>2
<1>4. QueueKept' /\ InTasks' \subseteq InTasks
  BY <1>2 DEF QueueKept, InTasks
<1>5. Forgetting' \subseteq Forgetting
  BY <1>2 DEF Forgetting
<1>6. ASSUME Head(tasks).kind = "forget" => Head(tasks).keys = {}
      PROVE  Forgetting \subseteq Forgetting'
  <2> SUFFICES ASSUME NEW k \in Forgetting PROVE k \in Forgetting'
    OBVIOUS
  <2>1. PICK i \in DOMAIN tasks : tasks[i].kind = "forget" /\ k \in tasks[i].keys
    BY DEF Forgetting
  <2>2. i # 1
    BY <1>1, <1>6, <2>1
  <2>3. i - 1 \in DOMAIN tasks' /\ tasks'[i - 1] = tasks[i]
    BY <1>3, <2>1, <2>2
  <2>4. QED
    BY <2>1, <2>3 DEF Forgetting
<1>7. QED
  BY <1>2, <1>4, <1>5, <1>6

LEMMA Becomes ==
    ASSUME Types, QueueKept, tasks # <<>>, NEW t \in TaskSet, Become(t),
           t.at = "opened" => t.key \in t.keys, t.at # "cancelled"
    PROVE  /\ tasks' \in Seq(TaskSet) /\ QueueKept'
           /\ InTasks' \subseteq InTasks \cup t.keys
           /\ t.kind = Head(tasks).kind =>
                 /\ t.kind # "forget" \/ t.keys = Head(tasks).keys => Forgetting' = Forgetting
                 /\ \A k : t.kind = "forget" /\ t.keys = Head(tasks).keys \ {k} =>
                       Forgetting' \subseteq Forgetting /\ Forgetting \subseteq Forgetting' \cup {k}
<1>1. /\ tasks \in Seq(TaskSet) /\ Len(tasks) \in Nat \ {0}
      /\ DOMAIN tasks = 1..Len(tasks) /\ Head(tasks) = tasks[1]
  BY DEF Types
<1>2. /\ Tail(tasks) \in Seq(TaskSet) /\ Len(Tail(tasks)) = Len(tasks) - 1
      /\ \A i \in 1..(Len(tasks) - 1) : Tail(tasks)[i] = tasks[i + 1]
  BY <1>1
<1>3. /\ tasks' \in Seq(TaskSet) /\ DOMAIN tasks' = DOMAIN tasks /\ tasks'[1] = t
      /\ \A i \in DOMAIN tasks : i # 1 => tasks'[i] = tasks[i]
  BY <1>1, <1>2 DEF Become
<1>4. 1 \in DOMAIN tasks
  BY <1>1
<1>5. QueueKept' /\ InTasks' \subseteq InTasks \cup t.keys
  BY <1>3 DEF QueueKept, InTasks
<1>6. ASSUME t.kind = Head(tasks).kind, t.kind # "forget" \/ t.keys = Head(tasks).keys
      PROVE  Forgetting' = Forgetting
  <2>1. \A i \in DOMAIN tasks : tasks'[i].kind = tasks[i].kind
                               /\ (tasks[i].kind = "forget" => tasks'[i].keys = tasks[i].keys)
    BY <1>1, <1>3, <1>6
  <2>2. QED
    BY <1>3, <2>1 DEF Forgetting
<1>7. ASSUME t.kind = Head(tasks).kind, NEW k, t.kind = "forget", t.keys = Head(tasks).keys \ {k}
      PROVE  Forgetting' \subseteq Forgetting /\ Forgetting \subseteq Forgetting' \cup {k}
  <2>1. \A i \in DOMAIN tasks :
           /\ tasks'[i].kind = tasks[i].kind
           /\ tasks'[i].keys \subseteq tasks[i].keys
           /\ tasks[i].keys \subseteq tasks'[i].keys \cup {k}
    BY <1>1, <1>3, <1>7
  <2>2. QED
    BY <1>3, <2>1 DEF Forgetting
<1>8. QED
  BY <1>3, <1>5, <1>6, <1>7

-----------------------------------------------------------------------------
\* Nothing names anything but a key.
LEMMA AllKeys == Types => InTasks \subseteq Keys /\ Leaving \subseteq Keys
<1> SUFFICES ASSUME Types PROVE InTasks \subseteq Keys /\ Leaving \subseteq Keys
  OBVIOUS
<1>1. \A i \in DOMAIN tasks : tasks[i] \in TaskSet
  BY DEF Types
<1>2. InTasks \subseteq Keys
  BY <1>1 DEF InTasks, TaskSet
<1>3. QED
  BY <1>2 DEF Types, Leaving

LEMMA InvInit == Init => Inv
<1> SUFFICES ASSUME Init PROVE Inv
  OBVIOUS
<1>1. DOMAIN tasks = {} /\ tasks \in Seq(TaskSet)
  BY DEF Init
<1>2. InTasks = {} /\ Forgetting = {}
  BY <1>1 DEF InTasks, Forgetting
<1>3. Types
  BY <1>1 DEF Init, Types, NoRecord, NoAttempt
<1>4. Leaving = {} /\ record.key = NoKey /\ record.retiring = {} /\ attempt.at = "none"
  BY <1>2 DEF Init, Leaving, NoRecord, NoAttempt
<1>5. Paired /\ Apart /\ ForgettingApart /\ QueueKept /\ AttemptKept
  BY <1>1, <1>2, <1>4 DEF Paired, Apart, ForgettingApart, QueueKept, AttemptKept
<1>6. OffRevoked /\ CurrentTrusted /\ KeysAccounted
  BY DEF Init, OffRevoked, CurrentTrusted, KeysAccounted
<1>7. QED
  BY <1>3, <1>5, <1>6 DEF Inv

\* A step that leaves the queue alone leaves what it names.
LEMMA Still ==
    ASSUME tasks' = tasks
    PROVE  InTasks' = InTasks /\ Forgetting' = Forgetting /\ (QueueKept <=> QueueKept')
BY DEF InTasks, Forgetting, QueueKept

LEMMA TrustSteps ==
    ASSUME Inv, NEW k \in Keys, Approve(k) \/ Deny(k) \/ Revoke(k)
    PROVE  Inv'
<1>1. InTasks' = InTasks /\ Forgetting' = Forgetting /\ QueueKept'
  BY Still DEF Approve, Deny, Revoke, Inv
<1>2. /\ UNCHANGED <<keystore, record, attempt, tasks, goodbyes, off>>
      /\ Leaving' = Leaving /\ revoked \subseteq revoked' /\ revoked' \subseteq Keys
  BY <1>1 DEF Approve, Deny, Revoke, History, Leaving, Inv, Types
<1>3. \/ trust[k] = "asked" /\ trust' = [trust EXCEPT ![k] = "approved"]
      \/ trust[k] = "asked" /\ trust' = [trust EXCEPT ![k] = "denied"]
      \/ trust[k] = "live" /\ k \in revoked' /\ trust' = [trust EXCEPT ![k] = "revoked"]
  BY DEF Approve, Deny, Revoke
<1>4. Types'
  BY <1>2, <1>3 DEF Inv, Types
<1>5. \A i \in Keys :
        /\ trust[i] \in {"live", "revoked"} => trust'[i] \in {"live", "revoked"}
        /\ trust[i] = "revoked" => trust'[i] = "revoked"
        /\ trust[i] = "live" => trust'[i] = "live" \/ i \in revoked'
  BY <1>3 DEF Inv, Types
<1>6. Leaving \subseteq Keys /\ off \subseteq Keys /\ record.key \in Keys \cup {NoKey}
  BY AllKeys DEF Inv, Types
<1>7. Paired' /\ OffRevoked' /\ CurrentTrusted'
  BY <1>2, <1>5, <1>6 DEF Inv, Types, Paired, OffRevoked, CurrentTrusted
<1>8. Apart' /\ ForgettingApart' /\ AttemptKept' /\ KeysAccounted'
  BY <1>1, <1>2 DEF Inv, Apart, ForgettingApart, AttemptKept, KeysAccounted
<1>9. QED
  BY <1>1, <1>4, <1>7, <1>8 DEF Inv

\* Steps of the loop and of other tasks that change neither keys nor trust.
LEMMA QueueSteps ==
    ASSUME Inv, tasks' \in Seq(TaskSet), QueueKept', InTasks' \subseteq Leaving,
           Forgetting' = Forgetting,
           UNCHANGED <<trust, keystore, record, attempt, goodbyes, off, revoked>>
    PROVE  Inv'
BY DEF Inv, Types, Paired, Apart, Leaving, ForgettingApart, AttemptKept, OffRevoked,
   CurrentTrusted, KeysAccounted

LEMMA LoopSteps ==
    ASSUME Inv, (\E reached \in BOOLEAN : connectOnce(reached)) \/ Ends \/ disconnect \/ connect
    PROVE  Inv'
<1> USE DEF Inv
<1>1. ASSUME NEW reached \in BOOLEAN, connectOnce(reached) PROVE Inv'
  <2>1. CASE tasks' = tasks
    BY <1>1, <2>1, Still, QueueSteps DEF connectOnce, History, Leaving, Types
  <2>2. CASE tasks' = Append(tasks, Task("loop", {}))
    BY <1>1, <2>2, Joins, QueueSteps DEF connectOnce, History, Leaving
  <2>3. QED
    BY <1>1, <2>1, <2>2 DEF connectOnce
<1>2. CASE Ends
  BY <1>2, Still, QueueSteps DEF Ends, History, Leaving, Types
<1>3. CASE disconnect \/ connect
  BY <1>3, Stops, QueueSteps DEF disconnect, connect, stop, History, Leaving
<1>4. QED
  BY <1>1, <1>2, <1>3

LEMMA PairStep ==
    ASSUME Inv, NEW k \in Keys, pair(k)
    PROVE  Inv'
<1>1. InTasks' = InTasks /\ Forgetting' = Forgetting /\ QueueKept'
  BY Still DEF pair, Inv
<1>2. UNCHANGED <<trust, record, goodbyes, off, revoked, tasks>> /\ Leaving' = Leaving
  BY <1>1 DEF pair, History, Leaving
<1>3. /\ trust[k] = "unknown" /\ attempt' = [at |-> "asking", key |-> k, answered |-> FALSE]
      /\ keystore' = keystore \cup {k}
  BY DEF pair
<1>4. Types'
  <2>1. attempt' \in [at : {"asking", "finishing", "none"}, key : Keys \cup {NoKey},
                      answered : BOOLEAN]
    BY <1>3
  <2>2. attempt'.at = "asking" /\ attempt'.key = k /\ NoAttempt.at = "none"
    BY <1>3 DEF NoAttempt
  <2>3. attempt' # NoAttempt
    BY <2>2
  <2>4. keystore' \subseteq Keys
    BY DEF pair, Inv, Types
  <2>5. QED
    BY <1>2, <2>1, <2>2, <2>3, <2>4 DEF Inv, Types
<1>5. Paired' /\ OffRevoked' /\ CurrentTrusted'
  BY <1>2 DEF Inv, Paired, OffRevoked, CurrentTrusted
<1>6. k \notin Leaving \cup {record.key} \cup off
  BY <1>3, PhoneLinkAssumption DEF Inv, Paired, OffRevoked
<1>7. Apart' /\ ForgettingApart' /\ AttemptKept'
  BY <1>1, <1>2, <1>3, <1>6 DEF Inv, Apart, ForgettingApart, AttemptKept
<1>8. KeysAccounted'
  <2>1. attempt.key = NoKey
    BY DEF pair, NoAttempt
  <2>2. QED
    BY <1>1, <1>2, <1>3, <2>1, PhoneLinkAssumption DEF Inv, Types, KeysAccounted, pair
<1>9. QED
  BY <1>1, <1>4, <1>5, <1>7, <1>8 DEF Inv

\* Presenting the code never takes trust, and gives it to the attempt's key alone.
LEMMA Presents ==
    ASSUME Types, NEW k \in Keys
    PROVE  /\ Present(k) \in [Keys -> {"unknown", "asked", "approved", "denied", "live", "revoked"}]
           /\ \A i \in Keys : i # k => Present(k)[i] = trust[i]
           /\ trust[k] \in {"live", "revoked"} => Present(k)[k] = trust[k]
           /\ trust[k] \in {"approved", "live"} => Present(k)[k] = "live"
BY DEF Types, Present

LEMMA AskSteps ==
    ASSUME Inv, (\E fate \in Fates : Ask(fate)) \/ AskLost
    PROVE  Inv'
<1> DEFINE k == attempt.key
<1>1. k \in Keys /\ attempt.at = "asking" /\ trust' \in {trust, Present(k)}
  BY DEF Ask, AskLost, Inv, Types
<1>2. InTasks' = InTasks /\ Forgetting' = Forgetting /\ QueueKept'
  BY Still DEF Ask, AskLost, Inv
<1>3. UNCHANGED <<record, goodbyes, off, revoked, tasks>>
  BY DEF Ask, AskLost, History
<1>4. \/ attempt' = attempt /\ keystore' = keystore
      \/ attempt' = [attempt EXCEPT !.answered = TRUE] /\ keystore' = keystore
      \/ attempt' = NoAttempt /\ keystore' = keystore \ {k}
  BY DEF Ask, AskLost
<1>5. /\ trust' \in [Keys -> {"unknown", "asked", "approved", "denied", "live", "revoked"}]
      /\ \A i \in Keys : i # k => trust'[i] = trust[i]
  BY <1>1, Presents DEF Inv, Types
<1>6. Types'
  <2>1. /\ attempt' \in [at : {"asking", "finishing", "none"}, key : Keys \cup {NoKey},
                         answered : BOOLEAN]
        /\ (attempt'.at = "none") <=> (attempt' = NoAttempt)
        /\ attempt'.at # "none" => attempt'.key \in Keys
    <3>1. attempt' = attempt \/ attempt' = NoAttempt \/ attempt' = [attempt EXCEPT !.answered = TRUE]
      BY <1>4
    <3>2. NoAttempt.at = "none"
          /\ NoAttempt \in [at : {"asking", "finishing", "none"}, key : Keys \cup {NoKey},
                            answered : BOOLEAN]
      BY DEF NoAttempt
    <3>3. CASE attempt' = [attempt EXCEPT !.answered = TRUE]
      <4>1. /\ attempt' \in [at : {"asking", "finishing", "none"}, key : Keys \cup {NoKey},
                             answered : BOOLEAN]
            /\ attempt'.at = "asking" /\ attempt'.key = k
        BY <1>1, <3>3 DEF Inv, Types
      <4>2. QED
        BY <1>1, <3>2, <4>1
    <3>4. QED
      BY <3>1, <3>2, <3>3 DEF Inv, Types
  <2>2. keystore' \subseteq Keys
    BY <1>4 DEF Inv, Types
  <2>3. QED
    BY <1>3, <1>5, <2>1, <2>2 DEF Inv, Types
<1>7. Leaving' = Leaving /\ k \notin Leaving \cup {record.key} \cup off /\ Leaving \subseteq Keys
  BY <1>1, <1>2, <1>3, AllKeys DEF Inv, Apart, Leaving
<1>8. Paired' /\ OffRevoked' /\ CurrentTrusted'
  BY <1>1, <1>3, <1>5, <1>7
     DEF Inv, Types, Paired, OffRevoked, CurrentTrusted, NoRecord
<1>9. Apart' /\ ForgettingApart' /\ AttemptKept'
  <2>1. attempt'.at = "none" \/ (attempt'.at = "asking" /\ attempt'.key = k /\ keystore' = keystore)
    BY <1>1, <1>4 DEF Inv, Types, NoAttempt
  <2>2. QED
    BY <1>1, <1>2, <1>3, <1>7, <2>1 DEF Inv, Apart, ForgettingApart, AttemptKept
<1>10. KeysAccounted'
  BY <1>1, <1>2, <1>3, <1>4, <1>7 DEF Inv, Types, KeysAccounted, Leaving, NoAttempt, NoRecord
<1>11. QED
  BY <1>2, <1>6, <1>8, <1>9, <1>10 DEF Inv

LEMMA AcceptStep ==
    ASSUME Inv, Accepted
    PROVE  Inv'
<1> DEFINE k == attempt.key
<1>1. /\ attempt.at = "asking" /\ trust[k] \in {"approved", "live"} /\ trust' = Present(k)
      /\ record' = [key |-> k, retiring |-> Retiring]
      /\ UNCHANGED <<keystore, goodbyes, off, revoked>>
  BY DEF Accepted, History
<1>2. attempt' = NoAttempt \/ attempt' = [attempt EXCEPT !.at = "finishing"]
  BY DEF Accepted
<1>3. /\ tasks' \in Seq(TaskSet) /\ QueueKept' /\ InTasks' \subseteq InTasks
      /\ Forgetting' = Forgetting
  <2>1. tasks' = Stopped(tasks) \/ tasks' = Append(Stopped(tasks), Task("pair", {}))
    BY DEF Accepted, stop
  <2>2. QED
    BY <2>1, Stops, Joins DEF Inv
<1>4. k \in Keys /\ k # NoKey /\ k \in keystore /\ k \notin Leaving \cup {record.key} \cup off
  BY <1>1, PhoneLinkAssumption DEF Inv, Types, Apart, AttemptKept
<1>5. /\ \A i \in Keys : i # k => trust'[i] = trust[i]
      /\ trust'[k] = "live"
      /\ trust' \in [Keys -> {"unknown", "asked", "approved", "denied", "live", "revoked"}]
  BY <1>1, <1>4, Presents DEF Inv
<1>6. /\ record'.key = k /\ record'.retiring = Retiring /\ Retiring \subseteq Keys
      /\ Retiring \subseteq Leaving \cup ({record.key} \ {NoKey})
  BY <1>1 DEF Retiring, Leaving, Inv, Types
<1>7. Leaving' \subseteq Leaving \cup ({record.key} \ {NoKey}) /\ Leaving \subseteq Keys
  BY <1>1, <1>3, <1>6, AllKeys DEF Inv, Leaving
<1>8. /\ attempt' \in [at : {"asking", "finishing", "none"}, key : Keys \cup {NoKey},
                       answered : BOOLEAN]
      /\ (attempt'.at = "none") <=> (attempt' = NoAttempt)
      /\ attempt'.at # "asking"
      /\ attempt'.at = "finishing" => attempt'.key = k
  <2>1. CASE attempt' = NoAttempt
    BY <2>1 DEF NoAttempt
  <2>2. CASE attempt' = [attempt EXCEPT !.at = "finishing"]
    <3>1. attempt' \in [at : {"asking", "finishing", "none"}, key : Keys \cup {NoKey},
                        answered : BOOLEAN]
          /\ attempt'.at = "finishing" /\ attempt'.key = k
      BY <2>2 DEF Inv, Types
    <3>2. QED
      BY <3>1 DEF NoAttempt
  <2>3. QED
    BY <1>2, <2>1, <2>2
<1>9. Types'
  <2>1. record' \in [key : Keys \cup {NoKey}, retiring : SUBSET Keys] /\ record'.key # NoKey
    BY <1>1, <1>4, <1>6
  <2>2. attempt'.at # "none" => attempt'.key \in Keys
    BY <1>4, <1>8
  <2>3. QED
    BY <1>1, <1>3, <1>5, <1>8, <2>1, <2>2 DEF Inv, Types
<1>10. Paired' /\ OffRevoked' /\ CurrentTrusted'
  BY <1>1, <1>4, <1>5, <1>6, <1>7 DEF Inv, Types, Paired, OffRevoked, CurrentTrusted
<1>11. Apart' /\ AttemptKept'
  BY <1>1, <1>4, <1>6, <1>7, <1>8 DEF Inv, Apart, AttemptKept
<1>12. ForgettingApart'
  <2>1. Forgetting \subseteq InTasks
    BY DEF Forgetting, InTasks
  <2>2. k \notin Forgetting
    BY <1>4, <2>1 DEF Leaving
  <2>3. QED
    BY <1>3, <1>6, <2>2 DEF Inv, ForgettingApart, Retiring
<1>13. KeysAccounted'
  <2>1. record = NoRecord => Retiring = {}
    BY DEF Retiring, NoRecord
  <2>2. Retiring \subseteq keystore
    BY <2>1 DEF Inv, KeysAccounted, Retiring
  <2>3. keystore \subseteq {k} \cup Retiring \cup Forgetting
    <3>1. NoKey \notin keystore
      BY PhoneLinkAssumption DEF Inv, Types
    <3>2. QED
      BY <3>1 DEF Inv, KeysAccounted, Retiring
  <2>4. QED
    BY <1>1, <1>3, <1>4, <1>6, <2>2, <2>3 DEF KeysAccounted
<1>14. QED
  BY <1>3, <1>9, <1>10, <1>11, <1>12, <1>13 DEF Inv

\* The attempt ends, with its key where it saved nothing.
LEMMA AttemptEnds ==
    ASSUME Inv, attempt' = NoAttempt,
           \/ attempt.at = "asking" /\ keystore' = keystore \ {attempt.key}
           \/ attempt.at # "asking" /\ keystore' = keystore,
           UNCHANGED <<trust, record, goodbyes, off, revoked>>,
           tasks' \in Seq(TaskSet), QueueKept', InTasks' \subseteq InTasks,
           Forgetting' = Forgetting
    PROVE  Inv'
<1>1. Leaving' \subseteq Leaving
  BY DEF Leaving
<1>2. /\ attempt' \in [at : {"asking", "finishing", "none"}, key : Keys \cup {NoKey},
                       answered : BOOLEAN]
      /\ attempt'.at = "none"
  BY DEF NoAttempt
<1>3. Types'
  BY <1>2 DEF Inv, Types
<1>4. Paired' /\ OffRevoked' /\ CurrentTrusted' /\ Apart' /\ ForgettingApart' /\ AttemptKept'
  BY <1>1, <1>2
     DEF Inv, Paired, OffRevoked, CurrentTrusted, Apart, ForgettingApart, AttemptKept
<1>5. KeysAccounted'
  <2>1. attempt.at = "none" => attempt.key = NoKey
    BY DEF Inv, Types, NoAttempt
  <2>2. NoKey \notin keystore
    BY PhoneLinkAssumption DEF Inv, Types
  <2>3. keystore' \subseteq {record.key} \cup record.retiring \cup Forgetting
    BY <2>1, <2>2 DEF Inv, Types, KeysAccounted, AttemptKept
  <2>4. attempt.at = "asking" => attempt.key \notin {record.key} \cup record.retiring
    BY DEF Inv, Apart, Leaving
  <2>5. QED
    BY <2>3, <2>4 DEF Inv, KeysAccounted
<1>6. QED
  BY <1>3, <1>4, <1>5 DEF Inv

LEMMA EndingSteps ==
    ASSUME Inv, PairFails \/ cancelFinishing
    PROVE  Inv'
<1>1. InTasks' = InTasks /\ Forgetting' = Forgetting /\ QueueKept' /\ tasks' \in Seq(TaskSet)
  BY Still DEF PairFails, cancelFinishing, Inv, Types
<1>2. QED
  BY <1>1, AttemptEnds DEF PairFails, cancelFinishing, History

LEMMA ForgetStep ==
    ASSUME Inv, forget
    PROVE  Inv'
<1>1. /\ record # NoRecord /\ record.key \in Keys /\ record' = NoRecord
      /\ keystore' = keystore \ {record.key}
      /\ goodbyes' \subseteq goodbyes \cup {record.key}
      /\ UNCHANGED <<trust, attempt, off, revoked>>
  BY DEF forget, History, Inv, Types
<1>2. record'.key = NoKey /\ record'.retiring = {}
  BY <1>1 DEF NoRecord
<1>3. /\ tasks' \in Seq(TaskSet) /\ QueueKept'
      /\ InTasks' \subseteq InTasks \cup record.retiring
      /\ Forgetting' = Forgetting \cup record.retiring
  <2>1. CASE record.retiring = {}
    BY <2>1, Stops DEF forget, stop, Inv
  <2>2. CASE record.retiring # {}
    <3>1. tasks' = Append(Stopped(tasks), Task("forget", record.retiring))
      BY <2>2 DEF forget
    <3>2. record.retiring \in SUBSET Keys
      BY DEF Inv, Types
    <3>3. Types /\ QueueKept
      BY DEF Inv
    <3>4. \A keys \in SUBSET Keys :
            tasks' = Append(Stopped(tasks), Task("forget", keys)) =>
              /\ tasks' \in Seq(TaskSet) /\ QueueKept' /\ InTasks' \subseteq InTasks \cup keys
              /\ Forgetting' = Forgetting \cup keys
      BY <3>3, Joins
    <3>5. QED
      BY <3>1, <3>2, <3>4
  <2>3. QED
    BY <2>1, <2>2
<1>4. Leaving' \subseteq Leaving \cup {record.key}
  BY <1>1, <1>2, <1>3 DEF Leaving
<1>5. Types'
  <2>1. record' \in [key : Keys \cup {NoKey}, retiring : SUBSET Keys]
    BY <1>1 DEF NoRecord
  <2>2. keystore' \subseteq Keys /\ goodbyes' \subseteq Keys
    BY <1>1 DEF Inv, Types
  <2>3. QED
    BY <1>1, <1>3, <2>1, <2>2 DEF Inv, Types
<1>6. Paired' /\ OffRevoked' /\ CurrentTrusted'
  BY <1>1, <1>2, <1>4, PhoneLinkAssumption DEF Inv, Paired, OffRevoked, CurrentTrusted
<1>7. Apart'
  <2>1. NoKey \notin Leaving'
    BY <1>1, <1>4, AllKeys, PhoneLinkAssumption DEF Inv
  <2>2. attempt.at = "asking" => attempt.key \in Keys
    BY DEF Inv, Types
  <2>3. QED
    BY <1>1, <1>2, <1>4, <2>1, <2>2, PhoneLinkAssumption DEF Inv, Apart
<1>8. ForgettingApart'
  <2>1. NoKey \notin Forgetting'
    <3>1. Forgetting \subseteq InTasks
      BY DEF Forgetting, InTasks
    <3>2. QED
      BY <1>3, <3>1, AllKeys, PhoneLinkAssumption DEF Inv, Types
  <2>2. QED
    BY <1>2, <2>1 DEF ForgettingApart
<1>9. AttemptKept'
  BY <1>1 DEF Inv, Apart, AttemptKept
<1>10. KeysAccounted'
  BY <1>1, <1>2, <1>3 DEF Inv, KeysAccounted
<1>11. QED
  BY <1>3, <1>5, <1>6, <1>7, <1>8, <1>9, <1>10 DEF Inv

\* Trust is taken from a key that is on its way out, and from no other.
LEMMA LeavingRevoked ==
    ASSUME Inv, NEW k \in Leaving,
           trust' \in {trust, [trust EXCEPT ![k] = "revoked"]},
           UNCHANGED off, revoked' = revoked,
           record' = record \/ (record'.key = record.key /\ record # NoRecord)
    PROVE  /\ trust' \in [Keys -> {"unknown", "asked", "approved", "denied", "live", "revoked"}]
           /\ \A i \in Keys : trust[i] \in {"live", "revoked"} => trust'[i] \in {"live", "revoked"}
           /\ OffRevoked' /\ CurrentTrusted'
<1>1. k \in Keys /\ k # record.key
  BY AllKeys DEF Inv, Apart
<1>2. QED
  BY <1>1 DEF Inv, Types, OffRevoked, CurrentTrusted

LEMMA GoodbyeStep ==
    ASSUME Inv, NEW k \in Keys, NEW fate \in Fates, Goodbye(k, fate)
    PROVE  Inv'
<1>1. /\ k \in goodbyes /\ k \in Leaving /\ trust' \in {trust, [trust EXCEPT ![k] = "revoked"]}
      /\ goodbyes' \subseteq goodbyes
      /\ UNCHANGED <<keystore, record, attempt, tasks, off, revoked>>
  BY DEF Goodbye, History, Leaving
<1>2. InTasks' = InTasks /\ Forgetting' = Forgetting /\ QueueKept'
  BY <1>1, Still DEF Inv
<1>3. Leaving' \subseteq Leaving /\ Leaving \subseteq Keys
  BY <1>1, <1>2, AllKeys DEF Leaving, Inv
<1>4. /\ trust' \in [Keys -> {"unknown", "asked", "approved", "denied", "live", "revoked"}]
      /\ \A i \in Keys : trust[i] \in {"live", "revoked"} => trust'[i] \in {"live", "revoked"}
      /\ OffRevoked' /\ CurrentTrusted'
  BY <1>1, LeavingRevoked
<1>5. Types' /\ Paired'
  BY <1>1, <1>3, <1>4 DEF Inv, Types, Paired
<1>6. Apart' /\ ForgettingApart' /\ AttemptKept' /\ KeysAccounted'
  BY <1>1, <1>2, <1>3 DEF Inv, Apart, ForgettingApart, AttemptKept, KeysAccounted
<1>7. QED
  BY <1>2, <1>4, <1>5, <1>6 DEF Inv

-----------------------------------------------------------------------------
(* Retiring. *)

LEMMA HeadFacts ==
    ASSUME Inv, tasks # <<>>
    PROVE  /\ Head(tasks) \in TaskSet /\ Head(tasks) = tasks[1] /\ 1 \in DOMAIN tasks
           /\ Head(tasks).keys \subseteq InTasks
           /\ Head(tasks).kind = "forget" => Head(tasks).keys \subseteq Forgetting
           /\ Head(tasks).at = "opened" => Head(tasks).key \in Head(tasks).keys
           /\ Head(tasks).at = "cancelled" => Head(tasks).keys = {}
<1>1. /\ Head(tasks) \in TaskSet /\ Head(tasks) = tasks[1] /\ 1 \in DOMAIN tasks
  BY DEF Inv, Types
<1>2. QED
  BY <1>1 DEF InTasks, Forgetting, Inv, QueueKept

LEMMA RetireBeginsStep ==
    ASSUME Inv, RetireBegins
    PROVE  Inv'
<1> DEFINE h == Head(tasks)
<1> DEFINE t == [h EXCEPT !.at = "next",
                          !.keys = IF h.kind = "forget" THEN @ ELSE record.retiring]
<1>1. tasks # <<>> /\ Become(t)
      /\ UNCHANGED <<trust, keystore, record, attempt, goodbyes, off, revoked>>
  BY DEF RetireBegins, Running, History
<1>2. h \in TaskSet /\ h.keys \subseteq InTasks /\ record.retiring \in SUBSET Keys
  BY <1>1, HeadFacts DEF Inv, Types
<1>3. /\ t \in TaskSet /\ t.kind = h.kind /\ t.at = "next"
      /\ t.keys \subseteq InTasks \cup record.retiring
      /\ t.kind # "forget" \/ t.keys = h.keys
  BY <1>2 DEF TaskSet
<1>4. /\ tasks' \in Seq(TaskSet) /\ QueueKept'
      /\ InTasks' \subseteq InTasks \cup t.keys /\ Forgetting' = Forgetting
  <2>1. Types /\ QueueKept
    BY DEF Inv
  <2>2. (t.at = "opened" => t.key \in t.keys) /\ t.at # "cancelled"
    BY <1>3
  <2>3. QED
    BY <1>1, <1>3, <2>1, <2>2, Becomes
<1>5. InTasks' \subseteq Leaving
  BY <1>3, <1>4 DEF Leaving
<1>6. QED
  BY <1>1, <1>4, <1>5, QueueSteps

LEMMA RetireEndsStep ==
    ASSUME Inv, RetireEnds \/ RetireCancelled
    PROVE  Inv'
<1>1. tasks # <<>> /\ tasks' = Tail(tasks)
      /\ UNCHANGED <<trust, keystore, record, goodbyes, off, revoked>>
  BY DEF RetireEnds, RetireCancelled, Running, History
<1>2. attempt' = attempt \/ (attempt' = NoAttempt /\ attempt.at # "asking")
  BY DEF RetireEnds, RetireCancelled
<1>3. Head(tasks).kind = "forget" => Head(tasks).keys = {}
  BY <1>1, HeadFacts DEF RetireEnds, RetireCancelled, Running
<1>4. /\ tasks' \in Seq(TaskSet) /\ QueueKept' /\ InTasks' \subseteq InTasks
      /\ Forgetting' = Forgetting
  BY <1>1, <1>3, Leaves DEF Inv
<1>5. InTasks' \subseteq Leaving
  BY <1>4 DEF Leaving
<1>6. QED
  BY <1>1, <1>2, <1>4, <1>5, QueueSteps, AttemptEnds

\* Being through with a key, whatever became of its trust meanwhile.
LEMMA ThroughStep ==
    ASSUME Inv, tasks # <<>>, NEW k \in Head(tasks).keys, NEW done \in BOOLEAN,
           Through(k, done),
           trust' \in {trust, [trust EXCEPT ![k] = "revoked"]},
           done => trust'[k] = "revoked",
           UNCHANGED <<attempt, goodbyes, revoked>>
    PROVE  Inv'
<1> DEFINE h == Head(tasks)
<1> DEFINE t == [h EXCEPT !.at = "next", !.keys = @ \ {k}, !.key = NoKey]
<1>1. h \in TaskSet /\ h.keys \subseteq InTasks /\ (h.kind = "forget" => k \in Forgetting)
  BY HeadFacts
<1>2. k \in Leaving /\ Leaving \subseteq Keys /\ InTasks \subseteq Keys /\ k \in Keys
  BY <1>1, AllKeys DEF Leaving, Inv
<1>3. /\ Become(t)
      /\ record' = IF done /\ h.kind # "forget" THEN [record EXCEPT !.retiring = @ \ {k}] ELSE record
      /\ keystore' = IF done \/ h.kind = "forget" THEN keystore \ {k} ELSE keystore
      /\ off' = IF done /\ h.kind # "forget" THEN off \cup {k} ELSE off
  BY DEF Through
<1>4. t \in TaskSet /\ t.kind = h.kind /\ t.at = "next" /\ t.keys = h.keys \ {k}
  BY <1>1 DEF TaskSet
<1>5. /\ tasks' \in Seq(TaskSet) /\ QueueKept' /\ InTasks' \subseteq InTasks
      /\ Forgetting' \subseteq Forgetting
      /\ Forgetting \subseteq Forgetting' \cup {k}
      /\ h.kind # "forget" => Forgetting' = Forgetting
  <2>1. Types /\ QueueKept
    BY DEF Inv
  <2>2. (t.at = "opened" => t.key \in t.keys) /\ t.at # "cancelled"
    BY <1>4
  <2>3. /\ tasks' \in Seq(TaskSet) /\ QueueKept'
        /\ InTasks' \subseteq InTasks \cup t.keys
        /\ t.kind # "forget" => Forgetting' = Forgetting
        /\ t.kind = "forget" =>
              Forgetting' \subseteq Forgetting /\ Forgetting \subseteq Forgetting' \cup {k}
    BY <1>3, <1>4, <2>1, <2>2, Becomes
  <2>4. QED
    BY <1>1, <1>4, <2>3
<1>6. /\ record' \in [key : Keys \cup {NoKey}, retiring : SUBSET Keys]
      /\ record'.key = record.key /\ record'.retiring \subseteq record.retiring
      /\ record.retiring \subseteq record'.retiring \cup {k}
      /\ k \in record'.retiring => record' = record
      /\ record = NoRecord => record' = NoRecord
  <2>1. record \in [key : Keys \cup {NoKey}, retiring : SUBSET Keys]
    BY DEF Inv, Types
  <2>2. CASE done /\ h.kind # "forget"
    <3>1. record' = [record EXCEPT !.retiring = @ \ {k}]
      BY <1>3, <2>2
    <3>2. /\ record' \in [key : Keys \cup {NoKey}, retiring : SUBSET Keys]
          /\ record'.key = record.key /\ record'.retiring = record.retiring \ {k}
      BY <2>1, <3>1
    <3>3. ASSUME record = NoRecord PROVE record' = NoRecord
      <4>1. record'.key = NoKey /\ record'.retiring = {}
        BY <3>2, <3>3 DEF NoRecord
      <4>2. record' = [key |-> record'.key, retiring |-> record'.retiring]
        BY <3>2
      <4>3. QED
        BY <4>1, <4>2 DEF NoRecord
    <3>4. QED
      BY <3>2, <3>3
  <2>3. CASE ~(done /\ h.kind # "forget")
    <3>1. record' = record
      BY <1>3, <2>3
    <3>2. QED
      BY <2>1, <3>1
  <2>4. QED
    BY <2>2, <2>3
<1>7. Leaving' \subseteq Leaving
  BY <1>5, <1>6 DEF Leaving
<1>8. k # record.key /\ (attempt.at = "asking" => k # attempt.key)
  BY <1>2 DEF Inv, Apart
<1>9. /\ trust' \in [Keys -> {"unknown", "asked", "approved", "denied", "live", "revoked"}]
      /\ \A i \in Keys : i # k => trust'[i] = trust[i]
      /\ trust'[k] = trust[k] \/ trust'[k] = "revoked"
  BY <1>2 DEF Inv, Types
<1>10. Types'
  <2>1. keystore' \subseteq Keys /\ off' \subseteq Keys
    BY <1>2, <1>3 DEF Inv, Types
  <2>2. record'.key = NoKey => record' = NoRecord
    BY <1>6 DEF Inv, Types
  <2>3. QED
    BY <1>5, <1>6, <1>9, <2>1, <2>2 DEF Inv, Types
<1>11. Paired'
  BY <1>2, <1>6, <1>7, <1>9 DEF Inv, Types, Paired
<1>12. Apart'
  BY <1>2, <1>3, <1>6, <1>7, <1>8 DEF Inv, Apart
<1>13. ForgettingApart'
  BY <1>5, <1>6 DEF Inv, ForgettingApart
<1>14. AttemptKept'
  BY <1>3, <1>6, <1>8 DEF Inv, AttemptKept
<1>15. OffRevoked' /\ CurrentTrusted'
  <2>1. off \subseteq Keys /\ (record # NoRecord => record.key \in Keys)
    BY DEF Inv, Types
  <2>2. OffRevoked'
    BY <1>3, <1>9, <2>1 DEF Inv, OffRevoked
  <2>3. record' # NoRecord => record # NoRecord
    BY <1>6
  <2>4. CurrentTrusted'
    BY <1>6, <1>8, <1>9, <2>1, <2>3 DEF Inv, CurrentTrusted
  <2>5. QED
    BY <2>2, <2>4
<1>16. KeysAccounted'
  <2>1. keystore' \subseteq {record'.key, attempt'.key} \cup record'.retiring \cup Forgetting'
    BY <1>3, <1>5, <1>6 DEF Inv, KeysAccounted
  <2>2. record' # NoRecord => {record'.key} \cup record'.retiring \subseteq keystore'
    <3>1. record # NoRecord => {record.key} \cup record.retiring \subseteq keystore
      BY DEF Inv, KeysAccounted
    <3>2. h.kind = "forget" => k \notin record.retiring
      BY <1>1 DEF Inv, ForgettingApart
    <3>3. keystore' # keystore => k \notin record'.retiring
      BY <1>3, <1>6, <3>2 DEF Inv, Types
    <3>4. QED
      BY <1>3, <1>6, <1>8, <3>1, <3>3
  <2>3. QED
    BY <2>1, <2>2 DEF KeysAccounted
<1>17. QED
  BY <1>5, <1>10, <1>11, <1>12, <1>13, <1>14, <1>15, <1>16 DEF Inv

LEMMA RetireOpensStep ==
    ASSUME Inv, NEW k \in Keys, NEW reached \in BOOLEAN, RetireOpens(k, reached)
    PROVE  Inv'
<1> DEFINE h == Head(tasks)
<1>1. tasks # <<>> /\ h.at = "next" /\ k \in h.keys
      /\ UNCHANGED <<trust, attempt, goodbyes, revoked>>
  BY DEF RetireOpens, Running
<1>2. CASE reached /\ k \in keystore /\ trust[k] = "live"
  <2> DEFINE t == [h EXCEPT !.at = "opened", !.key = k]
  <2>1. Become(t) /\ UNCHANGED <<keystore, record, off>>
    BY <1>2 DEF RetireOpens
  <2>2. h \in TaskSet /\ h.keys \subseteq InTasks
    BY <1>1, HeadFacts
  <2>3. t \in TaskSet /\ t.kind = h.kind /\ t.at = "opened" /\ t.key = k /\ t.keys = h.keys
    BY <2>2 DEF TaskSet
  <2>4. /\ tasks' \in Seq(TaskSet) /\ QueueKept' /\ InTasks' \subseteq InTasks
        /\ Forgetting' = Forgetting
    <3>1. Types /\ QueueKept
      BY DEF Inv
    <3>2. (t.at = "opened" => t.key \in t.keys) /\ t.at # "cancelled"
      BY <1>1, <2>3
    <3>3. QED
      BY <1>1, <2>1, <2>2, <2>3, <3>1, <3>2, Becomes
  <2>5. InTasks' \subseteq Leaving
    BY <2>4 DEF Leaving
  <2>6. QED
    BY <1>1, <2>1, <2>4, <2>5, QueueSteps
<1>3. CASE ~(reached /\ k \in keystore /\ trust[k] = "live")
  <2> DEFINE done == reached /\ k \in keystore
  <2>1. Through(k, done) /\ done \in BOOLEAN
    BY <1>3 DEF RetireOpens
  <2>2. k \in Leaving
    BY <1>1, HeadFacts DEF Leaving
  <2>3. done => trust[k] = "revoked"
    BY <1>3, <2>2 DEF Inv, Paired
  <2> HIDE DEF done
  <2>4. QED
    BY <1>1, <2>1, <2>3, ThroughStep
<1>4. QED
  BY <1>2, <1>3

LEMMA RetireUnpairsStep ==
    ASSUME Inv, NEW fate \in Fates, RetireUnpairs(fate)
    PROVE  Inv'
<1> DEFINE k == Head(tasks).key
<1> DEFINE done == fate = "answered"
<1>1. /\ tasks # <<>> /\ Head(tasks).at = "opened" /\ Through(k, done) /\ done \in BOOLEAN
      /\ UNCHANGED <<attempt, goodbyes, revoked>>
      /\ trust' = IF Reaches(fate) /\ trust[k] = "live" THEN [trust EXCEPT ![k] = "revoked"]
                  ELSE trust
  BY DEF RetireUnpairs, Running, retireProved, Unpaired
<1>2. k \in Head(tasks).keys /\ k \in Leaving /\ k \in Keys
  BY <1>1, HeadFacts, AllKeys DEF Leaving, Inv
<1>3. trust[k] \in {"live", "revoked"}
  BY <1>2 DEF Inv, Paired
<1>4. done => trust'[k] = "revoked"
  BY <1>1, <1>2, <1>3 DEF Reaches, Inv, Types
<1>5. trust' \in {trust, [trust EXCEPT ![k] = "revoked"]}
  BY <1>1
<1> HIDE DEF k, done
<1>6. QED
  BY <1>1, <1>2, <1>4, <1>5, ThroughStep

-----------------------------------------------------------------------------
LEMMA StartStep ==
    ASSUME Inv, start
    PROVE  Inv'
<1>1. /\ keystore' = keystore \cap ({record.key} \cup record.retiring)
      /\ attempt' = NoAttempt /\ tasks' = <<>> /\ goodbyes' = {}
      /\ UNCHANGED <<trust, record, off, revoked>>
  BY DEF start
<1>2. DOMAIN tasks' = {} /\ tasks' \in Seq(TaskSet)
  BY <1>1
<1>3. InTasks' = {} /\ Forgetting' = {} /\ QueueKept'
  BY <1>2 DEF InTasks, Forgetting, QueueKept
<1>4. Leaving' \subseteq Leaving
  BY <1>1, <1>3 DEF Leaving
<1>5. /\ attempt' \in [at : {"asking", "finishing", "none"}, key : Keys \cup {NoKey},
                       answered : BOOLEAN]
      /\ attempt'.at = "none"
  BY <1>1 DEF NoAttempt
<1>6. Types'
  BY <1>1, <1>2, <1>5 DEF Inv, Types
<1>7. Paired' /\ Apart' /\ ForgettingApart' /\ AttemptKept' /\ OffRevoked' /\ CurrentTrusted'
  BY <1>1, <1>3, <1>4, <1>5
     DEF Inv, Paired, Apart, ForgettingApart, AttemptKept, OffRevoked, CurrentTrusted
<1>8. KeysAccounted'
  BY <1>1 DEF Inv, KeysAccounted
<1>9. QED
  BY <1>3, <1>6, <1>7, <1>8 DEF Inv

LEMMA InvNext == Inv /\ [Next]_vars => Inv'
<1> SUFFICES ASSUME Inv, [Next]_vars PROVE Inv'
  OBVIOUS
<1>1. ASSUME NEW k \in Keys, Approve(k) \/ Deny(k) \/ Revoke(k) PROVE Inv'
  BY <1>1, TrustSteps
<1>2. ASSUME NEW k \in Keys, pair(k) PROVE Inv'
  BY <1>2, PairStep
<1>3. ASSUME NEW k \in Keys, NEW fate \in Fates, Goodbye(k, fate) PROVE Inv'
  BY <1>3, GoodbyeStep
<1>4. ASSUME NEW k \in Keys, NEW reached \in BOOLEAN, RetireOpens(k, reached) PROVE Inv'
  BY <1>4, RetireOpensStep
<1>5. CASE (\E reached \in BOOLEAN : connectOnce(reached)) \/ Ends \/ disconnect \/ connect
  BY <1>5, LoopSteps
<1>6. CASE (\E fate \in Fates : Ask(fate)) \/ AskLost
  BY <1>6, AskSteps
<1>7. ASSUME NEW fate \in Fates, RetireUnpairs(fate) PROVE Inv'
  BY <1>7, RetireUnpairsStep
<1>8. CASE Accepted
  BY <1>8, AcceptStep
<1>9. CASE PairFails \/ cancelFinishing
  BY <1>9, EndingSteps
<1>10. CASE forget
  BY <1>10, ForgetStep
<1>11. CASE RetireBegins
  BY <1>11, RetireBeginsStep
<1>12. CASE RetireEnds \/ RetireCancelled
  BY <1>12, RetireEndsStep
<1>13. CASE start
  BY <1>13, StartStep
<1>14. CASE UNCHANGED vars
  <2>1. UNCHANGED <<trust, keystore, record, attempt, tasks, goodbyes, off, revoked>>
    BY <1>14 DEF vars
  <2>2. InTasks' = InTasks /\ Forgetting' = Forgetting /\ QueueKept' /\ tasks' \in Seq(TaskSet)
    BY <2>1, Still DEF Inv, Types
  <2>3. InTasks' \subseteq Leaving
    BY <2>2 DEF Leaving
  <2>4. QED
    BY <2>1, <2>2, <2>3, QueueSteps
<1>15. QED
  BY <1>1, <1>2, <1>3, <1>4, <1>5, <1>6, <1>7, <1>8, <1>9, <1>10, <1>11, <1>12, <1>13, <1>14
     DEF Next

\* The inductive invariant holds of every history of pairings, connections,
\* retirements and forgetting (ConnectionManager.kt, PairingController.kt).
THEOREM InvHolds == Spec => []Inv
BY InvInit, InvNext, PTL DEF Spec

\* Whichever requests were lost and however pairings, connections, forgetting
\* and retirements overlap, a key taken off the list of those to retire is one
\* the PC trusts no more (ConnectionManager.kt `retirePrevious`, `retire`).
THEOREM RetiredUntrustedHolds == Spec => []RetiredUntrusted
<1>1. Inv => RetiredUntrusted
  BY DEF Inv, OffRevoked, RetiredUntrusted
<1>2. QED
  BY <1>1, InvHolds, PTL

\* Retiring earlier keys never costs the pairing in use: its key is trusted
\* until the person at the PC revokes it (ConnectionManager.kt `retire`).
THEOREM CurrentTrustedHolds == Spec => []CurrentTrusted
<1>1. Inv => CurrentTrusted
  BY DEF Inv
<1>2. QED
  BY <1>1, InvHolds, PTL

\* The phone holds no key that nothing accounts for, and every key its record
\* needs (ConnectionManager.kt `pair`, `forget`, `start`).
THEOREM KeysAccountedHolds == Spec => []KeysAccounted
<1>1. Inv => KeysAccounted
  BY DEF Inv
<1>2. QED
  BY <1>1, InvHolds, PTL

-----------------------------------------------------------------------------
(* ProjectSync.                                                            *)
(*                                                                         *)
(* A removal may rest on a sync's confirmations long after the PC gave     *)
(* them, so what the PC said of a document is carried from its plan, its   *)
(* write or the check before a removal to the removal (Spoken, Backed),    *)
(* and a record to the removal it allows through what the PC has held      *)
(* (PcHeld, SeenTrue, ItemsTrue, ConfirmedTrue).  A save names the text    *)
(* its plan met, so it replaces nothing else.                              *)

\* What the PC holds, and what a record or a plan says of it.
PcHeld ==
    \A d \in Docs, s \in Sides : pc[d][s] # Absent => <<d, s, pc[d][s]>> \in held

True(d, r) == <<d, r.side, r.pc>> \in held /\ r.pc \in {r.local, admissible(r.local)}

SeenTrue == \A d \in DOMAIN sync.seen : sync.seen[d] # None => True(d, sync.seen[d])

ItemsTrue ==
    \A d \in DOMAIN sync.items : sync.items[d].state = "identical" =>
        /\ sync.items[d].pc # Absent
        /\ <<d, sync.items[d].side, sync.items[d].pc>> \in held
        /\ sync.items[d].pc \in {sync.items[d].text, admissible(sync.items[d].text)}

ConfirmedTrue == \A d \in DOMAIN sync.confirmed : True(d, sync.confirmed[d])

Before == {"planning", "planned", "folders"}

\* How far a sync has come.
Progress ==
    /\ sync.phase \in Before => DOMAIN sync.confirmed = {}
    /\ sync.phase = "planning" =>
          DOMAIN sync.seen = Docs /\ sync.todo \cap DOMAIN sync.items = {}
    /\ sync.phase = "folders" => sync.todo \subseteq DOMAIN sync.items
    /\ sync.phase = "sending" =>
          sync.todo \subseteq DOMAIN sync.items \ DOMAIN sync.confirmed

\* What the PC last said of a document still holds, unless it changed since.
Spoken ==
    sync.phase \in Before \cup {"sending", "reading"} =>
        \A d \in DOMAIN sync.items \ moved :
            /\ local[d] = sync.items[d].text
            /\ d \in DOMAIN sync.confirmed => OnPc(d)
            /\ sync.phase \in Before \/ (sync.phase = "sending" /\ d \in sync.todo) =>
                  pc[d][sync.items[d].side] = sync.items[d].pc

\* What is about to be removed the PC holds, unless it changed since.
Backed ==
    /\ sync.phase \in {"synced", "removing"} => \A d \in documents \ moved : OnPc(d)
    /\ sync.phase = "verifying" => \A d \in documents \ (moved \cup sync.todo) : OnPc(d)

SyncInv ==
    /\ SyncTypeOK /\ PcHeld /\ RecordsTrue /\ SeenTrue /\ ItemsTrue /\ ConfirmedTrue
    /\ Progress /\ Spoken /\ Backed /\ RemovedOnlyHeld /\ ReplacedOnlyPlanned

LEMMA PutType ==
    ASSUME NEW S, NEW f, ForSome(f, S), NEW d \in Docs, NEW v \in S
    PROVE  ForSome(Put(f, d, v), S)
<1>1. PICK D \in SUBSET Docs : f \in [D -> S]
  BY DEF ForSome
<1>2. Put(f, d, v) \in [D \cup {d} -> S]
  BY <1>1 DEF Put
<1>3. QED
  BY <1>2 DEF ForSome

LEMMA NothingType == \A S : ForSome(Nothing, S)
<1>1. \A S : Nothing \in [{} -> S]
  BY DEF Nothing
<1>2. QED
  BY <1>1 DEF ForSome

LEMMA NoneThere == DOMAIN Nothing = {}
BY DEF Nothing

\* A sync that holds nothing but what is still to do.
Fresh(y, p, T) ==
    /\ SyncOK(y) /\ y.phase = p /\ y.todo = T
    /\ y.items = Nothing /\ y.seen = Nothing /\ y.confirmed = Nothing

LEMMA IdleOK ==
    ASSUME NEW p \in Phases, NEW T \in SUBSET Docs
    PROVE  /\ Fresh(Idle, "idle", {})
           /\ Fresh([Idle EXCEPT !.phase = p], p, {})
           /\ Fresh([Idle EXCEPT !.phase = p, !.todo = T], p, T)
BY NothingType DEF Fresh, SyncOK, Idle, Phases

LEMMA Admissible == \A t \in Texts : admissible(t) \in Texts
BY DEF Texts, admissible

\* Sending begins with everything to do, whether the folders were made or not.
LEMMA BeginSending ==
    ASSUME SyncInv, sync.phase = "folders",
           NEW lost \in BOOLEAN, NEW unreachable \in BOOLEAN, NEW folder \in BOOLEAN,
           sync' = [sync EXCEPT !.phase = "sending", !.lost = lost,
                                !.unreachable = unreachable, !.folder = folder],
           UNCHANGED <<local, records, folderRecord, unsaved, moved, overwrote, unbacked,
                       pc, held>>,
           pcFolder' \in {"none", "folder", "file"}
    PROVE  SyncInv'
<1>1. /\ SyncOK(sync) /\ DOMAIN sync' = DOMAIN Idle /\ sync'.phase = "sending"
      /\ sync'.items = sync.items /\ sync'.todo = sync.todo
      /\ sync'.whole = sync.whole /\ sync'.removeAfter = sync.removeAfter
      /\ sync'.lost = lost /\ sync'.unreachable = unreachable /\ sync'.folder = folder
      /\ sync'.seen = sync.seen /\ sync'.confirmed = sync.confirmed
  BY DEF SyncInv, SyncTypeOK, SyncOK, Idle
<1>2. DOMAIN sync.confirmed = {} /\ sync.todo \subseteq DOMAIN sync.items
  BY DEF SyncInv, Progress, Before
<1>3. SyncTypeOK'
  BY <1>1 DEF SyncInv, SyncTypeOK, SyncOK, Phases
<1>4. SeenTrue' /\ ConfirmedTrue' /\ ItemsTrue'
  BY <1>1 DEF SyncInv, SeenTrue, ConfirmedTrue, ItemsTrue, True
<1>5. Progress' /\ Spoken' /\ Backed'
  BY <1>1, <1>2 DEF SyncInv, Progress, Spoken, Backed, Before
<1>6. PcHeld' /\ RecordsTrue' /\ RemovedOnlyHeld' /\ ReplacedOnlyPlanned'
  BY DEF SyncInv, PcHeld, RecordsTrue, RemovedOnlyHeld, ReplacedOnlyPlanned
<1>7. QED
  BY <1>3, <1>4, <1>5, <1>6 DEF SyncInv

\* An outcome of sending one document: what is confirmed of it, if anything.
LEMMA Outcome ==
    ASSUME SyncOK(sync), sync.phase = "sending", NEW d \in sync.todo,
           NEW ok \in BOOLEAN, NEW r, ok => r \in Records, NEW lost \in BOOLEAN,
           sync' = [Done(d, ok, r) EXCEPT !.lost = lost]
    PROVE  /\ SyncOK(sync') /\ sync'.phase = "sending" /\ sync'.items = sync.items
           /\ sync'.seen = sync.seen /\ sync'.todo = sync.todo \ {d} /\ d \in Docs
           /\ ok => /\ DOMAIN sync'.confirmed = DOMAIN sync.confirmed \cup {d}
                    /\ sync'.confirmed[d] = r
                    /\ \A x \in DOMAIN sync.confirmed : x # d =>
                           sync'.confirmed[x] = sync.confirmed[x]
           /\ ~ok => sync'.confirmed = sync.confirmed
<1>1. /\ DOMAIN sync' = DOMAIN Idle /\ sync'.phase = "sending" /\ sync'.items = sync.items
      /\ sync'.seen = sync.seen /\ sync'.todo = sync.todo \ {d} /\ sync'.lost = lost
      /\ sync'.whole = sync.whole /\ sync'.removeAfter = sync.removeAfter
      /\ sync'.unreachable = sync.unreachable /\ sync'.folder = sync.folder
      /\ sync'.confirmed = IF ok THEN Put(sync.confirmed, d, r) ELSE sync.confirmed
  BY DEF Done, SyncOK, Idle
<1>2. d \in Docs
  BY DEF SyncOK
<1>3. ForSome(sync'.confirmed, Records)
  BY <1>1, <1>2, PutType DEF SyncOK
<1>4. SyncOK(sync')
  BY <1>1, <1>3 DEF SyncOK, Phases
<1> DEFINE c == Put(sync.confirmed, d, r)
<1>5. /\ DOMAIN c = DOMAIN sync.confirmed \cup {d} /\ c[d] = r
      /\ \A x \in DOMAIN sync.confirmed : x # d => c[x] = sync.confirmed[x]
  BY DEF Put
<1>6. ok => sync'.confirmed = c
  BY <1>1
<1>7. ~ok => sync'.confirmed = sync.confirmed
  BY <1>1
<1> HIDE DEF c
<1>8. QED
  BY <1>1, <1>2, <1>4, <1>5, <1>6, <1>7

\* What one outcome keeps: nothing but the document sent changed on the PC, and
\* what is confirmed of it the PC holds.
LEMMA Confirming ==
    ASSUME SyncInv, sync.phase = "sending", NEW d \in sync.todo,
           NEW ok \in BOOLEAN, NEW r, NEW lost \in BOOLEAN,
           sync' = [Done(d, ok, r) EXCEPT !.lost = lost],
           UNCHANGED <<local, records, folderRecord, unsaved, overwrote, unbacked>>,
           ok => /\ r \in Records /\ <<d, r.side, r.pc>> \in held'
                 /\ r.pc \in {r.local, admissible(r.local)},
           pc' \in [Docs -> [Sides -> Contents]], pcFolder' \in {"none", "folder", "file"},
           held \subseteq held', held' \subseteq Docs \X Sides \X Contents, PcHeld',
           \A x \in Docs : x # d => pc'[x] = pc[x],
           moved' \in {moved, moved \ {d}},
           d \in moved \ moved' => local[d] = sync.items[d].text,
           ok /\ d \notin moved' => OnPc(d)'
    PROVE  SyncInv'
<1>1. SyncOK(sync) /\ sync.todo \subseteq DOMAIN sync.items \ DOMAIN sync.confirmed
  BY DEF SyncInv, SyncTypeOK, Progress
<1>2. /\ SyncOK(sync') /\ sync'.phase = "sending" /\ sync'.items = sync.items
      /\ sync'.seen = sync.seen /\ sync'.todo = sync.todo \ {d} /\ d \in Docs
      /\ ok => /\ DOMAIN sync'.confirmed = DOMAIN sync.confirmed \cup {d}
               /\ sync'.confirmed[d] = r
               /\ \A x \in DOMAIN sync.confirmed : x # d =>
                      sync'.confirmed[x] = sync.confirmed[x]
      /\ ~ok => sync'.confirmed = sync.confirmed
  BY <1>1, Outcome
<1>3. SyncTypeOK'
  BY <1>2 DEF SyncInv, SyncTypeOK
<1>4. RecordsTrue' /\ SeenTrue' /\ ItemsTrue'
  BY <1>2 DEF SyncInv, RecordsTrue, SeenTrue, ItemsTrue, True
<1>5. ConfirmedTrue'
  <2>1. ASSUME NEW x \in DOMAIN sync'.confirmed PROVE True(x, sync.confirmed[x])'
    <3>1. CASE x = d /\ ok
      BY <1>2, <3>1 DEF True
    <3>2. CASE x # d \/ ~ok
      BY <1>1, <1>2, <3>2 DEF SyncInv, ConfirmedTrue, True
    <3>3. QED
      BY <3>1, <3>2
  <2>2. QED
    BY <2>1 DEF ConfirmedTrue
<1>6. Progress'
  BY <1>1, <1>2 DEF Progress, Before
<1>7. Spoken'
  <2>1. ASSUME NEW x \in DOMAIN sync.items \ moved'
        PROVE  /\ local[x] = sync.items[x].text
               /\ x \in DOMAIN sync'.confirmed => OnPc(x)'
               /\ x \in sync'.todo => pc'[x][sync.items[x].side] = sync.items[x].pc
    <3>1. x \in Docs
      BY <1>1 DEF SyncOK, ForSome
    <3>2. CASE x = d
      BY <1>1, <1>2, <3>2 DEF SyncInv, Spoken
    <3>3. CASE x # d
      BY <1>2, <3>1, <3>3 DEF SyncInv, Spoken, OnPc
    <3>4. QED
      BY <3>2, <3>3
  <2>2. QED
    BY <1>2, <2>1 DEF Spoken, Before
<1>8. Backed' /\ RemovedOnlyHeld' /\ ReplacedOnlyPlanned'
  BY <1>2 DEF SyncInv, Backed, RemovedOnlyHeld, ReplacedOnlyPlanned
<1>9. QED
  BY <1>3, <1>4, <1>5, <1>6, <1>7, <1>8 DEF SyncInv

\* A sync that ends without a removal leaves nothing to keep.
LEMMA Forgotten ==
    ASSUME SyncInv, sync' = Idle, unsaved' \in {unsaved, {}},
           UNCHANGED <<local, records, folderRecord, pc, pcFolder, held, moved, overwrote,
                       unbacked>>
    PROVE  SyncInv'
<1>1. SyncOK(sync') /\ sync'.phase = "idle" /\ sync'.items = Nothing /\ sync'.seen = Nothing
      /\ sync'.confirmed = Nothing
  BY IdleOK DEF Fresh, Phases
<1>2. SyncTypeOK'
  BY <1>1 DEF SyncInv, SyncTypeOK
<1>3. SeenTrue' /\ ItemsTrue' /\ ConfirmedTrue' /\ Progress' /\ Spoken' /\ Backed'
  BY <1>1, NoneThere DEF SeenTrue, ItemsTrue, ConfirmedTrue, Progress, Spoken, Backed, Before
<1>4. PcHeld' /\ RecordsTrue' /\ RemovedOnlyHeld' /\ ReplacedOnlyPlanned'
  BY DEF SyncInv, PcHeld, RecordsTrue, RemovedOnlyHeld, ReplacedOnlyPlanned
<1>5. QED
  BY <1>2, <1>3, <1>4 DEF SyncInv

\* One that goes on to remove keeps what the PC has said of every document.
LEMMA Removing ==
    ASSUME SyncInv, NEW p \in {"synced", "verifying", "removing"}, NEW T \in SUBSET Docs,
           Fresh(sync', p, T), p # "verifying" => T = {},
           moved' \subseteq Docs,
           \A d \in documents \ (moved' \cup T) : OnPc(d),
           UNCHANGED <<local, records, folderRecord, unsaved, pc, pcFolder, held, overwrote,
                       unbacked>>
    PROVE  SyncInv'
<1>1. SyncOK(sync') /\ sync'.phase = p /\ sync'.items = Nothing /\ sync'.seen = Nothing
      /\ sync'.confirmed = Nothing /\ sync'.todo = T
  BY DEF Fresh
<1>2. SyncTypeOK'
  BY <1>1 DEF SyncInv, SyncTypeOK
<1>3. SeenTrue' /\ ItemsTrue' /\ ConfirmedTrue' /\ Progress' /\ Spoken'
  BY <1>1, NoneThere DEF SeenTrue, ItemsTrue, ConfirmedTrue, Progress, Spoken, Before
<1>4. Backed'
  BY <1>1 DEF Backed, OnPc, documents
<1>5. PcHeld' /\ RecordsTrue' /\ RemovedOnlyHeld' /\ ReplacedOnlyPlanned'
  BY DEF SyncInv, PcHeld, RecordsTrue, RemovedOnlyHeld, ReplacedOnlyPlanned
<1>6. QED
  BY <1>2, <1>3, <1>4, <1>5 DEF SyncInv

LEMMA TypeKeeps ==
    ASSUME SyncInv, NEW d \in Docs, Type(d)
    PROVE  SyncInv'
<1>1. SyncTypeOK'
  BY DEF SyncInv, Type, PcVars, PhoneVars, SyncTypeOK, Contents
<1>2. PcHeld'
  BY DEF SyncInv, Type, PcVars, PhoneVars, PcHeld
<1>3. RecordsTrue'
  BY DEF SyncInv, Type, PcVars, PhoneVars, RecordsTrue
<1>4. SeenTrue'
  BY DEF SyncInv, Type, PcVars, PhoneVars, SeenTrue, True
<1>5. ItemsTrue'
  BY DEF SyncInv, Type, PcVars, PhoneVars, ItemsTrue
<1>6. ConfirmedTrue'
  BY DEF SyncInv, Type, PcVars, PhoneVars, ConfirmedTrue, True
<1>7. Progress'
  BY DEF SyncInv, Type, PcVars, PhoneVars, Progress, Before
<1>8. Spoken'
  BY DEF SyncInv, Type, PcVars, PhoneVars, Spoken, Before, OnPc
<1>9. Backed'
  BY DEF SyncInv, Type, PcVars, PhoneVars, Backed, OnPc, documents
<1>10. RemovedOnlyHeld'
  BY DEF SyncInv, Type, PcVars, PhoneVars, RemovedOnlyHeld
<1>11. ReplacedOnlyPlanned'
  BY DEF SyncInv, Type, PcVars, PhoneVars, ReplacedOnlyPlanned
<1>12. QED
  BY <1>1, <1>2, <1>3, <1>4, <1>5, <1>6, <1>7, <1>8, <1>9, <1>10, <1>11 DEF SyncInv

LEMMA SaveKeeps ==
    ASSUME SyncInv, NEW d \in Docs, NEW t \in Texts, Save(d, t)
    PROVE  SyncInv'
<1>1. SyncTypeOK'
  BY DEF SyncInv, Save, Bounds, PcVars, PhoneVars, SyncTypeOK, Contents
<1>2. PcHeld'
  BY DEF SyncInv, Save, Bounds, PcVars, PhoneVars, PcHeld
<1>3. RecordsTrue'
  BY DEF SyncInv, Save, Bounds, PcVars, PhoneVars, RecordsTrue
<1>4. SeenTrue'
  BY DEF SyncInv, Save, Bounds, PcVars, PhoneVars, SeenTrue, True
<1>5. ItemsTrue'
  BY DEF SyncInv, Save, Bounds, PcVars, PhoneVars, ItemsTrue
<1>6. ConfirmedTrue'
  BY DEF SyncInv, Save, Bounds, PcVars, PhoneVars, ConfirmedTrue, True
<1>7. Progress'
  BY DEF SyncInv, Save, Bounds, PcVars, PhoneVars, Progress, Before
<1>8. Spoken'
  BY DEF SyncInv, Save, Bounds, PcVars, PhoneVars, Spoken, Before, OnPc
<1>9. Backed'
  BY DEF SyncInv, Save, Bounds, PcVars, PhoneVars, Backed, OnPc, documents
<1>10. RemovedOnlyHeld'
  BY DEF SyncInv, Save, Bounds, PcVars, PhoneVars, RemovedOnlyHeld
<1>11. ReplacedOnlyPlanned'
  BY DEF SyncInv, Save, Bounds, PcVars, PhoneVars, ReplacedOnlyPlanned
<1>12. QED
  BY <1>1, <1>2, <1>3, <1>4, <1>5, <1>6, <1>7, <1>8, <1>9, <1>10, <1>11 DEF SyncInv

LEMMA CreateFileKeeps ==
    ASSUME SyncInv, NEW d \in Docs, NEW t \in Texts, createFile(d, t)
    PROVE  SyncInv'
<1>1. SyncTypeOK'
  BY DEF SyncInv, createFile, PcVars, PhoneVars, SyncTypeOK, Contents
<1>2. PcHeld'
  BY DEF SyncInv, createFile, PcVars, PhoneVars, PcHeld
<1>3. RecordsTrue'
  BY DEF SyncInv, createFile, PcVars, PhoneVars, RecordsTrue
<1>4. SeenTrue'
  BY DEF SyncInv, createFile, PcVars, PhoneVars, SeenTrue, True
<1>5. ItemsTrue'
  BY DEF SyncInv, createFile, PcVars, PhoneVars, ItemsTrue
<1>6. ConfirmedTrue'
  BY DEF SyncInv, createFile, PcVars, PhoneVars, ConfirmedTrue, True
<1>7. Progress'
  BY DEF SyncInv, createFile, PcVars, PhoneVars, Progress, Before
<1>8. Spoken'
  BY DEF SyncInv, createFile, PcVars, PhoneVars, Spoken, Before, OnPc
<1>9. Backed'
  BY DEF SyncInv, createFile, PcVars, PhoneVars, Backed, OnPc, documents
<1>10. RemovedOnlyHeld'
  BY DEF SyncInv, createFile, PcVars, PhoneVars, RemovedOnlyHeld
<1>11. ReplacedOnlyPlanned'
  BY DEF SyncInv, createFile, PcVars, PhoneVars, ReplacedOnlyPlanned
<1>12. QED
  BY <1>1, <1>2, <1>3, <1>4, <1>5, <1>6, <1>7, <1>8, <1>9, <1>10, <1>11 DEF SyncInv

LEMMA DeleteLocalKeeps ==
    ASSUME SyncInv, NEW d \in Docs, deleteLocal(d)
    PROVE  SyncInv'
<1>1. SyncTypeOK'
  BY DEF SyncInv, deleteLocal, PcVars, PhoneVars, SyncTypeOK, Contents
<1>2. PcHeld'
  BY DEF SyncInv, deleteLocal, PcVars, PhoneVars, PcHeld
<1>3. RecordsTrue'
  BY DEF SyncInv, deleteLocal, PcVars, PhoneVars, RecordsTrue
<1>4. SeenTrue'
  BY DEF SyncInv, deleteLocal, PcVars, PhoneVars, SeenTrue, True
<1>5. ItemsTrue'
  BY DEF SyncInv, deleteLocal, PcVars, PhoneVars, ItemsTrue
<1>6. ConfirmedTrue'
  BY DEF SyncInv, deleteLocal, PcVars, PhoneVars, ConfirmedTrue, True
<1>7. Progress'
  BY DEF SyncInv, deleteLocal, PcVars, PhoneVars, Progress, Before
<1>8. Spoken'
  BY DEF SyncInv, deleteLocal, PcVars, PhoneVars, Spoken, Before, OnPc
<1>9. Backed'
  BY DEF SyncInv, deleteLocal, PcVars, PhoneVars, Backed, OnPc, documents
<1>10. RemovedOnlyHeld'
  BY DEF SyncInv, deleteLocal, PcVars, PhoneVars, RemovedOnlyHeld
<1>11. ReplacedOnlyPlanned'
  BY DEF SyncInv, deleteLocal, PcVars, PhoneVars, ReplacedOnlyPlanned
<1>12. QED
  BY <1>1, <1>2, <1>3, <1>4, <1>5, <1>6, <1>7, <1>8, <1>9, <1>10, <1>11 DEF SyncInv

LEMMA ChangeOnPcKeeps ==
    ASSUME SyncInv, NEW d \in Docs, NEW s \in Sides, NEW t \in Contents, ChangeOnPc(d, s, t)
    PROVE  SyncInv'
<1>1. SyncTypeOK'
  BY DEF SyncInv, ChangeOnPc, PcHolds, PcVars, PhoneVars, SyncTypeOK, Contents
<1>2. PcHeld'
  BY DEF SyncInv, ChangeOnPc, PcHolds, PcVars, PhoneVars, PcHeld
<1>3. RecordsTrue'
  BY DEF SyncInv, ChangeOnPc, PcHolds, PcVars, PhoneVars, RecordsTrue
<1>4. SeenTrue'
  BY DEF SyncInv, ChangeOnPc, PcHolds, PcVars, PhoneVars, SeenTrue, True
<1>5. ItemsTrue'
  BY DEF SyncInv, ChangeOnPc, PcHolds, PcVars, PhoneVars, ItemsTrue
<1>6. ConfirmedTrue'
  BY DEF SyncInv, ChangeOnPc, PcHolds, PcVars, PhoneVars, ConfirmedTrue, True
<1>7. Progress'
  BY DEF SyncInv, ChangeOnPc, PcHolds, PcVars, PhoneVars, Progress, Before
<1>8. Spoken'
  BY DEF SyncInv, ChangeOnPc, PcHolds, PcVars, PhoneVars, Spoken, Before, OnPc
<1>9. Backed'
  BY DEF SyncInv, ChangeOnPc, PcHolds, PcVars, PhoneVars, Backed, OnPc, documents
<1>10. RemovedOnlyHeld'
  BY DEF SyncInv, ChangeOnPc, PcHolds, PcVars, PhoneVars, RemovedOnlyHeld
<1>11. ReplacedOnlyPlanned'
  BY DEF SyncInv, ChangeOnPc, PcHolds, PcVars, PhoneVars, ReplacedOnlyPlanned
<1>12. QED
  BY <1>1, <1>2, <1>3, <1>4, <1>5, <1>6, <1>7, <1>8, <1>9, <1>10, <1>11 DEF SyncInv

LEMMA ReplaceFolderOnPcKeeps ==
    ASSUME SyncInv, ReplaceFolderOnPc
    PROVE  SyncInv'
<1>1. SyncTypeOK'
  BY DEF SyncInv, ReplaceFolderOnPc, PcVars, PhoneVars, SyncTypeOK, Contents
<1>2. PcHeld'
  BY DEF SyncInv, ReplaceFolderOnPc, PcVars, PhoneVars, PcHeld
<1>3. RecordsTrue'
  BY DEF SyncInv, ReplaceFolderOnPc, PcVars, PhoneVars, RecordsTrue
<1>4. SeenTrue'
  BY DEF SyncInv, ReplaceFolderOnPc, PcVars, PhoneVars, SeenTrue, True
<1>5. ItemsTrue'
  BY DEF SyncInv, ReplaceFolderOnPc, PcVars, PhoneVars, ItemsTrue
<1>6. ConfirmedTrue'
  BY DEF SyncInv, ReplaceFolderOnPc, PcVars, PhoneVars, ConfirmedTrue, True
<1>7. Progress'
  BY DEF SyncInv, ReplaceFolderOnPc, PcVars, PhoneVars, Progress, Before
<1>8. Spoken'
  BY DEF SyncInv, ReplaceFolderOnPc, PhoneVars, Spoken, Before, SyncTypeOK, SyncOK, ForSome
<1>9. Backed'
  BY DEF SyncInv, ReplaceFolderOnPc, PcVars, PhoneVars, Backed, OnPc, documents
<1>10. RemovedOnlyHeld'
  BY DEF SyncInv, ReplaceFolderOnPc, PcVars, PhoneVars, RemovedOnlyHeld
<1>11. ReplacedOnlyPlanned'
  BY DEF SyncInv, ReplaceFolderOnPc, PcVars, PhoneVars, ReplacedOnlyPlanned
<1>12. QED
  BY <1>1, <1>2, <1>3, <1>4, <1>5, <1>6, <1>7, <1>8, <1>9, <1>10, <1>11 DEF SyncInv

LEMMA PlanKeeps ==
    ASSUME SyncInv, NEW whole \in BOOLEAN, NEW ids \in SUBSET Docs, Plan(whole, ids)
    PROVE  SyncInv'
<1>1. /\ sync' = [Idle EXCEPT !.phase = "planning", !.whole = whole, !.todo = ids, !.seen = records]
      /\ ids \subseteq Docs /\ moved' = Docs
      /\ UNCHANGED <<local, records, folderRecord, unsaved, pc, pcFolder, held, overwrote, unbacked>>
  BY DEF Plan, PhoneVars, PcVars, documents
<1>2. /\ DOMAIN sync' = DOMAIN Idle /\ sync'.phase = "planning" /\ sync'.todo = ids
      /\ sync'.whole = whole /\ sync'.removeAfter = FALSE /\ sync'.lost = FALSE
      /\ sync'.unreachable = FALSE /\ sync'.folder = FALSE
      /\ sync'.items = Nothing /\ sync'.confirmed = Nothing /\ sync'.seen = records
  BY <1>1 DEF Idle
<1>3. records \in [Docs -> Records \cup {None}] /\ DOMAIN records = Docs
  BY DEF SyncInv, SyncTypeOK
<1>4. SyncOK(sync')
  <2>1. ForSome(records, Records \cup {None})
    BY <1>3 DEF ForSome
  <2>2. QED
    BY <1>1, <1>2, <2>1, NothingType DEF SyncOK, Phases
<1>5. SyncTypeOK'
  BY <1>1, <1>4 DEF SyncInv, SyncTypeOK
<1>6. SeenTrue'
  BY <1>1, <1>2, <1>3 DEF SyncInv, SeenTrue, True, RecordsTrue
<1>7. ItemsTrue' /\ ConfirmedTrue' /\ Spoken'
  BY <1>2, NoneThere DEF ItemsTrue, ConfirmedTrue, Spoken
<1>8. Progress' /\ Backed'
  BY <1>2, <1>3, NoneThere DEF Progress, Backed, Before
<1>9. PcHeld' /\ RecordsTrue' /\ RemovedOnlyHeld' /\ ReplacedOnlyPlanned'
  BY <1>1 DEF SyncInv, PcHeld, RecordsTrue, RemovedOnlyHeld, ReplacedOnlyPlanned
<1>10. QED
  BY <1>5, <1>6, <1>7, <1>8, <1>9 DEF SyncInv

LEMMA PlanDocumentKeeps ==
    ASSUME SyncInv, NEW d \in Docs, PlanDocument(d)
    PROVE  SyncInv'
<1> DEFINE item == planDocument(d, sync.seen[d])
<1>1. /\ sync.phase = "planning" /\ d \in sync.todo /\ local[d] # Absent
      /\ sync' = [sync EXCEPT !.items = Put(@, d, item), !.todo = @ \ {d},
                              !.phase = IF sync.todo = {d} THEN "planned" ELSE @]
      /\ moved' = moved \ {d}
      /\ UNCHANGED <<local, records, folderRecord, unsaved, pc, pcFolder, held, overwrote, unbacked>>
  BY DEF PlanDocument, Step, AskedOnly, PhoneVars, PcVars
<1>2. /\ DOMAIN sync = DOMAIN Idle /\ SyncOK(sync)
      /\ local[d] \in Texts /\ \A s \in Sides : pc[d][s] \in Contents
  BY <1>1 DEF SyncInv, SyncTypeOK, SyncOK, Contents
<1>3. /\ DOMAIN sync' = DOMAIN Idle /\ sync'.phase \in {"planning", "planned"}
      /\ sync'.items = Put(sync.items, d, item) /\ sync'.todo = sync.todo \ {d}
      /\ sync'.whole = sync.whole /\ sync'.removeAfter = sync.removeAfter
      /\ sync'.lost = sync.lost /\ sync'.unreachable = sync.unreachable
      /\ sync'.folder = sync.folder /\ sync'.seen = sync.seen
      /\ sync'.confirmed = sync.confirmed
  BY <1>1, <1>2 DEF Idle
<1> HIDE DEF item
<1>4. /\ DOMAIN sync.seen = Docs /\ sync.todo \cap DOMAIN sync.items = {}
      /\ DOMAIN sync.confirmed = {}
  BY <1>1 DEF SyncInv, Progress, Before
<1>5. sync.seen[d] # None => sync.seen[d] \in Records /\ True(d, sync.seen[d])
  <2>1. \E D \in SUBSET Docs : sync.seen \in [D -> Records \cup {None}]
    BY <1>2 DEF SyncOK, ForSome
  <2>2. QED
    BY <1>4, <2>1 DEF SyncInv, SeenTrue
<1>6. /\ item \in Items /\ item.text = local[d] /\ item.pc = pc[d][item.side]
      /\ item.state = "identical" =>
            item.pc # Absent /\ item.pc \in {item.text, admissible(item.text)}
  <2> DEFINE seen == sync.seen[d]
             last == seen # None /\ pc[d][seen.side] = seen.pc
             side == IF last THEN seen.side ELSE "usual"
             state == IF last THEN IF local[d] = seen.local THEN "identical" ELSE "superseded"
                      ELSE IF pc[d][side] = Absent THEN "absent"
                      ELSE IF pc[d][side] = local[d] THEN "identical"
                      ELSE "different"
  <2>1. item = [text |-> local[d], side |-> side, state |-> state, pc |-> pc[d][side]]
    BY DEF item, planDocument
  <2>2. side \in Sides /\ state \in States
    BY <1>5 DEF Sides, States, Records
  <2>3. state = "identical" =>
           pc[d][side] # Absent /\ pc[d][side] \in {local[d], admissible(local[d])}
    BY <1>1, <1>5, ProjectSyncAssumption DEF True, Records
  <2> HIDE DEF side, state
  <2>4. item.text = local[d] /\ item.side = side /\ item.state = state /\ item.pc = pc[d][side]
    BY <2>1
  <2>5. pc[d][side] \in Contents
    BY <1>2, <2>2
  <2>6. item \in Items
    BY <1>2, <2>1, <2>2, <2>5 DEF Items
  <2>7. QED
    BY <2>3, <2>4, <2>6
<1>put. /\ DOMAIN sync'.items = DOMAIN sync.items \cup {d} /\ sync'.items[d] = item
        /\ \A x \in DOMAIN sync.items : x # d => sync'.items[x] = sync.items[x]
  <2> DEFINE f == Put(sync.items, d, item)
  <2>1. /\ DOMAIN f = DOMAIN sync.items \cup {d} /\ f[d] = item
        /\ \A x \in DOMAIN sync.items : x # d => f[x] = sync.items[x]
    BY DEF Put
  <2> HIDE DEF f
  <2>2. sync'.items = f
    BY <1>3 DEF f
  <2>3. QED
    BY <2>1, <2>2
<1>7. SyncOK(sync')
  <2>1. ForSome(sync'.items, Items)
    BY <1>2, <1>3, <1>6, PutType DEF SyncOK
  <2>2. QED
    BY <1>2, <1>3, <2>1 DEF SyncOK, Phases
<1>8. SyncTypeOK'
  BY <1>1, <1>7 DEF SyncInv, SyncTypeOK
<1>9. ItemsTrue'
  <2>1. item.state = "identical" => <<d, item.side, item.pc>> \in held
    BY <1>6 DEF SyncInv, PcHeld, Items
  <2>2. QED
    BY <1>1, <1>put, <1>6, <2>1 DEF SyncInv, ItemsTrue
<1>10. Progress'
  BY <1>3, <1>4, <1>put DEF Progress, Before
<1>11. Spoken'
  <2>2. ASSUME NEW x \in DOMAIN sync'.items \ moved'
        PROVE  /\ local[x] = sync'.items[x].text
               /\ pc[x][sync'.items[x].side] = sync'.items[x].pc
    <3>1. CASE x = d
      BY <1>6, <1>put, <3>1
    <3>2. CASE x # d
      BY <1>1, <1>put, <3>2 DEF SyncInv, Spoken, Before
    <3>3. QED
      BY <3>1, <3>2
  <2>3. QED
    BY <1>1, <1>3, <1>4, <2>2 DEF Spoken, Before
<1>12. SeenTrue' /\ ConfirmedTrue'
  BY <1>1, <1>3 DEF SyncInv, SeenTrue, ConfirmedTrue, True
<1>13. PcHeld' /\ RecordsTrue' /\ Backed' /\ RemovedOnlyHeld' /\ ReplacedOnlyPlanned'
  BY <1>1, <1>3 DEF SyncInv, PcHeld, RecordsTrue, Backed, RemovedOnlyHeld, ReplacedOnlyPlanned
<1>14. QED
  BY <1>8, <1>9, <1>10, <1>11, <1>12, <1>13 DEF SyncInv

LEMMA PlanRefusedKeeps ==
    ASSUME SyncInv, PlanRefused
    PROVE  SyncInv'
<1>1. QED
  BY Forgotten DEF PlanRefused, PhoneVars, PcVars, AskedOnly

LEMMA RunKeeps ==
    ASSUME SyncInv, NEW removeAfter \in BOOLEAN, Run(removeAfter)
    PROVE  SyncInv'
<1>1. CASE unsaved # {}
  BY <1>1, Forgotten DEF Run, AskedOnly, PhoneVars, PcVars
<1>2. CASE unsaved = {}
  <2>1. /\ sync.phase = "planned" /\ SyncOK(sync)
        /\ sync' = [sync EXCEPT !.phase = "folders", !.removeAfter = removeAfter,
                                !.todo = DOMAIN sync.items]
        /\ UNCHANGED <<local, records, folderRecord, unsaved, pc, pcFolder, held, moved,
                       overwrote, unbacked>>
    BY <1>2 DEF Run, Step, AskedOnly, PhoneVars, PcVars, SyncInv, SyncTypeOK
  <2>2. /\ DOMAIN sync' = DOMAIN Idle /\ sync'.phase = "folders"
        /\ sync'.removeAfter = removeAfter /\ sync'.todo = DOMAIN sync.items
        /\ sync'.items = sync.items /\ sync'.seen = sync.seen
        /\ sync'.confirmed = sync.confirmed /\ sync'.whole = sync.whole
        /\ sync'.lost = sync.lost /\ sync'.unreachable = sync.unreachable
        /\ sync'.folder = sync.folder
    BY <2>1 DEF SyncOK, Idle
  <2>3. DOMAIN sync.items \subseteq Docs
    BY <2>1 DEF SyncOK, ForSome
  <2>4. SyncOK(sync')
    BY <2>1, <2>2, <2>3 DEF SyncOK, Phases
  <2>5. SyncTypeOK'
    BY <2>1, <2>4 DEF SyncInv, SyncTypeOK
  <2>6. SeenTrue' /\ ItemsTrue' /\ ConfirmedTrue'
    BY <2>1, <2>2 DEF SyncInv, SeenTrue, ItemsTrue, ConfirmedTrue, True
  <2>7. Progress' /\ Spoken' /\ Backed'
    BY <2>1, <2>2 DEF SyncInv, Progress, Spoken, Backed, OnPc, Before
  <2>8. PcHeld' /\ RecordsTrue' /\ RemovedOnlyHeld' /\ ReplacedOnlyPlanned'
    BY <2>1 DEF SyncInv, PcHeld, RecordsTrue, RemovedOnlyHeld, ReplacedOnlyPlanned
  <2>9. QED
    BY <2>5, <2>6, <2>7, <2>8 DEF SyncInv
<1>3. QED
  BY <1>1, <1>2

LEMMA MakeFoldersKeeps ==
    ASSUME SyncInv, NEW reply \in Replies, makeFolders(reply)
    PROVE  SyncInv'
<1> DEFINE there == reply = "answered" /\ pcFolder # "file"
<1>1. /\ sync.phase = "folders"
      /\ sync' = [sync EXCEPT !.phase = "sending",
                              !.lost = reply # "answered",
                              !.unreachable = reply = "answered" /\ ~there,
                              !.folder = sync.whole /\ there]
      /\ UNCHANGED <<local, records, folderRecord, unsaved, moved, overwrote, unbacked>>
  BY DEF makeFolders, Step, PhoneVars
<1>2. UNCHANGED <<pc, held>> /\ pcFolder' \in {"none", "folder", "file"}
  BY DEF makeFolders, Request, mkdir, PcVars, SyncInv, SyncTypeOK
<1>3. QED
  BY <1>1, <1>2, BeginSending

LEMMA MakeFoldersUnlistedKeeps ==
    ASSUME SyncInv, makeFoldersUnlisted
    PROVE  SyncInv'
<1>1. /\ sync.phase = "folders"
      /\ sync' = [sync EXCEPT !.phase = "sending", !.unreachable = TRUE]
      /\ UNCHANGED <<local, records, folderRecord, unsaved, pc, pcFolder, held, moved,
                     overwrote, unbacked>>
  BY DEF makeFoldersUnlisted, Step, PcVars, PhoneVars
<1>2. SyncOK(sync) /\ pcFolder' \in {"none", "folder", "file"}
  BY <1>1 DEF SyncInv, SyncTypeOK
<1>3. sync.lost \in BOOLEAN /\ sync.folder \in BOOLEAN
  BY <1>2 DEF SyncOK
<1>4. sync' = [sync EXCEPT !.phase = "sending", !.lost = sync.lost,
                           !.unreachable = TRUE, !.folder = sync.folder]
  BY <1>1, <1>2 DEF SyncOK, Idle
<1>5. QED
  BY <1>1, <1>2, <1>3, <1>4, BeginSending

LEMMA SendNothingKeeps ==
    ASSUME SyncInv, NEW d \in Docs, sendNothing(d)
    PROVE  SyncInv'
<1> DEFINE item == sync.items[d]
           ok == ~sync.lost /\ ~sync.unreachable /\ item.state = "identical"
           r == [local |-> item.text, side |-> item.side, pc |-> item.pc]
<1>1. /\ sync.phase = "sending" /\ d \in sync.todo
      /\ sync' = Done(d, ok, r)
      /\ UNCHANGED <<local, records, folderRecord, unsaved, pc, pcFolder, held, moved,
                     overwrote, unbacked>>
  BY DEF sendNothing, Step, AskedOnly, PhoneVars, PcVars
<1>2. SyncOK(sync) /\ sync.todo \subseteq DOMAIN sync.items \ DOMAIN sync.confirmed
  BY <1>1 DEF SyncInv, SyncTypeOK, Progress
<1>3. item \in Items
  BY <1>1, <1>2 DEF SyncOK, ForSome
<1>4. ok => /\ r \in Records /\ <<d, r.side, r.pc>> \in held'
            /\ r.pc \in {r.local, admissible(r.local)}
  <2>1. ok => /\ item.pc # Absent /\ <<d, item.side, item.pc>> \in held
              /\ item.pc \in {item.text, admissible(item.text)}
    BY <1>1, <1>2 DEF SyncInv, ItemsTrue
  <2>2. item.text \in Texts /\ item.side \in Sides /\ item.pc \in Texts \cup {Absent}
    BY <1>3 DEF Items, Contents
  <2>3. ok => r \in Records
    BY <2>1, <2>2 DEF Records
  <2>4. r.local = item.text /\ r.side = item.side /\ r.pc = item.pc
    OBVIOUS
  <2>5. held' = held
    BY <1>1
  <2>6. ok => <<d, r.side, r.pc>> \in held' /\ r.pc \in {r.local, admissible(r.local)}
    BY <2>1, <2>4, <2>5
  <2>7. QED
    BY <2>3, <2>6
<1>5. sync' = [Done(d, ok, r) EXCEPT !.lost = sync.lost] /\ sync.lost \in BOOLEAN
  BY <1>1, <1>2 DEF Done, SyncOK, Idle
<1>6. ok /\ d \notin moved' => OnPc(d)'
  <2>1. d \notin moved => local[d] = item.text /\ pc[d][item.side] = item.pc
    BY <1>1, <1>2 DEF SyncInv, Spoken, Before
  <2>2. ok => item.pc \in {item.text, admissible(item.text)} /\ item.side \in Sides
    BY <1>1, <1>2, <1>3 DEF SyncInv, ItemsTrue, Items
  <2>3. QED
    BY <1>1, <2>1, <2>2 DEF OnPc
<1>7. PcHeld' /\ pc \in [Docs -> [Sides -> Contents]] /\ held \subseteq Docs \X Sides \X Contents
      /\ pcFolder \in {"none", "folder", "file"}
  BY <1>1 DEF SyncInv, SyncTypeOK, PcHeld
<1> HIDE DEF r
<1>8. ok \in BOOLEAN
  OBVIOUS
<1> HIDE DEF ok
<1>9. /\ held \subseteq held' /\ moved' = moved
      /\ pc' \in [Docs -> [Sides -> Contents]] /\ held' \subseteq Docs \X Sides \X Contents
      /\ pcFolder' \in {"none", "folder", "file"}
      /\ \A x \in Docs : x # d => pc'[x] = pc[x]
  BY <1>1, <1>7
<1>10. QED
  BY <1>1, <1>4, <1>5, <1>6, <1>7, <1>8, <1>9, Confirming

LEMMA SendDocumentKeeps ==
    ASSUME SyncInv, NEW d \in Docs, NEW choice \in Choices, NEW reply \in Replies, sendDocument(d, choice, reply)
    PROVE  SyncInv'
<1> DEFINE item == sync.items[d]
           write == writeFor(item, choice)
           now == pc[d][write.side]
           allowed == Allowed(write, item, now)
           ok == accepted(reply) /\ (reply = "answered" => allowed)
           t == admissible(item.text)
           r == [local |-> item.text, side |-> write.side, pc |-> t]
           lost == ~accepted(reply)
<1>1. /\ sync.phase = "sending" /\ d \in sync.todo /\ write.op # "none"
      /\ Request(reply, IF allowed THEN PcHolds(d, write.side, t) ELSE UNCHANGED PcVars)
      /\ sync' = [Done(d, ok, r) EXCEPT !.lost = lost]
      /\ overwrote' = (overwrote \/ (pc'[d] # pc[d] /\ now \notin {Absent, item.pc}))
      /\ moved' = IF ok /\ local[d] = item.text THEN moved \ {d} ELSE moved
      /\ UNCHANGED <<local, records, folderRecord, unsaved, unbacked>>
  BY DEF sendDocument, Step, PhoneVars
<1>2. SyncOK(sync) /\ sync.todo \subseteq DOMAIN sync.items \ DOMAIN sync.confirmed /\ d \in Docs
  BY <1>1 DEF SyncInv, SyncTypeOK, Progress, SyncOK
<1>3. item \in Items
  BY <1>1, <1>2 DEF SyncOK, ForSome
<1>4. write.side \in Sides /\ t \in Texts /\ item.text \in Texts
  BY <1>3, Admissible DEF Items, writeFor, Sides
<1>5. ok => reply = "answered" /\ allowed
  BY DEF accepted
<1>bool. ok \in BOOLEAN /\ lost \in BOOLEAN
  OBVIOUS
<1>6. allowed => now \in {Absent, item.pc}
  BY DEF Allowed
<1> HIDE DEF allowed, t, write
<1>7. \/ UNCHANGED <<pc, held, pcFolder>> /\ ~ok
      \/ allowed /\ PcHolds(d, write.side, t)
  BY <1>1, <1>5 DEF Request, PcVars
<1> HIDE DEF ok, lost
<1>8. /\ pc' \in [Docs -> [Sides -> Contents]] /\ pcFolder' \in {"none", "folder", "file"}
      /\ held \subseteq held' /\ held' \subseteq Docs \X Sides \X Contents
      /\ \A x \in Docs : x # d => pc'[x] = pc[x]
      /\ ok => pc'[d][write.side] = t /\ <<d, write.side, t>> \in held'
      /\ PcHeld'
  <2>1. CASE UNCHANGED <<pc, held, pcFolder>> /\ ~ok
    BY <2>1 DEF SyncInv, SyncTypeOK, PcHeld
  <2>2. CASE PcHolds(d, write.side, t)
    BY <1>2, <1>4, <2>2 DEF SyncInv, SyncTypeOK, PcHeld, PcHolds, Contents
  <2>3. QED
    BY <1>7, <2>1, <2>2
<1>9. UNCHANGED overwrote
  <2>1. pc'[d] # pc[d] => allowed
    BY <1>7
  <2>2. overwrote = FALSE /\ overwrote \in BOOLEAN
    BY DEF SyncInv, ReplacedOnlyPlanned, SyncTypeOK
  <2>3. overwrote' = FALSE
    BY <1>1, <1>6, <2>1, <2>2
  <2>4. QED
    BY <2>2, <2>3
<1>10. ok => /\ r \in Records /\ <<d, r.side, r.pc>> \in held'
             /\ r.pc \in {r.local, admissible(r.local)}
  BY <1>4, <1>8 DEF Records, t
<1>11. /\ moved' \in {moved, moved \ {d}}
       /\ d \in moved \ moved' => local[d] = item.text
  BY <1>1
<1>12. ok /\ d \notin moved' => OnPc(d)'
  <2>1. ok /\ d \notin moved' => local[d] = item.text
    BY <1>1, <1>2 DEF SyncInv, Spoken
  <2>2. QED
    BY <1>1, <1>4, <1>8, <2>1 DEF OnPc, t
<1> HIDE DEF r
<1>13. QED
  BY <1>1, <1>2, <1>bool, <1>8, <1>9, <1>10, <1>11, <1>12, Confirming

LEMMA RecordSyncedAllKeeps ==
    ASSUME SyncInv, NEW written \in BOOLEAN, recordSyncedAll(written)
    PROVE  SyncInv'
<1>1. /\ sync.phase = "sending" /\ sync.todo = {}
      /\ UNCHANGED <<local, unsaved, pc, pcFolder, held, moved, overwrote, unbacked>>
  BY DEF recordSyncedAll, Step, PcVars
<1>2. SyncOK(sync) /\ \A d \in DOMAIN sync.confirmed : sync.confirmed[d] \in Records
  BY DEF SyncInv, SyncTypeOK, SyncOK, ForSome
<1>3. PcHeld' /\ RemovedOnlyHeld' /\ ReplacedOnlyPlanned'
  BY <1>1 DEF SyncInv, PcHeld, RemovedOnlyHeld, ReplacedOnlyPlanned
<1>4. CASE written /\ documents # {}
  <2>1. /\ records' = [d \in Docs |-> IF d \in DOMAIN sync.confirmed
                                        THEN sync.confirmed[d] ELSE records[d]]
        /\ folderRecord' = (folderRecord \/ sync.folder)
        /\ sync' = [sync EXCEPT !.phase = "reading"]
    BY <1>4 DEF recordSyncedAll
  <2>2. /\ SyncOK(sync') /\ sync'.phase = "reading" /\ sync'.items = sync.items
        /\ sync'.seen = sync.seen /\ sync'.confirmed = sync.confirmed
    BY <1>2, <2>1 DEF SyncOK, Idle, Phases
  <2>3. SyncTypeOK'
    BY <1>1, <1>2, <2>1, <2>2 DEF SyncInv, SyncTypeOK, SyncOK
  <2>4. RecordsTrue'
    BY <1>1, <2>1 DEF SyncInv, RecordsTrue, ConfirmedTrue, True
  <2>5. SeenTrue' /\ ItemsTrue' /\ ConfirmedTrue'
    BY <1>1, <2>2 DEF SyncInv, SeenTrue, ItemsTrue, ConfirmedTrue, True
  <2>6. Progress' /\ Backed'
    BY <2>2 DEF Progress, Backed, Before
  <2>7. Spoken'
    BY <1>1, <2>2 DEF SyncInv, Spoken, OnPc, Before
  <2>8. QED
    BY <1>3, <2>3, <2>4, <2>5, <2>6, <2>7 DEF SyncInv
<1>5. CASE ~(written /\ documents # {})
  BY <1>1, <1>5, Forgotten DEF recordSyncedAll
<1>6. QED
  BY <1>4, <1>5

LEMMA ReadAgainKeeps ==
    ASSUME SyncInv, ReadAgain
    PROVE  SyncInv'
<1>1. UNCHANGED <<local, records, folderRecord, unsaved, pc, pcFolder, held, moved, overwrote,
                  unbacked>>
  BY DEF ReadAgain, AskedOnly, PhoneVars, PcVars
<1>2. CASE complete /\ sync.whole /\ sync.removeAfter
  <2>1. Fresh(sync', "synced", {})
    BY <1>2, IdleOK DEF ReadAgain, Phases
  <2>2. \A d \in documents \ moved : OnPc(d)
    BY <1>2 DEF SyncInv, Spoken, ReadAgain, Step, complete, changedDuringSync
  <2>3. moved \subseteq Docs
    BY DEF SyncInv, SyncTypeOK
  <2>4. QED
    BY <1>1, <2>1, <2>2, <2>3, Removing
<1>3. CASE ~(complete /\ sync.whole /\ sync.removeAfter)
  BY <1>1, <1>3, Forgotten DEF ReadAgain
<1>4. QED
  BY <1>2, <1>3

LEMMA RemoveAfterSyncKeeps ==
    ASSUME SyncInv, removeAfterSync
    PROVE  SyncInv'
<1>1. UNCHANGED <<local, records, folderRecord, unsaved, pc, pcFolder, held, moved, overwrote,
                  unbacked>>
  BY DEF removeAfterSync, AskedOnly, PhoneVars, PcVars
<1>2. CASE fullySynced /\ unsaved = {}
  <2>1. Fresh(sync', "removing", {})
    BY <1>2, IdleOK DEF removeAfterSync, Phases
  <2>2. moved \subseteq Docs /\ \A d \in documents \ moved : OnPc(d)
    BY DEF SyncInv, SyncTypeOK, Backed, removeAfterSync, Step
  <2>3. QED
    BY <1>1, <2>1, <2>2, Removing
<1>3. CASE ~(fullySynced /\ unsaved = {})
  BY <1>1, <1>3, Forgotten DEF removeAfterSync
<1>4. QED
  BY <1>2, <1>3

LEMMA RemoveLocalProjectKeeps ==
    ASSUME SyncInv, removeLocalProject
    PROVE  SyncInv'
<1>1. /\ sync' = [Idle EXCEPT !.phase = "verifying", !.todo = documents] /\ moved' = Docs
      /\ UNCHANGED <<local, records, folderRecord, unsaved, pc, pcFolder, held, overwrote,
                     unbacked>>
  BY DEF removeLocalProject, PhoneVars, PcVars
<1>2. documents \in SUBSET Docs
  BY DEF documents
<1>3. Fresh(sync', "verifying", documents)
  BY <1>1, <1>2, IdleOK DEF Phases
<1>4. QED
  BY <1>1, <1>2, <1>3, Removing

LEMMA RequireRemovableKeeps ==
    ASSUME SyncInv, NEW d \in Docs, requireRemovable(d)
    PROVE  SyncInv'
<1>1. /\ sync.phase = "verifying" /\ d \in sync.todo /\ Holds(d)
      /\ sync' = [sync EXCEPT !.todo = @ \ {d}] /\ moved' = moved \ {d}
      /\ UNCHANGED <<local, records, folderRecord, unsaved, pc, pcFolder, held, overwrote,
                     unbacked>>
  BY DEF requireRemovable, Step, AskedOnly, PhoneVars, PcVars
<1>2. /\ SyncOK(sync') /\ sync'.phase = "verifying" /\ sync'.todo = sync.todo \ {d}
      /\ sync'.items = sync.items /\ sync'.seen = sync.seen
      /\ sync'.confirmed = sync.confirmed
  BY <1>1 DEF SyncInv, SyncTypeOK, SyncOK, Idle
<1>3. SyncTypeOK'
  BY <1>1, <1>2 DEF SyncInv, SyncTypeOK
<1>4. SeenTrue' /\ ItemsTrue' /\ ConfirmedTrue'
  BY <1>1, <1>2 DEF SyncInv, SeenTrue, ItemsTrue, ConfirmedTrue, True
<1>5. Progress' /\ Spoken'
  BY <1>2 DEF Progress, Spoken, Before
<1>6. Backed'
  <2>1. OnPc(d)
    BY <1>1 DEF Holds, OnPc, SyncInv, RecordsTrue, SyncTypeOK, Records
  <2>2. QED
    BY <1>1, <1>2, <2>1 DEF SyncInv, Backed, OnPc, documents
<1>7. PcHeld' /\ RecordsTrue' /\ RemovedOnlyHeld' /\ ReplacedOnlyPlanned'
  BY <1>1 DEF SyncInv, PcHeld, RecordsTrue, RemovedOnlyHeld, ReplacedOnlyPlanned
<1>8. QED
  BY <1>3, <1>4, <1>5, <1>6, <1>7 DEF SyncInv

LEMMA StaysKeeps ==
    ASSUME SyncInv, Stays
    PROVE  SyncInv'
<1>1. QED
  BY Forgotten DEF Stays, PhoneVars, PcVars, AskedOnly

LEMMA RemoveLocalProjectConfirmedKeeps ==
    ASSUME SyncInv, removeLocalProjectConfirmed
    PROVE  SyncInv'
<1>1. UNCHANGED <<local, records, folderRecord, unsaved, pc, pcFolder, held, moved, overwrote,
                  unbacked>>
  BY DEF removeLocalProjectConfirmed, AskedOnly, PhoneVars, PcVars
<1>2. CASE unsaved = {}
  <2>1. Fresh(sync', "removing", {})
    BY <1>2, IdleOK DEF removeLocalProjectConfirmed, Phases
  <2>2. moved \subseteq Docs /\ \A d \in documents \ moved : OnPc(d)
    BY DEF SyncInv, SyncTypeOK, Backed, removeLocalProjectConfirmed, Step
  <2>3. QED
    BY <1>1, <2>1, <2>2, Removing
<1>3. CASE ~(unsaved = {})
  BY <1>1, <1>3, Forgotten DEF removeLocalProjectConfirmed
<1>4. QED
  BY <1>2, <1>3

LEMMA DeleteProjectKeeps ==
    ASSUME SyncInv, NEW left \in SUBSET Docs, deleteProject(left)
    PROVE  SyncInv'
<1>1. /\ sync.phase = "removing" /\ sync' = Idle /\ UNCHANGED <<pc, pcFolder, held, moved, overwrote>>
      /\ local' = [d \in Docs |-> IF d \in left THEN local[d] ELSE Absent]
      /\ \/ records' = [d \in Docs |-> None] /\ folderRecord' = FALSE
         \/ UNCHANGED <<records, folderRecord>>
      /\ unsaved' \in {{}, unsaved}
      /\ unbacked' = unbacked \cup {d \in (documents \ left) \ moved : ~OnPc(d)}
  BY DEF deleteProject, Step, PcVars
<1>2. SyncOK(sync') /\ sync'.phase = "idle" /\ sync'.items = Nothing /\ sync'.seen = Nothing
      /\ sync'.confirmed = Nothing
  BY <1>1, IdleOK DEF Fresh, Phases
<1>3. unbacked' = {}
  BY <1>1 DEF SyncInv, Backed, RemovedOnlyHeld
<1>4. SyncTypeOK'
  <2>1. local' \in [Docs -> Contents]
    BY <1>1 DEF SyncInv, SyncTypeOK, Contents
  <2>2. records' \in [Docs -> Records \cup {None}] /\ folderRecord' \in BOOLEAN
    BY <1>1 DEF SyncInv, SyncTypeOK
  <2>3. unsaved' \subseteq Docs
    BY <1>1 DEF SyncInv, SyncTypeOK
  <2>4. QED
    BY <1>1, <1>2, <1>3, <2>1, <2>2, <2>3 DEF SyncInv, SyncTypeOK
<1>5. RecordsTrue' /\ PcHeld'
  BY <1>1 DEF SyncInv, RecordsTrue, PcHeld
<1>6. SeenTrue' /\ ItemsTrue' /\ ConfirmedTrue' /\ Progress' /\ Spoken' /\ Backed'
  BY <1>2, NoneThere DEF SeenTrue, ItemsTrue, ConfirmedTrue, Progress, Spoken, Backed, Before
<1>7. RemovedOnlyHeld' /\ ReplacedOnlyPlanned'
  BY <1>1, <1>3 DEF SyncInv, RemovedOnlyHeld, ReplacedOnlyPlanned
<1>8. QED
  BY <1>4, <1>5, <1>6, <1>7 DEF SyncInv

LEMMA AbandonKeeps ==
    ASSUME SyncInv, Abandon
    PROVE  SyncInv'
<1>1. QED
  BY Forgotten DEF Abandon, PcVars

LEMMA StutterKeeps == ASSUME SyncInv, UNCHANGED syncVars PROVE SyncInv'
BY DEF SyncInv, syncVars, SyncTypeOK, PcHeld, RecordsTrue, SeenTrue, ItemsTrue, ConfirmedTrue, True, Progress,
       Spoken, Backed, OnPc, documents, RemovedOnlyHeld, ReplacedOnlyPlanned

LEMMA SyncInvInit == SyncInit => SyncInv
<1> SUFFICES ASSUME SyncInit PROVE SyncInv
  OBVIOUS
<1>1. Fresh(sync, "idle", {})
  BY IdleOK DEF SyncInit, Phases
<1>2. SyncOK(sync) /\ sync.phase = "idle" /\ sync.items = Nothing /\ sync.seen = Nothing
      /\ sync.confirmed = Nothing
  BY <1>1 DEF Fresh
<1>3. SyncTypeOK
  BY <1>2 DEF SyncInit, SyncTypeOK, Contents
<1>4. PcHeld /\ RecordsTrue /\ RemovedOnlyHeld /\ ReplacedOnlyPlanned
  BY DEF SyncInit, PcHeld, RecordsTrue, RemovedOnlyHeld, ReplacedOnlyPlanned, Sides
<1>5. SeenTrue /\ ItemsTrue /\ ConfirmedTrue /\ Progress /\ Spoken /\ Backed
  BY <1>2, NoneThere DEF SeenTrue, ItemsTrue, ConfirmedTrue, Progress, Spoken, Backed, Before
<1>6. QED
  BY <1>3, <1>4, <1>5 DEF SyncInv

LEMMA SyncInvNext == SyncInv /\ [SyncNext]_syncVars => SyncInv'
<1> SUFFICES ASSUME SyncInv, [SyncNext]_syncVars PROVE SyncInv'
  OBVIOUS
<1>1. CASE UNCHANGED syncVars
  BY <1>1, StutterKeeps
<1>2. ASSUME NEW d \in Docs,
             \/ Type(d) \/ (\E t \in Texts : Save(d, t) \/ createFile(d, t)) \/ deleteLocal(d)
             \/ \E s \in Sides, t \in {u \in Texts : u.lf} \cup {Absent} : ChangeOnPc(d, s, t)
      PROVE  SyncInv'
  <2>1. ASSUME NEW s \in Sides, NEW t \in {u \in Texts : u.lf} \cup {Absent}, ChangeOnPc(d, s, t)
        PROVE  SyncInv'
    <3>1. t \in Contents
      BY DEF Contents
    <3>2. QED
      BY <2>1, <3>1, ChangeOnPcKeeps
  <2>2. QED
    BY <1>2, <2>1, TypeKeeps, SaveKeeps, CreateFileKeeps, DeleteLocalKeeps
<1>3. ASSUME NEW d \in Docs,
             \/ PlanDocument(d) \/ sendNothing(d) \/ requireRemovable(d)
             \/ \E choice \in Choices, reply \in Replies : sendDocument(d, choice, reply)
      PROVE  SyncInv'
  BY <1>3, PlanDocumentKeeps, SendNothingKeeps, RequireRemovableKeeps, SendDocumentKeeps
<1>4. ASSUME \/ \E whole \in BOOLEAN, ids \in SUBSET Docs : Plan(whole, ids)
             \/ PlanRefused
             \/ \E removeAfter \in BOOLEAN : Run(removeAfter)
             \/ (\E reply \in Replies : makeFolders(reply)) \/ makeFoldersUnlisted
             \/ \E written \in BOOLEAN : recordSyncedAll(written)
      PROVE  SyncInv'
  BY <1>4, PlanKeeps, PlanRefusedKeeps, RunKeeps, MakeFoldersKeeps, MakeFoldersUnlistedKeeps,
     RecordSyncedAllKeeps
<1>5. ASSUME \/ ReplaceFolderOnPc \/ ReadAgain \/ removeAfterSync
             \/ removeLocalProject \/ Stays \/ removeLocalProjectConfirmed
             \/ \E left \in SUBSET Docs : deleteProject(left)
             \/ Abandon
      PROVE  SyncInv'
  BY <1>5, ReplaceFolderOnPcKeeps, ReadAgainKeeps, RemoveAfterSyncKeeps, RemoveLocalProjectKeeps,
     StaysKeeps, RemoveLocalProjectConfirmedKeeps, DeleteProjectKeeps, AbandonKeeps
<1>6. QED
  BY <1>1, <1>2, <1>3, <1>4, <1>5 DEF SyncNext

\* What the phone, its records and a sync under way say of the PC is so
\* (ProjectSync.kt, LocalProjects.kt).
THEOREM SyncInvHolds == SyncSpec => []SyncInv
BY SyncInvInit, SyncInvNext, PTL DEF SyncSpec

\* A sync record claims only what the PC held (ProjectSync.kt `sendDocument`,
\* LocalProjects.kt `recordSyncedAll`), whatever was lost, edited or changed.
THEOREM RecordsTrueHolds == SyncSpec => []RecordsTrue
<1>1. SyncInv => RecordsTrue
  BY DEF SyncInv
<1>2. QED
  BY <1>1, SyncInvHolds, PTL

\* No document is removed from the phone that the PC did not hold when last
\* asked (ProjectSync.kt `requireRemovable`, LocalProjects.kt `deleteProject`).
THEOREM RemovedOnlyHeldHolds == SyncSpec => []RemovedOnlyHeld
<1>1. SyncInv => RemovedOnlyHeld
  BY DEF SyncInv
<1>2. QED
  BY <1>1, SyncInvHolds, PTL

\* A sync replaces only the revision its plan met (ProjectSync.kt `writeFor`,
\* document.rs `publish`).
THEOREM ReplacedOnlyPlannedHolds == SyncSpec => []ReplacedOnlyPlanned
<1>1. SyncInv => ReplacedOnlyPlanned
  BY DEF SyncInv
<1>2. QED
  BY <1>1, SyncInvHolds, PTL
=============================================================================
