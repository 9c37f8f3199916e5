-------------------------- MODULE DocumentsProofs --------------------------
(***************************************************************************)
(* Proofs about a PC's documents and the phone that edits one: Documents,  *)
(* for any calls, processes and texts, and any number of changes by other  *)
(* programs and of failing file operations; and Editing, for any texts and *)
(* any number of edits, saves, reloads, changes on the PC and connections  *)
(* lost.  The two share their texts.                                       *)
(***************************************************************************)
EXTENDS Documents, Editing, SequenceTheorems, TLAPS

-----------------------------------------------------------------------------
(* Documents.                                                              *)
(*                                                                         *)
(* A comparison holds until the move because the lock of a process has one *)
(* holder (LockHeld) and everybody else who changes the document is        *)
(* counted (DecidedOnBase).  That one process's saves land in the order    *)
(* they were accepted needs more: its highest published number is that of  *)
(* a job that landed, and no job that landed has a higher one (Numbers).   *)

Accepted == {j \in Jobs : job[j].phase # "idle"}

Shape ==
    \A j \in Jobs :
        /\ job[j].phase = "idle" => job[j] = NewJob
        /\ job[j].phase # "idle" => job[j].proc \in Procs /\ job[j].kind \in Kinds
        /\ (job[j].phase = "done") <=> (job[j].answer # "none")
        /\ job[j].kind = "create" => job[j].base = AnyRevision
        /\ job[j].kind = "delete" => job[j].text = Absent

\* The job between its comparison and its move has its process's lock.
LockHeld == \A j \in Jobs : job[j].phase = "decided" => lock[job[j].proc] = j

\* What was compared still holds, or somebody outside the process is to blame.
DecidedOnBase ==
    \A j \in Jobs :
        job[j].phase = "decided" => job[j].base \in {AnyRevision, disk} \/ j \in crossed

\* The order of a process: its highest published number is a landed job's, and
\* no landed job's is higher.
Landed(j) == job[j].answer = "saved" /\ Ordered(job[j].kind)

Numbers ==
    /\ \A p \in Procs : newest[p] = 0 \/
          \E j \in Jobs : Landed(j) /\ job[j].proc = p /\ job[j].seq = newest[p]
    /\ \A j \in Jobs : Landed(j) => job[j].seq <= newest[job[j].proc]
    /\ \A j \in Jobs :
          job[j].phase = "decided" /\ Ordered(job[j].kind) => newest[job[j].proc] <= job[j].seq

\* A process numbers its calls in the order it accepts them, and nobody gets
\* in the way of one that has the document to itself.
Alone ==
    /\ \A j \in Accepted : job[j].seq <= next[job[j].proc]
    /\ alone => crossed = {} /\ \A i, j \in Accepted : job[i].proc = job[j].proc

\* What became of a job is what it did, and it is swept up after unless its
\* temporary file stays.
Answered ==
    \A j \in Jobs :
        /\ (was[j] # AnyRevision) <=> (job[j].answer = "saved")
        /\ job[j].answer = "saved" /\ job[j].kind = "create" => was[j] = Absent
        /\ job[j].phase = "done" /\ j \in temp => ~job[j].swept
        /\ ~job[j].swept =>
              job[j].phase = "done" /\ (job[j].answer = "saved" => job[j].kind = "create")

Inv ==
    /\ TypeOK /\ Shape /\ LockHeld /\ DecidedOnBase /\ Numbers /\ Alone
    /\ ReplacedItsBase /\ Answered

-----------------------------------------------------------------------------
LEMMA InvInit == Init => Inv
<1> SUFFICES ASSUME Init PROVE Inv
  OBVIOUS
<1> USE DEF Init
<1>1. \A j \in Jobs : job[j] = NewJob /\ was[j] = AnyRevision
  OBVIOUS
<1>2. /\ NewJob.phase = "idle" /\ NewJob.kind = "none" /\ NewJob.answer = "none"
      /\ NewJob.swept /\ NewJob.base = AnyRevision /\ NewJob \in Job
  BY DEF NewJob, Job, Contents
<1>3. TypeOK
  BY <1>2, DocumentsAssumption DEF TypeOK, Contents
<1>4. Shape /\ LockHeld /\ DecidedOnBase
  BY <1>1, <1>2 DEF Shape, LockHeld, DecidedOnBase
<1>5. Numbers
  BY <1>1, <1>2 DEF Numbers, Landed
<1>6. Alone
  <2>1. Accepted = {}
    BY <1>1, <1>2 DEF Accepted
  <2>2. QED
    BY <2>1 DEF Alone
<1>7. ReplacedItsBase /\ Answered
  BY <1>1, <1>2 DEF ReplacedItsBase, Answered
<1>8. QED
  BY <1>3, <1>4, <1>5, <1>6, <1>7 DEF Inv

LEMMA AcceptStep ==
    ASSUME Inv, NEW j \in Jobs, NEW p \in Procs, NEW kind \in Kinds, NEW t \in Sent,
           NEW b \in Bases, Accept(j, p, kind, t, b)
    PROVE  Inv'
<1> DEFINE r == Request(p, kind, t, b)
<1>1. /\ job[j].phase = "idle" /\ job' = [job EXCEPT ![j] = r]
      /\ next' = [next EXCEPT ![p] = @ + 1] /\ temp' \subseteq temp \cup {j}
      /\ UNCHANGED <<disk, newest, lock, alone, outside, failures, was, crossed>>
      /\ (kind = "create" => b = AnyRevision)
  BY DEF Accept, History
<1>2. t \in Texts /\ admissible(t) \in Texts
  BY DEF Sent, Texts, admissible
<1>3. b \in Texts \cup {AnyRevision}
  BY DEF Bases, Inv, TypeOK, Contents
<1>4. next[p] + 1 \in Nat
  BY DEF Inv, TypeOK
<1>5. /\ r \in Job /\ r.phase = "ready" /\ r.proc = p /\ r.kind = kind /\ r.seq = next[p] + 1
      /\ r.base = b /\ r.answer = "none" /\ r.swept /\ (kind = "delete" => r.text = Absent)
  BY <1>2, <1>3, <1>4 DEF Request, NewJob, Job, Contents, Kinds
<1>6. job'[j] = r /\ \A i \in Jobs : i # j => job'[i] = job[i]
  BY <1>1 DEF Inv, TypeOK
<1>7. job[j].answer = "none"
  BY <1>1 DEF Inv, Shape, NewJob
<1>8. TypeOK'
  BY <1>1, <1>4, <1>5 DEF Inv, TypeOK
<1>9. Shape' /\ LockHeld' /\ DecidedOnBase'
  BY <1>1, <1>5, <1>6 DEF Inv, Shape, LockHeld, DecidedOnBase
<1>10. Numbers'
  BY <1>1, <1>5, <1>6, <1>7 DEF Inv, Numbers, Landed
<1>11. Alone'
  <2>1. Accepted' = Accepted \cup {j}
    BY <1>1, <1>5, <1>6 DEF Accepted
  <2>2. \A i \in Accepted : job[i].proc \in Procs /\ job[i].seq \in Nat
    BY DEF Accepted, Inv, Shape, TypeOK, Job
  <2>3. \A i \in Accepted' : job'[i].seq <= next'[job'[i].proc]
    <3>1. next'[p] = next[p] + 1 /\ \A q \in Procs : next'[q] >= next[q] /\ next'[q] \in Nat
      BY <1>1 DEF Inv, TypeOK
    <3>2. ASSUME NEW i \in Accepted, i # j PROVE job'[i].seq <= next'[job'[i].proc]
      <4>1. job'[i] = job[i] /\ job[i].seq <= next[job[i].proc] /\ next[job[i].proc] \in Nat
        BY <1>6, <2>2, <3>2 DEF Accepted, Inv, Alone, TypeOK
      <4>2. QED
        BY <2>2, <3>1, <4>1
    <3>3. QED
      BY <1>4, <1>5, <1>6, <2>1, <3>1, <3>2
  <2>4. alone => \A i \in Accepted : job[i].proc = p
    BY <2>2, DocumentsAssumption DEF Accept, Accepted
  <2>5. alone => \A i \in Accepted' : job'[i].proc = p
    BY <1>5, <1>6, <2>1, <2>4 DEF Accepted
  <2>6. QED
    BY <1>1, <2>3, <2>5 DEF Inv, Alone
<1>12. ReplacedItsBase' /\ Answered'
  BY <1>1, <1>5, <1>6, <1>7 DEF Inv, ReplacedItsBase, Answered
<1>13. QED
  BY <1>8, <1>9, <1>10, <1>11, <1>12 DEF Inv

\* A job that changes its phase after it was accepted is accepted still.
LEMMA StillAlone ==
    ASSUME Inv, job' \in [Jobs -> Job],
           \A i \in Jobs : job'[i].proc = job[i].proc /\ job'[i].seq = job[i].seq /\
                           ((job'[i].phase = "idle") <=> (job[i].phase = "idle")),
           UNCHANGED <<alone, next>>, alone => crossed' = {}
    PROVE  Alone'
<1>1. Accepted' = Accepted
  BY DEF Accepted
<1>2. \A i \in Accepted : job'[i].proc = job[i].proc /\ job'[i].seq = job[i].seq
  BY DEF Accepted
<1>3. QED
  BY <1>1, <1>2 DEF Inv, Alone

EndsAs(j, a, s) ==
    \/ job' = [job EXCEPT ![j].phase = "done", ![j].answer = a, ![j].swept = s]
    \/ s = job[j].swept /\ job' = [job EXCEPT ![j].phase = "done", ![j].answer = a]

\* How a job ends: what it asked for stays, and so does every other job.
LEMMA Done ==
    ASSUME TypeOK, NEW j \in Jobs, NEW a \in Refusals \cup {"saved"}, NEW s \in BOOLEAN,
           EndsAs(j, a, s)
    PROVE  /\ \A i \in Jobs : i # j => job'[i] = job[i]
           /\ job'[j].phase = "done" /\ job'[j].answer = a /\ job'[j].swept = s
           /\ job'[j].proc = job[j].proc /\ job'[j].kind = job[j].kind
           /\ job'[j].base = job[j].base /\ job'[j].text = job[j].text
           /\ job'[j].seq = job[j].seq
           /\ job' \in [Jobs -> Job]
<1> DEFINE r == [job[j] EXCEPT !.phase = "done", !.answer = a, !.swept = s]
<1>1. job \in [Jobs -> Job] /\ job[j] \in Job
  BY DEF TypeOK
<1>2. job' = [job EXCEPT ![j] = r]
  <2>1. CASE job' = [job EXCEPT ![j].phase = "done", ![j].answer = a, ![j].swept = s]
    BY <1>1, <2>1
  <2>2. CASE s = job[j].swept /\ job' = [job EXCEPT ![j].phase = "done", ![j].answer = a]
    <3>1. r = [job[j] EXCEPT !.phase = "done", !.answer = a]
      BY <1>1, <2>2 DEF Job
    <3>2. QED
      BY <1>1, <2>2, <3>1
  <2>3. QED
    BY <2>1, <2>2 DEF EndsAs
<1>3. /\ r \in Job /\ r.phase = "done" /\ r.answer = a /\ r.swept = s
      /\ r.proc = job[j].proc /\ r.kind = job[j].kind /\ r.base = job[j].base
      /\ r.text = job[j].text /\ r.seq = job[j].seq
  BY <1>1 DEF Job
<1> HIDE DEF r
<1>4. job'[j] = r /\ \A i \in Jobs : i # j => job'[i] = job[i]
  BY <1>1, <1>2
<1>5. QED
  BY <1>1, <1>2, <1>3, <1>4

\* A job that lets its lock go leaves those of other processes held.
LEMMA Unlocks ==
    ASSUME Inv, NEW j \in Jobs, job'[j].phase = "done",
           \A i \in Jobs : i # j => job'[i] = job[i],
           UNCHANGED lock \/ (job[j].phase = "decided" /\ Unlock(j))
    PROVE  LockHeld'
<1> SUFFICES ASSUME NEW i \in Jobs, job'[i].phase = "decided" PROVE lock'[job'[i].proc] = i
  BY DEF LockHeld
<1>1. i # j /\ job'[i] = job[i] /\ job[i].phase = "decided"
  OBVIOUS
<1>2. lock[job[i].proc] = i
  BY <1>1 DEF Inv, LockHeld
<1>3. job[i].proc \in Procs /\ lock \in [Procs -> Jobs \cup {None}]
  BY <1>1 DEF Inv, Shape, TypeOK
<1>4. CASE UNCHANGED lock
  BY <1>1, <1>2, <1>4
<1>5. CASE job[j].phase = "decided" /\ Unlock(j)
  <2>1. job[i].proc # job[j].proc
    BY <1>1, <1>2, <1>5 DEF Inv, LockHeld
  <2>2. QED
    BY <1>1, <1>2, <1>3, <1>5, <2>1 DEF Unlock
<1>6. QED
  BY <1>4, <1>5

\* A job ends without changing the document.
LEMMA EndStep ==
    ASSUME Inv, NEW j \in Jobs, NEW a \in Refusals, NEW s \in BOOLEAN,
           job[j].phase \in {"ready", "decided"},
           EndsAs(j, a, s),
           temp' \subseteq temp, j \in temp' => ~s,
           \/ UNCHANGED lock
           \/ job[j].phase = "decided" /\ Unlock(j),
           failures' \in 0..MaxFailures,
           UNCHANGED <<disk, next, newest, alone, outside, was, crossed>>
    PROVE  Inv'
<1>1. /\ \A i \in Jobs : i # j => job'[i] = job[i]
      /\ job'[j].phase = "done" /\ job'[j].answer = a /\ job'[j].swept = s
      /\ job'[j].proc = job[j].proc /\ job'[j].kind = job[j].kind
      /\ job'[j].base = job[j].base /\ job'[j].text = job[j].text
      /\ job'[j].seq = job[j].seq
      /\ job' \in [Jobs -> Job]
  <2>1. TypeOK /\ a \in Refusals \cup {"saved"}
    BY DEF Inv
  <2>2. QED
    BY <2>1, Done
<1>2. a # "none" /\ a # "saved" /\ job[j].answer = "none"
  BY DEF Refusals, Inv, Shape
<1>3. TypeOK'
  BY <1>1 DEF Inv, TypeOK, Unlock
<1>4. Shape' /\ DecidedOnBase'
  BY <1>1, <1>2 DEF Inv, Shape, DecidedOnBase
<1>5. LockHeld'
  BY <1>1, Unlocks
<1>6. Numbers'
  BY <1>1, <1>2 DEF Inv, Numbers, Landed
<1>7. Alone'
  BY <1>1, StillAlone DEF Inv, Alone
<1>8. ReplacedItsBase' /\ Answered'
  BY <1>1, <1>2 DEF Inv, ReplacedItsBase, Answered
<1>9. QED
  BY <1>3, <1>4, <1>5, <1>6, <1>7, <1>8 DEF Inv

LEMMA Sweeps ==
    ASSUME TypeOK, NEW j \in Jobs, NEW s \in BOOLEAN, Sweep(j, s)
    PROVE  temp' \subseteq temp /\ (j \in temp' => ~s) /\ failures' \in 0..MaxFailures
BY DocumentsAssumption DEF Sweep, Fails, TypeOK

LEMMA FailuresBound == TypeOK /\ Fails => failures' \in 0..MaxFailures
BY DocumentsAssumption DEF Fails, TypeOK

LEMMA EndingSteps ==
    ASSUME Inv, NEW j \in Jobs,
           PrepareFails(j) \/ CompareRefused(j) \/ CompareFails(j) \/ PublishRefused(j)
             \/ PublishFails(j)
    PROVE  Inv'
<1>1. TypeOK /\ job[j].swept \in BOOLEAN
  BY DEF Inv, TypeOK, Job
<1>2. CASE PrepareFails(j) \/ CompareFails(j) \/ PublishFails(j)
  <2>1. /\ job[j].phase \in {"ready", "decided"}
        /\ job' = [job EXCEPT ![j].phase = "done", ![j].answer = "io"]
        /\ temp' \subseteq temp /\ j \notin temp'
        /\ UNCHANGED lock \/ (job[j].phase = "decided" /\ Unlock(j))
        /\ Fails /\ UNCHANGED <<disk, next, newest, alone, outside, was, crossed>>
    BY <1>2 DEF PrepareFails, CompareFails, PublishFails, History
  <2>2. "io" \in Refusals
    BY DEF Refusals
  <2>3. QED
    BY <1>1, <2>1, <2>2, FailuresBound, EndStep DEF EndsAs
<1>3. CASE CompareRefused(j) \/ PublishRefused(j)
  <2>1. PICK a \in Refusals : Finish(j, a)
    BY <1>3 DEF CompareRefused, PublishRefused, Refusal, Refusals
  <2>2. PICK s \in BOOLEAN :
          /\ Sweep(j, s)
          /\ job' = [job EXCEPT ![j].phase = "done", ![j].answer = a, ![j].swept = s]
    BY <2>1 DEF Finish
  <2>3. /\ job[j].phase \in {"ready", "decided"}
        /\ UNCHANGED lock \/ (job[j].phase = "decided" /\ Unlock(j))
        /\ UNCHANGED <<disk, next, newest, alone, outside, was, crossed>>
    BY <1>3 DEF CompareRefused, PublishRefused, History
  <2>4. temp' \subseteq temp /\ (j \in temp' => ~s) /\ failures' \in 0..MaxFailures
    BY <1>1, <2>2, Sweeps
  <2>5. QED
    BY <2>2, <2>3, <2>4, EndStep DEF EndsAs
<1>4. QED
  BY <1>2, <1>3

LEMMA CompareStep ==
    ASSUME Inv, NEW j \in Jobs, Compare(j)
    PROVE  Inv'
<1> DEFINE r == [job[j] EXCEPT !.phase = "decided"]
<1>1. /\ job[j].phase = "ready" /\ lock[job[j].proc] = None /\ Refusal(j) = "none"
      /\ job' = [job EXCEPT ![j] = r] /\ lock' = [lock EXCEPT ![job[j].proc] = j]
      /\ UNCHANGED <<disk, temp, next, newest, alone, outside, failures, was, crossed>>
  BY DEF Compare, Locked, History, Inv, TypeOK
<1>2. /\ r \in Job /\ r.phase = "decided" /\ r.proc = job[j].proc /\ r.kind = job[j].kind
      /\ r.base = job[j].base /\ r.text = job[j].text /\ r.seq = job[j].seq
      /\ r.answer = job[j].answer /\ r.swept = job[j].swept
  <2>1. job[j] \in Job
    BY DEF Inv, TypeOK
  <2>2. QED
    BY <2>1 DEF Job
<1> HIDE DEF r
<1>3. job'[j] = r /\ (\A i \in Jobs : i # j => job'[i] = job[i]) /\ job' \in [Jobs -> Job]
  BY <1>1, <1>2 DEF Inv, TypeOK
<1>4. job[j].proc \in Procs /\ lock \in [Procs -> Jobs \cup {None}]
  BY <1>1 DEF Inv, Shape, TypeOK
<1>5. TypeOK'
  BY <1>1, <1>3, <1>4 DEF Inv, TypeOK
<1>6. Shape'
  BY <1>1, <1>2, <1>3 DEF Inv, Shape
<1>7. LockHeld'
  <2>1. ASSUME NEW i \in Jobs, job'[i].phase = "decided" PROVE lock'[job'[i].proc] = i
    <3>1. CASE i = j
      BY <1>1, <1>2, <1>3, <1>4, <3>1
    <3>2. CASE i # j
      <4>1. job'[i] = job[i] /\ lock[job[i].proc] = i /\ job[i].proc \in Procs
        BY <1>3, <2>1, <3>2 DEF Inv, LockHeld, Shape
      <4>2. job[i].proc # job[j].proc
        BY <1>1, <4>1, DocumentsAssumption
      <4>3. QED
        BY <1>1, <1>4, <4>1, <4>2
    <3>3. QED
      BY <3>1, <3>2
  <2>2. QED
    BY <2>1 DEF LockHeld
<1>8. ~Superseded(j) /\ job[j].base \in {AnyRevision, disk}
  BY <1>1 DEF Refusal
<1>9. DecidedOnBase'
  BY <1>1, <1>2, <1>3, <1>8 DEF Inv, DecidedOnBase
<1>10. Numbers'
  <2>1. Ordered(job[j].kind) => newest[job[j].proc] <= job[j].seq
    <3>1. newest[job[j].proc] \in Nat /\ job[j].seq \in Nat
      BY <1>4 DEF Inv, TypeOK, Job
    <3>2. QED
      BY <1>8, <3>1 DEF Superseded
  <2>2. job[j].answer = "none"
    BY <1>1 DEF Inv, Shape
  <2>3. QED
    BY <1>1, <1>2, <1>3, <2>1, <2>2 DEF Inv, Numbers, Landed
<1>11. Alone'
  BY <1>1, <1>2, <1>3, StillAlone DEF Inv, Alone
<1>12. ReplacedItsBase' /\ Answered'
  BY <1>1, <1>2, <1>3 DEF Inv, ReplacedItsBase, Answered
<1>13. QED
  BY <1>5, <1>6, <1>7, <1>9, <1>10, <1>11, <1>12 DEF Inv

\* What a publication does, whichever move it makes.
LEMMA Publishes ==
    ASSUME Inv, NEW j \in Jobs, Publish(j)
    PROVE  /\ job[j].phase = "decided" /\ Movable(j) /\ disk' = job[j].text /\ Unlock(j)
           /\ newest' = IF Ordered(job[j].kind)
                          THEN [newest EXCEPT ![job[j].proc] = job[j].seq] ELSE newest
           /\ was' = [was EXCEPT ![j] = disk] /\ crossed' = crossed \cup Crossing(j)
           /\ UNCHANGED <<next, alone, outside>>
           /\ temp' \subseteq temp /\ failures' \in 0..MaxFailures
           /\ \A i \in Jobs : i # j => job'[i] = job[i]
           /\ job'[j].phase = "done" /\ job'[j].answer = "saved"
           /\ (j \in temp' => ~job'[j].swept) /\ (~job'[j].swept => job[j].kind = "create")
           /\ job'[j].proc = job[j].proc /\ job'[j].kind = job[j].kind
           /\ job'[j].base = job[j].base /\ job'[j].text = job[j].text
           /\ job'[j].seq = job[j].seq
           /\ job' \in [Jobs -> Job]
<1>1. /\ job[j].phase = "decided" /\ Movable(j) /\ disk' = job[j].text /\ Unlock(j)
      /\ newest' = IF Ordered(job[j].kind)
                     THEN [newest EXCEPT ![job[j].proc] = job[j].seq] ELSE newest
      /\ was' = [was EXCEPT ![j] = disk] /\ crossed' = crossed \cup Crossing(j)
      /\ UNCHANGED <<next, alone, outside>>
  BY DEF Publish
<1>2. TypeOK /\ job[j].swept \in BOOLEAN /\ "saved" \in Refusals \cup {"saved"}
  BY DEF Inv, TypeOK, Job
<1>3. \E s \in BOOLEAN :
         /\ EndsAs(j, "saved", s) /\ (~s => job[j].kind = "create")
         /\ temp' \subseteq temp /\ (j \in temp' => ~s) /\ failures' \in 0..MaxFailures
  <2>1. CASE job[j].kind = "create" /\ Finish(j, "saved")
    <3>1. PICK s \in BOOLEAN :
            /\ Sweep(j, s)
            /\ job' = [job EXCEPT ![j].phase = "done", ![j].answer = "saved", ![j].swept = s]
      BY <2>1 DEF Finish
    <3>2. temp' \subseteq temp /\ (j \in temp' => ~s) /\ failures' \in 0..MaxFailures
      BY <1>2, <3>1, Sweeps
    <3>3. QED
      BY <2>1, <3>1, <3>2 DEF EndsAs
  <2>2. CASE /\ job' = [job EXCEPT ![j].phase = "done", ![j].answer = "saved"]
             /\ temp' = temp \ {j} /\ UNCHANGED failures
    <3>1. EndsAs(j, "saved", job[j].swept)
      BY <2>2 DEF EndsAs
    <3>2. temp' \subseteq temp /\ j \notin temp' /\ failures' \in 0..MaxFailures
      BY <1>2, <2>2 DEF TypeOK
    <3>3. job[j].swept
      BY <1>1 DEF Inv, Answered
    <3>4. QED
      BY <1>2, <3>1, <3>2, <3>3
  <2>3. QED
    BY <2>1, <2>2 DEF Publish
<1>4. QED
  BY <1>1, <1>2, <1>3, Done

LEMMA PublishStep ==
    ASSUME Inv, NEW j \in Jobs, Publish(j)
    PROVE  Inv'
<1> DEFINE p == job[j].proc
<1>1. /\ job[j].phase = "decided" /\ Movable(j) /\ disk' = job[j].text /\ Unlock(j)
      /\ newest' = IF Ordered(job[j].kind) THEN [newest EXCEPT ![p] = job[j].seq] ELSE newest
      /\ was' = [was EXCEPT ![j] = disk] /\ crossed' = crossed \cup Crossing(j)
      /\ UNCHANGED <<next, alone, outside>>
      /\ temp' \subseteq temp /\ failures' \in 0..MaxFailures
      /\ (j \in temp' => ~job'[j].swept) /\ (~job'[j].swept => job[j].kind = "create")
  BY Publishes
<1>2. /\ \A i \in Jobs : i # j => job'[i] = job[i]
      /\ job'[j].phase = "done" /\ job'[j].answer = "saved"
      /\ job'[j].proc = p /\ job'[j].kind = job[j].kind
      /\ job'[j].base = job[j].base /\ job'[j].text = job[j].text
      /\ job'[j].seq = job[j].seq
      /\ job' \in [Jobs -> Job]
  BY Publishes
<1>3. /\ p \in Procs /\ job[j].kind \in Kinds /\ job[j].answer = "none"
      /\ job[j].text \in Contents /\ job[j].seq \in Nat
  BY <1>1 DEF Inv, Shape, TypeOK, Job
<1>4. /\ disk \in Contents /\ AnyRevision \notin Contents
      /\ was'[j] = disk /\ \A i \in Jobs : i # j => was'[i] = was[i]
  BY <1>1, DocumentsAssumption DEF Inv, TypeOK, Contents
<1>5. TypeOK'
  <2>1. newest' \in [Procs -> Nat] /\ lock' \in [Procs -> Jobs \cup {None}]
    BY <1>1, <1>3 DEF Inv, TypeOK, Unlock
  <2>2. was' \in [Jobs -> Contents \cup {AnyRevision}] /\ crossed' \subseteq Jobs
    BY <1>1 DEF Inv, TypeOK, Crossing
  <2>3. QED
    BY <1>1, <1>2, <1>3, <2>1, <2>2 DEF Inv, TypeOK
<1>6. Shape'
  BY <1>1, <1>2, <1>3 DEF Inv, Shape
<1>7. LockHeld'
  BY <1>1, <1>2, Unlocks
<1>8. DecidedOnBase'
  <2>1. ASSUME NEW i \in Jobs, job'[i].phase = "decided" PROVE i \in crossed'
    <3>1. i # j /\ job[i].phase = "decided"
      BY <1>2, <2>1
    <3>2. job[i].proc # p
      BY <1>1, <3>1 DEF Inv, LockHeld
    <3>3. QED
      BY <1>1, <3>1, <3>2 DEF Crossing
  <2>2. QED
    BY <2>1 DEF DecidedOnBase
<1>9. Numbers'
  <2>1. CASE ~Ordered(job[j].kind)
    <3>1. newest' = newest /\ ~Landed(j) /\ ~Landed(j)'
      BY <1>1, <1>2, <1>3, <2>1 DEF Landed
    <3>2. \A i \in Jobs : i # j => Landed(i)' = Landed(i)
      BY <1>2 DEF Landed
    <3>3. QED
      BY <1>2, <3>1, <3>2 DEF Inv, Numbers
  <2>2. CASE Ordered(job[j].kind)
    <3>1. /\ newest'[p] = job[j].seq /\ newest[p] <= job[j].seq /\ newest[p] \in Nat
          /\ \A q \in Procs : q # p => newest'[q] = newest[q]
      BY <1>1, <1>3, <2>2 DEF Inv, TypeOK, Numbers
    <3>2. Landed(j)' /\ ~Landed(j) /\ \A i \in Jobs : i # j => Landed(i)' = Landed(i)
      BY <1>2, <1>3, <2>2 DEF Landed
    <3>3. \A q \in Procs : newest'[q] = 0 \/
            \E i \in Jobs : Landed(i)' /\ job'[i].proc = q /\ job'[i].seq = newest'[q]
      <4>1. Landed(j)' /\ job'[j].proc = p /\ job'[j].seq = newest'[p]
        BY <1>2, <3>1, <3>2
      <4>2. ASSUME NEW q \in Procs, q # p, newest'[q] # 0
            PROVE  \E i \in Jobs : Landed(i)' /\ job'[i].proc = q /\ job'[i].seq = newest'[q]
        <5>1. PICK i \in Jobs : Landed(i) /\ job[i].proc = q /\ job[i].seq = newest[q]
          BY <3>1, <4>2 DEF Inv, Numbers
        <5>2. i # j
          BY <3>2, <5>1
        <5>3. QED
          BY <1>2, <3>1, <3>2, <4>2, <5>1, <5>2
      <4>3. QED
        BY <4>1, <4>2
    <3>4. \A i \in Jobs : Landed(i)' => job'[i].seq <= newest'[job'[i].proc]
      <4>1. ASSUME NEW i \in Jobs, Landed(i)', i # j PROVE job'[i].seq <= newest'[job'[i].proc]
        <5>1. job'[i] = job[i] /\ Landed(i) /\ job[i].seq <= newest[job[i].proc]
          BY <1>2, <3>2, <4>1 DEF Inv, Numbers
        <5>2. job[i].proc \in Procs /\ job[i].seq \in Nat
          BY <5>1 DEF Landed, Inv, Shape, TypeOK, Job
        <5>3. CASE job[i].proc = p
          BY <1>3, <3>1, <5>1, <5>2, <5>3
        <5>4. CASE job[i].proc # p
          BY <3>1, <5>1, <5>2, <5>4
        <5>5. QED
          BY <5>3, <5>4
      <4>2. job'[j].seq <= newest'[job'[j].proc]
        BY <1>2, <1>3, <3>1
      <4>3. QED
        BY <4>1, <4>2
    <3>5. \A i \in Jobs : job'[i].phase = "decided" /\ Ordered(job'[i].kind)
                            => newest'[job'[i].proc] <= job'[i].seq
      <4>1. ASSUME NEW i \in Jobs, job'[i].phase = "decided", Ordered(job'[i].kind)
            PROVE  newest'[job'[i].proc] <= job'[i].seq
        <5>1. i # j /\ job'[i] = job[i] /\ job[i].phase = "decided" /\ Ordered(job[i].kind)
          BY <1>2, <4>1
        <5>2. job[i].proc \in Procs /\ job[i].proc # p /\ newest[job[i].proc] <= job[i].seq
          BY <1>1, <5>1 DEF Inv, Shape, LockHeld, Numbers
        <5>3. QED
          BY <3>1, <5>1, <5>2
      <4>2. QED
        BY <4>1
    <3>6. QED
      BY <3>3, <3>4, <3>5 DEF Numbers
  <2>3. QED
    BY <2>1, <2>2
<1>10. Alone'
  <2>1. ASSUME alone PROVE crossed' = {}
    <3>1. \A i \in Jobs : job[i].phase = "decided" => job[i].proc = p
      BY <1>1, <2>1 DEF Inv, Alone, Accepted
    <3>2. Crossing(j) = {}
      BY <3>1 DEF Crossing
    <3>3. QED
      BY <1>1, <2>1, <3>2 DEF Inv, Alone
  <2>2. QED
    BY <1>1, <1>2, <2>1, StillAlone
<1>11. ReplacedItsBase'
  <2>1. job[j].base # AnyRevision => disk = job[j].base \/ j \in crossed
    BY <1>1 DEF Inv, DecidedOnBase
  <2>2. QED
    BY <1>1, <1>2, <1>4, <2>1 DEF Inv, ReplacedItsBase
<1>12. Answered'
  <2>1. job[j].kind = "create" => disk = Absent
    BY <1>1 DEF Movable
  <2>2. QED
    BY <1>1, <1>2, <1>4, <2>1 DEF Inv, Answered
<1>13. QED
  BY <1>5, <1>6, <1>7, <1>8, <1>9, <1>10, <1>11, <1>12 DEF Inv

LEMMA OutsideStep ==
    ASSUME Inv, NEW t \in Foreign, Outside(t)
    PROVE  Inv'
<1>1. /\ ~alone /\ disk' = t /\ outside < MaxOutside /\ outside' = outside + 1
      /\ crossed' = crossed \cup {i \in Jobs : job[i].phase = "decided"}
      /\ UNCHANGED <<job, temp, next, newest, lock, alone, failures, was>>
  BY DEF Outside
<1>2. TypeOK'
  BY <1>1, DocumentsAssumption DEF Inv, TypeOK, Foreign, Contents
<1>3. Shape' /\ LockHeld' /\ DecidedOnBase'
  BY <1>1 DEF Inv, Shape, LockHeld, DecidedOnBase
<1>4. Numbers' /\ Alone' /\ ReplacedItsBase' /\ Answered'
  BY <1>1 DEF Inv, Numbers, Landed, Alone, Accepted, ReplacedItsBase, Answered
<1>5. QED
  BY <1>2, <1>3, <1>4 DEF Inv

LEMMA InvNext == Inv /\ [Next]_vars => Inv'
<1> SUFFICES ASSUME Inv, [Next]_vars PROVE Inv'
  OBVIOUS
<1>1. ASSUME NEW j \in Jobs, NEW p \in Procs, NEW kind \in Kinds, NEW t \in Sent,
             NEW b \in Bases, Accept(j, p, kind, t, b)
      PROVE  Inv'
  BY <1>1, AcceptStep
<1>2. ASSUME NEW j \in Jobs, Compare(j) PROVE Inv'
  BY <1>2, CompareStep
<1>3. ASSUME NEW j \in Jobs, Publish(j) PROVE Inv'
  BY <1>3, PublishStep
<1>4. ASSUME NEW j \in Jobs,
             PrepareFails(j) \/ CompareRefused(j) \/ CompareFails(j) \/ PublishRefused(j)
               \/ PublishFails(j)
      PROVE  Inv'
  BY <1>4, EndingSteps
<1>5. ASSUME NEW t \in Foreign, Outside(t) PROVE Inv'
  BY <1>5, OutsideStep
<1>6. CASE UNCHANGED vars
  BY <1>6 DEF vars, Inv, TypeOK, Shape, LockHeld, DecidedOnBase, Numbers, Landed, Alone,
     Accepted, ReplacedItsBase, Answered
<1>7. QED
  BY <1>1, <1>2, <1>3, <1>4, <1>5, <1>6 DEF Next

\* The inductive invariant holds of every history of calls, processes and other
\* programs (document.rs `persist`, `publish`, `delete`).
THEOREM InvHolds == Spec => []Inv
BY InvInit, InvNext, PTL DEF Spec

\* What a save or a deletion that names a revision replaced is that revision,
\* unless somebody outside its process changed the document between its
\* comparison and its move (document.rs `write_expecting`).
THEOREM ReplacedItsBaseHolds == Spec => []ReplacedItsBase
<1>1. Inv => ReplacedItsBase
  BY DEF Inv
<1>2. QED
  BY <1>1, InvHolds, PTL

\* A job told as saved changed the document, and a job that changed it is told so,
\* or is a creation told an error; a creation is never over another document, and a
\* temporary file outlives its job only where the caller is told an error
\* (document.rs `publish`, `Temporary`).
THEOREM AnswersTrueHolds == Spec => []AnswersTrue
<1>1. Inv => AnswersTrue
  BY DEF Inv, Answered, AnswersTrue, Told, TypeOK, Job
<1>2. QED
  BY <1>1, InvHolds, PTL

-----------------------------------------------------------------------------
(* The register of DocumentStore, read off the state as Documents maps it. *)

content == IF alone THEN disk ELSE Absent

request ==
    [j \in Jobs |->
        IF alone /\ job[j].phase # "idle"
          THEN [kind |-> job[j].kind, text |-> job[j].text,
                base |-> job[j].base, seq |-> job[j].seq]
          ELSE [kind |-> "none", text |-> Absent, base |-> AnyRevision, seq |-> 0]]

outcome ==
    [j \in Jobs |->
        IF ~alone THEN "none"
        ELSE IF job[j].answer = "saved" THEN "landed"
        ELSE job[j].answer]

regs == <<content, request, outcome>>

Asks(r) == [kind |-> r.kind, text |-> r.text, base |-> r.base, seq |-> r.seq]

LEMMA Mapped ==
    ASSUME Inv, alone, NEW j \in Jobs
    PROVE  /\ content = disk
           /\ job[j].phase = "idle" => request[j] = Store!Nothing
           /\ job[j].phase # "idle" => request[j] = Asks(job[j]) /\ request[j] # Store!Nothing
           /\ outcome[j] = IF job[j].answer = "saved" THEN "landed" ELSE job[j].answer
<1>1. job[j].phase # "idle" => job[j].kind # "none"
  BY DEF Inv, Shape, Kinds
<1>2. job[j].phase # "idle" => request[j] = Asks(job[j]) /\ request[j].kind = job[j].kind
  BY DEF request, Asks
<1>3. Store!Nothing.kind = "none"
  BY DEF Store!Nothing
<1>4. QED
  BY <1>1, <1>2, <1>3 DEF content, request, outcome, Store!Nothing

\* Later-asked is higher-numbered: the process's own record of what it has
\* published tells it whether a job has been overtaken.
LEMMA OvertakenIsSuperseded ==
    ASSUME Inv, alone, NEW j \in Jobs, job[j].phase # "idle"
    PROVE  Store!Overtaken(j) <=> newest[job[j].proc] > job[j].seq
<1>1. /\ job[j].proc \in Procs /\ job[j].seq \in Nat /\ newest[job[j].proc] \in Nat
      /\ request[j].seq = job[j].seq
  <2>1. /\ job[j].proc \in Procs /\ job[j].seq \in Nat /\ newest[job[j].proc] \in Nat
    BY DEF Inv, Shape, TypeOK, Job
  <2>2. request[j] = Asks(job[j])
    BY Mapped
  <2>3. QED
    BY <2>1, <2>2 DEF Asks
<1>2. \A i \in Jobs : outcome[i] = "landed" <=> job[i].answer = "saved"
  BY Mapped DEF Inv, TypeOK, Job, Refusals
<1>3. \A i \in Jobs : job[i].answer = "saved" =>
         /\ job[i].phase # "idle" /\ job[i].proc = job[j].proc /\ job[i].seq \in Nat
         /\ request[i].kind = job[i].kind /\ request[i].seq = job[i].seq
  <2> SUFFICES ASSUME NEW i \in Jobs, job[i].answer = "saved"
               PROVE  /\ job[i].phase # "idle" /\ job[i].proc = job[j].proc
                      /\ job[i].seq \in Nat
                      /\ request[i].kind = job[i].kind /\ request[i].seq = job[i].seq
    OBVIOUS
  <2>1. job[i].phase # "idle" /\ job[i].proc = job[j].proc
    BY DEF Inv, Shape, Alone, Accepted
  <2>2. request[i] = Asks(job[i]) /\ job[i].seq \in Nat
    BY <2>1, Mapped DEF Inv, TypeOK, Job
  <2>3. QED
    BY <2>1, <2>2 DEF Asks
<1>4. Store!Overtaken(j) <=> \E i \in Jobs : Landed(i) /\ job[i].seq > job[j].seq
  BY <1>1, <1>2, <1>3 DEF Store!Overtaken, Store!Ordered, Landed, Ordered, request, outcome
<1>5. ASSUME newest[job[j].proc] > job[j].seq
      PROVE  \E i \in Jobs : Landed(i) /\ job[i].seq > job[j].seq
  BY <1>1, <1>5 DEF Inv, Numbers
<1>6. ASSUME NEW i \in Jobs, Landed(i), job[i].seq > job[j].seq
      PROVE  newest[job[j].proc] > job[j].seq
  <2>1. job[i].seq <= newest[job[j].proc] /\ job[i].seq \in Nat
    BY <1>3, <1>6 DEF Inv, Numbers, Landed
  <2>2. QED
    BY <1>1, <1>6, <2>1
<1>7. QED
  BY <1>4, <1>5, <1>6

LEMMA AcceptAsks ==
    ASSUME Inv, Inv', alone, NEW j \in Jobs, NEW p \in Procs, NEW kind \in Kinds, NEW t \in Sent,
           NEW b \in Bases, Accept(j, p, kind, t, b)
    PROVE  Store!Ask(j)
<1> DEFINE r == Request(p, kind, t, b)
<1>1. /\ job[j].phase = "idle" /\ job' = [job EXCEPT ![j] = r] /\ alone' = alone
      /\ disk' = disk
  BY DEF Accept
<1>2. job'[j] = r /\ (\A i \in Jobs : i # j => job'[i] = job[i]) /\ r.phase = "ready"
      /\ r.proc = p /\ r.seq = next[p] + 1 /\ r.answer = "none"
  BY <1>1 DEF Inv, TypeOK, Request, NewJob
<1>3. content' = content
  BY <1>1 DEF content
<1>4. outcome' = outcome
  <2>1. job[j].answer = "none"
    BY <1>1 DEF Inv, Shape, NewJob
  <2>2. QED
    BY <1>1, <1>2, <2>1 DEF outcome
<1>5. request[j] = Store!Nothing
  BY <1>1, Mapped
<1>6. request'[j] = Asks(r) /\ \A i \in Jobs : i # j => request'[i] = request[i]
  BY <1>1, <1>2 DEF request, Asks
<1>7. request' = [request EXCEPT ![j] = request'[j]]
  BY <1>6 DEF request
<1>8. request'[j] \in Store!Request
  <2>1. job'[j] \in Job /\ job'[j].kind \in Kinds
    BY <1>2 DEF Inv, TypeOK, Shape
  <2>2. QED
    BY <1>2, <1>6, <2>1 DEF Store!Request, Store!Contents, Contents, Kinds, Asks, Job
<1>9. Store!Latest(request'[j].seq)
  <2>1. ASSUME NEW i \in Jobs, request[i] # Store!Nothing
        PROVE  request'[j].seq > request[i].seq
    <3>1. i \in Accepted /\ request[i] = Asks(job[i])
      BY <2>1, Mapped DEF Accepted
    <3>2. job[i].seq <= next[p]
      BY <3>1, DocumentsAssumption DEF Accept, Accepted, Inv, Shape, Alone
    <3>3. request[i].seq = job[i].seq /\ request'[j].seq = next[p] + 1
      BY <1>2, <1>6, <3>1 DEF Asks
    <3>4. job[i].seq \in Nat /\ next[p] \in Nat
      BY DEF Inv, TypeOK, Job
    <3>5. QED
      BY <3>2, <3>3, <3>4
  <2>2. QED
    BY <2>1 DEF Store!Latest, request
<1>10. QED
  BY <1>3, <1>4, <1>5, <1>7, <1>8, <1>9 DEF Store!Ask, content, request, outcome

\* The answer of one job, and nothing else of what was asked, changes.
LEMMA Answers ==
    ASSUME Inv, alone, alone' = alone, NEW j \in Jobs, NEW a \in Refusals \cup {"saved"},
           \A i \in Jobs : i # j => job'[i] = job[i],
           job[j].phase # "idle", job'[j].phase = "done", job'[j].answer = a,
           job'[j].kind = job[j].kind, job'[j].base = job[j].base,
           job'[j].text = job[j].text, job'[j].seq = job[j].seq
    PROVE  /\ request' = request
           /\ outcome' = [outcome EXCEPT ![j] = IF a = "saved" THEN "landed" ELSE a]
<1>1. request' = request
  BY DEF request
<1>2. outcome' = [outcome EXCEPT ![j] = IF a = "saved" THEN "landed" ELSE a]
  BY DEF outcome
<1>3. QED
  BY <1>1, <1>2

LEMMA IsWaiting ==
    ASSUME Inv, alone, NEW j \in Jobs, job[j].phase \in {"ready", "decided"}
    PROVE  /\ Store!Waiting(j)
           /\ request[j].kind = job[j].kind /\ request[j].base = job[j].base
           /\ request[j].text = job[j].text
<1>1. job[j].answer = "none"
  BY DEF Inv, Shape
<1>2. request[j] # Store!Nothing /\ outcome[j] = "none" /\ request[j] = Asks(job[j])
  BY <1>1, Mapped
<1>3. QED
  BY <1>2 DEF Store!Waiting, request, outcome, Asks

LEMMA PublishLands ==
    ASSUME Inv, alone, NEW j \in Jobs, Publish(j)
    PROVE  Store!Land(j)
<1>1. /\ job[j].phase = "decided" /\ Movable(j) /\ disk' = job[j].text /\ alone' = alone
      /\ \A i \in Jobs : i # j => job'[i] = job[i]
      /\ job'[j].phase = "done" /\ job'[j].answer = "saved"
      /\ job'[j].kind = job[j].kind /\ job'[j].base = job[j].base
      /\ job'[j].text = job[j].text /\ job'[j].seq = job[j].seq
  BY Publishes
<1>2. request' = request /\ outcome' = [outcome EXCEPT ![j] = "landed"]
  BY <1>1, Answers
<1>3. /\ Store!Waiting(j) /\ request[j].kind = job[j].kind /\ request[j].base = job[j].base
      /\ request[j].text = job[j].text
  BY <1>1, IsWaiting
<1>4. content = disk /\ content' = disk'
  BY <1>1 DEF content
<1>5. Ordered(job[j].kind) => ~Store!Overtaken(j)
  <2>1. Ordered(job[j].kind) => newest[job[j].proc] <= job[j].seq
    BY <1>1 DEF Inv, Numbers
  <2>2. newest[job[j].proc] \in Nat /\ job[j].seq \in Nat
    BY <1>1 DEF Inv, Shape, TypeOK, Job
  <2>3. QED
    BY <1>1, <2>1, <2>2, OvertakenIsSuperseded
<1>6. job[j].base \in {AnyRevision, disk}
  BY <1>1 DEF Inv, DecidedOnBase, Alone
<1>7. job[j].kind = "delete" => job[j].text = Absent
  BY DEF Inv, Shape
<1>8. Store!Ordered(j) <=> Ordered(job[j].kind)
  BY <1>3 DEF Store!Ordered, Ordered, request
<1>9. Store!OnItsBase(j)
  BY <1>3, <1>4, <1>6 DEF Store!OnItsBase, request, content
<1>10. job[j].kind = "create" => content = Absent
  BY <1>1, <1>4 DEF Movable
<1>11. Store!Answer(j, "landed")
  BY <1>2 DEF Store!Answer, request, outcome
<1>12. content' = IF request[j].kind = "delete" THEN Absent ELSE request[j].text
  BY <1>1, <1>3, <1>4, <1>7
<1>13. QED
  BY <1>3, <1>5, <1>8, <1>9, <1>10, <1>11, <1>12 DEF Store!Land, content, request

LEMMA EndRefuses ==
    ASSUME Inv, alone, NEW j \in Jobs,
           PrepareFails(j) \/ CompareRefused(j) \/ CompareFails(j) \/ PublishRefused(j)
             \/ PublishFails(j)
    PROVE  \E why \in {"superseded", "changed", "missing", "exists", "io"} : Store!Refuse(j, why)
<1>1. /\ job[j].phase \in {"ready", "decided"} /\ alone' = alone /\ disk' = disk
  BY DEF PrepareFails, CompareRefused, CompareFails, PublishRefused, PublishFails
<1>2. PICK a \in Refusals :
        /\ job'[j].phase = "done" /\ job'[j].answer = a
        /\ \A i \in Jobs : i # j => job'[i] = job[i]
        /\ job'[j].kind = job[j].kind /\ job'[j].base = job[j].base
        /\ job'[j].text = job[j].text /\ job'[j].seq = job[j].seq
        /\ \/ a = "io"
           \/ CompareRefused(j) /\ a = Refusal(j)
           \/ PublishRefused(j) /\ job[j].kind = "create" /\ a = "exists"
  <2>1. TypeOK /\ job[j].swept \in BOOLEAN /\ "io" \in Refusals /\ "exists" \in Refusals
    BY DEF Inv, TypeOK, Job, Refusals
  <2>2. CASE PrepareFails(j) \/ CompareFails(j) \/ PublishFails(j)
    <3>1. EndsAs(j, "io", job[j].swept)
      BY <2>2 DEF PrepareFails, CompareFails, PublishFails, EndsAs
    <3>2. QED
      BY <2>1, <3>1, Done
  <2>3. CASE CompareRefused(j) \/ PublishRefused(j)
    <3>1. PICK a \in Refusals :
            /\ Finish(j, a)
            /\ \/ a = "io"
               \/ CompareRefused(j) /\ a = Refusal(j)
               \/ PublishRefused(j) /\ job[j].kind = "create" /\ a = "exists"
      BY <2>1, <2>3 DEF CompareRefused, PublishRefused, Refusal, Refusals
    <3>2. PICK s \in BOOLEAN : EndsAs(j, a, s)
      BY <3>1 DEF Finish, EndsAs
    <3>3. a \in Refusals \cup {"saved"}
      OBVIOUS
    <3>4. QED
      BY <2>1, <3>1, <3>2, <3>3, Done
  <2>4. QED
    BY <2>2, <2>3
<1>3. a # "saved" /\ a \in Refusals \cup {"saved"}
  BY DEF Refusals
<1>4. request' = request /\ outcome' = [outcome EXCEPT ![j] = a]
  BY <1>1, <1>2, <1>3, Answers
<1>5. /\ Store!Waiting(j) /\ request[j].kind = job[j].kind /\ request[j].base = job[j].base
  BY <1>1, IsWaiting
<1>6. content = disk /\ content' = content
  BY <1>1 DEF content
<1>7. CASE a = "io"
  BY <1>4, <1>5, <1>6, <1>7 DEF Store!Refuse, Store!Answer, content, request, outcome
<1>8. CASE CompareRefused(j) /\ a = Refusal(j) /\ a # "io"
  <2>1. CASE Superseded(j)
    <3>1. a = "superseded" /\ Ordered(job[j].kind) /\ newest[job[j].proc] > job[j].seq
      BY <1>8, <2>1 DEF Refusal, Superseded
    <3>2. Store!Overtaken(j)
      BY <1>1, <3>1, OvertakenIsSuperseded
    <3>3. Store!Ordered(j)
      BY <1>5, <3>1 DEF Store!Ordered, Ordered, request
    <3>4. QED
      BY <1>4, <1>5, <1>6, <3>1, <3>2, <3>3
         DEF Store!Refuse, Store!Answer, content, request, outcome
  <2>2. CASE ~Superseded(j)
    <3>1. job[j].base \notin {AnyRevision, disk} /\ a = IF disk = Absent THEN "missing" ELSE "changed"
      BY <1>3, <1>8, <2>2 DEF Refusal, Refusals
    <3>2. ~Store!OnItsBase(j)
      BY <1>5, <1>6, <3>1 DEF Store!OnItsBase, request, content
    <3>3. QED
      BY <1>4, <1>5, <1>6, <3>1, <3>2
         DEF Store!Refuse, Store!Answer, content, request, outcome
  <2>3. QED
    BY <2>1, <2>2
<1>9. CASE PublishRefused(j) /\ job[j].kind = "create" /\ a = "exists"
  <2>1. content # Absent
    BY <1>6, <1>9 DEF PublishRefused, Movable
  <2>2. QED
    BY <1>4, <1>5, <1>6, <1>9, <2>1
       DEF Store!Refuse, Store!Answer, content, request, outcome
<1>10. QED
  BY <1>2, <1>7, <1>8, <1>9

\* A step that is not seen.
Unseen == UNCHANGED regs

LEMMA AloneKept == [Next]_vars => alone' = alone
BY DEF Next, vars, Accept, PrepareFails, Compare, CompareRefused, CompareFails, Publish,
   PublishRefused, PublishFails, Outside, History

LEMMA StepStore == Inv /\ Inv' /\ [Next]_vars => Store!Next \/ Unseen
<1> SUFFICES ASSUME Inv, Inv', [Next]_vars PROVE Store!Next \/ Unseen
  OBVIOUS
<1>1. CASE ~alone
  BY <1>1, AloneKept DEF Unseen, regs, content, request, outcome
<1>2. CASE alone
  <2>1. ASSUME NEW j \in Jobs, NEW p \in Procs, NEW kind \in Kinds, NEW t \in Sent,
               NEW b \in Bases, Accept(j, p, kind, t, b)
        PROVE  Store!Next
    BY <1>2, <2>1, AcceptAsks DEF Store!Next
  <2>2. ASSUME NEW j \in Jobs, Compare(j)
        PROVE  Unseen
    <3>1. /\ job' = [job EXCEPT ![j].phase = "decided"] /\ job[j].phase = "ready"
          /\ UNCHANGED <<disk, alone>>
      BY <2>2 DEF Compare
    <3>2. \A i \in Jobs :
            /\ (job'[i].phase = "idle") <=> (job[i].phase = "idle")
            /\ job'[i].kind = job[i].kind /\ job'[i].text = job[i].text
            /\ job'[i].base = job[i].base /\ job'[i].seq = job[i].seq
            /\ job'[i].answer = job[i].answer
      BY <3>1 DEF Inv, TypeOK, Job
    <3>3. request' = request /\ outcome' = outcome
      BY <3>1, <3>2 DEF request, outcome
    <3>4. QED
      BY <3>1, <3>3 DEF Unseen, regs, content
  <2>3. ASSUME NEW j \in Jobs, Publish(j)
        PROVE  Store!Next
    BY <1>2, <2>3, PublishLands DEF Store!Next
  <2>4. ASSUME NEW j \in Jobs,
               PrepareFails(j) \/ CompareRefused(j) \/ CompareFails(j) \/ PublishRefused(j)
                 \/ PublishFails(j)
        PROVE  Store!Next
    BY <1>2, <2>4, EndRefuses DEF Store!Next
  <2>5. ASSUME NEW t \in Foreign, Outside(t)
        PROVE  FALSE
    BY <1>2, <2>5 DEF Outside
  <2>6. CASE UNCHANGED vars
    BY <2>6 DEF vars, Unseen, regs, content, request, outcome
  <2>7. QED
    BY <2>1, <2>2, <2>3, <2>4, <2>5, <2>6 DEF Next
<1>3. QED
  BY <1>1, <1>2

LEMMA InitStore == Init => Store!Init
<1> SUFFICES ASSUME Init PROVE Store!Init
  OBVIOUS
<1>1. \A j \in Jobs : job[j].phase = "idle" /\ job[j].answer = "none"
  BY DEF Init, NewJob
<1>2. content \in Store!Contents
  BY DEF Init, content, Store!Contents
<1>3. request = [j \in Jobs |-> Store!Nothing]
  BY <1>1 DEF request, Store!Nothing
<1>4. outcome = [j \in Jobs |-> "none"]
  BY <1>1 DEF outcome
<1>5. QED
  BY <1>2, <1>3, <1>4 DEF Store!Init, content, request, outcome

\* One process that has the document to itself offers the compare-and-set
\* register of DocumentStore: each save, creation and deletion takes effect in
\* one step, in the order accepted where it replaces, on the revision it names,
\* and every refusal is true (document.rs `persist`, `publish`, `delete`).
THEOREM DocumentsImplementStore == Spec => ImplementsStore
<1>1. Inv /\ Inv' /\ [Next]_vars =>
        [Store!Next]_<<IF alone THEN disk ELSE Absent,
          [j \in Jobs |->
              IF alone /\ job[j].phase # "idle"
                THEN [kind |-> job[j].kind, text |-> job[j].text,
                      base |-> job[j].base, seq |-> job[j].seq]
                ELSE [kind |-> "none", text |-> Absent, base |-> AnyRevision, seq |-> 0]],
          [j \in Jobs |->
              IF ~alone THEN "none"
              ELSE IF job[j].answer = "saved" THEN "landed"
              ELSE job[j].answer]>>
  BY StepStore DEF Unseen, regs, content, request, outcome
<1>2. QED
  BY <1>1, InitStore, InvHolds, PTL DEF Spec, ImplementsStore, Store!Spec

-----------------------------------------------------------------------------
(* Editing.                                                                *)
(*                                                                         *)
(* A save is decided by the base it carries, long after the copy's base    *)
(* was met: what was met is never unmet, so it is enough that every base   *)
(* the copy takes, and every save on its way, names a revision met         *)
(* (BaseMet, SavesMet).  That needs the shape of what is on its way: what  *)
(* each coroutine remembers is a revision the PC once told.                *)

\* The copy's base is a revision the person met, and so is every save's.
BaseMet == doc.open => doc.base \in met
SavesMet == \A i \in DOMAIN out : out[i].op = "save" => out[i].base \in met

EditingInv == EditingTypeOK /\ BaseMet /\ SavesMet /\ OverwritesOnlyMet

\* A queue loses its first element, or gains a last one.
LEMMA Dequeued ==
    ASSUME NEW S, NEW q \in Seq(S), q # <<>>
    PROVE  /\ Head(q) \in S /\ Tail(q) \in Seq(S) /\ Head(q) = q[1] /\ 1 \in DOMAIN q
           /\ \A i \in DOMAIN Tail(q) : i + 1 \in DOMAIN q /\ Tail(q)[i] = q[i + 1]
OBVIOUS

LEMMA Appended ==
    ASSUME NEW S, NEW q \in Seq(S), NEW m \in S
    PROVE  /\ Append(q, m) \in Seq(S)
           /\ \A i \in DOMAIN Append(q, m) :
                 (i \in DOMAIN q /\ Append(q, m)[i] = q[i]) \/ Append(q, m)[i] = m
OBVIOUS

\* A copy that is changed stays one.
LEMMA CopyFields ==
    ASSUME NEW d \in OpenDocument
    PROVE  /\ \A t \in Texts : /\ edited(d, t) \in OpenDocument /\ edited(d, t).base = d.base
                               /\ edited(d, t).open
           /\ \A t \in Texts : /\ reloaded(d, t) \in OpenDocument /\ reloaded(d, t).base = t
                               /\ reloaded(d, t).open
           /\ d.conflict # NoConflict =>
                 /\ keepMine(d) \in OpenDocument /\ keepMine(d).base = d.conflict.digest
                 /\ d.conflict.digest \in Texts /\ keepMine(d).open
           /\ \A b \in BOOLEAN : /\ [d EXCEPT !.deletedOnPc = b] \in OpenDocument
                                 /\ [d EXCEPT !.deletedOnPc = b].base = d.base
                                 /\ [d EXCEPT !.deletedOnPc = b].open
           /\ d.base \in Texts /\ d.text \in Texts /\ d.revision \in Nat
<1>1. NoConflict \in {NoConflict}
  OBVIOUS
<1>2. /\ d.open = TRUE /\ d.text \in Texts /\ d.saved \in Texts /\ d.base \in Texts
      /\ d.revision \in Nat /\ d.deletedOnPc \in BOOLEAN
      /\ d.conflict \in [text : Texts \cup {NoText}, digest : Texts] \cup {NoConflict}
  BY DEF OpenDocument
<1> DEFINE n == d.revision + 1
<1>n. n \in Nat
  BY <1>2
<1> HIDE DEF n
<1>3. \A t \in Texts : edited(d, t) \in OpenDocument /\ edited(d, t).base = d.base /\ edited(d, t).open
  <2>1. \A t \in Texts : edited(d, t) = [d EXCEPT !.text = t, !.revision = n]
    BY DEF edited, n
  <2>2. QED
    BY <1>2, <1>n, <2>1, ZenonT(30) DEF OpenDocument
<1>4. ASSUME NEW t \in Texts
      PROVE  reloaded(d, t) \in OpenDocument /\ reloaded(d, t).base = t /\ reloaded(d, t).open
  <2> DEFINE no == FALSE
  <2>1. reloaded(d, t) = [d EXCEPT !.text = t, !.saved = t, !.base = t, !.revision = n,
                                   !.conflict = NoConflict, !.deletedOnPc = no]
    BY DEF reloaded, n
  <2>2. no \in BOOLEAN
    OBVIOUS
  <2> HIDE DEF no
  <2>3. QED
    BY <1>2, <1>n, <2>1, <2>2 DEF OpenDocument
<1>5. ASSUME d.conflict # NoConflict
      PROVE  /\ keepMine(d) \in OpenDocument /\ keepMine(d).base = d.conflict.digest
             /\ d.conflict.digest \in Texts /\ keepMine(d).open
  <2>1. d.conflict.digest \in Texts /\ d.conflict.text \in Texts \cup {NoText}
    BY <1>2, <1>5
  <2>2. QED
    BY <2>1 DEF keepMine, OpenDocument
<1>6. \A b \in BOOLEAN : /\ [d EXCEPT !.deletedOnPc = b] \in OpenDocument
                         /\ [d EXCEPT !.deletedOnPc = b].base = d.base
                         /\ [d EXCEPT !.deletedOnPc = b].open
  BY DEF OpenDocument
<1>7. QED
  BY <1>2, <1>3, <1>4, <1>5, <1>6

LEMMA InConflict ==
    ASSUME NEW d \in OpenDocument, NEW t \in Texts \cup {NoText}, NEW g \in Texts
    PROVE  /\ inConflict(d, t, g) \in OpenDocument /\ inConflict(d, t, g).base = d.base
           /\ inConflict(d, t, g).open
BY DEF inConflict, OpenDocument

LEMMA SavedAs ==
    ASSUME NEW d \in OpenDocument, NEW s \in Texts, NEW g \in Texts, NEW r
    PROVE  /\ savedAs(d, s, g, r) \in OpenDocument /\ savedAs(d, s, g, r).base = g
           /\ savedAs(d, s, g, r).open
<1>1. admissible(s) \in Texts
  BY DEF admissible, Texts
<1>2. QED
  BY <1>1 DEF savedAs, OpenDocument

\* A request is sent: a save only of a copy whose base was met.
LEMMA RequestSent ==
    ASSUME EditingInv, NEW m \in Requests, Send(m), m.op = "save" => m.base \in met,
           UNCHANGED <<pc, watched, link, in, doc, met, unmet, lost>>
    PROVE  EditingInv'
<1>1. out' \in Seq(Requests)
  BY DEF Send, EditingInv, EditingTypeOK
<1>2. EditingTypeOK'
  BY <1>1 DEF EditingInv, EditingTypeOK
<1>3. SavesMet'
  BY Appended DEF Send, EditingInv, EditingTypeOK, SavesMet
<1>4. BaseMet' /\ OverwritesOnlyMet'
  BY DEF EditingInv, BaseMet, OverwritesOnlyMet
<1>5. QED
  BY <1>2, <1>3, <1>4 DEF EditingInv

LEMMA PersonKeeps ==
    ASSUME EditingInv,
           \/ Open \/ (\E t \in Texts : Edit(t)) \/ Save \/ Reload \/ KeepMine \/ Close
    PROVE  EditingInv'
<1>1. CASE Open
  <2>1. OpenRequest("open", Absent) \in Requests /\ OpenRequest("open", Absent).op # "save"
    BY DEF OpenRequest, Requests, Remembers, Whys, Contents
  <2>2. QED
    BY <1>1, <2>1, RequestSent DEF Open, PcVars, PhoneVars
<1>2. ASSUME NEW t \in Texts, Edit(t) PROVE EditingInv'
  <2>1. doc \in OpenDocument /\ doc' = edited(doc, t) /\ doc.open
    BY <1>2 DEF Edit, EditingInv, EditingTypeOK, Closed
  <2>2. edited(doc, t) \in OpenDocument /\ edited(doc, t).base = doc.base
    BY <2>1, CopyFields
  <2>3. UNCHANGED <<pc, watched, link, out, in, met, lost, unmet>>
    BY <1>2 DEF Edit, PcVars
  <2>4. QED
    BY <2>1, <2>2, <2>3 DEF EditingInv, EditingTypeOK, BaseMet, SavesMet, OverwritesOnlyMet
<1>3. CASE Save
  <2>1. doc \in OpenDocument /\ doc.base \in met
    BY <1>3 DEF Save, EditingInv, EditingTypeOK, Closed, BaseMet
  <2>2. doc.text \in Texts /\ doc.base \in Texts /\ doc.revision \in Nat
    BY <2>1, CopyFields
  <2>3. SaveRequest(doc) \in Requests /\ SaveRequest(doc).base = doc.base
    BY <2>2 DEF SaveRequest, Requests, Remembers, Whys, Contents
  <2>4. QED
    BY <1>3, <2>1, <2>3, RequestSent DEF Save, PcVars
<1>4. CASE Reload
  <2>1. OpenRequest("reload", Absent) \in Requests /\ OpenRequest("reload", Absent).op # "save"
    BY DEF OpenRequest, Requests, Remembers, Whys, Contents
  <2>2. QED
    BY <1>4, <2>1, RequestSent DEF Reload, PcVars
<1>5. CASE KeepMine
  <2>1. doc \in OpenDocument /\ doc.conflict # NoConflict
    BY <1>5 DEF KeepMine, EditingInv, EditingTypeOK, Closed
  <2>2. /\ doc' \in OpenDocument /\ doc'.base = doc.conflict.digest
        /\ doc.conflict.digest \in Texts /\ met' = met \cup {doc.conflict.digest}
    BY <1>5, <2>1, CopyFields DEF KeepMine
  <2>3. UNCHANGED <<pc, watched, link, out, in, lost, unmet>>
    BY <1>5 DEF KeepMine, PcVars
  <2>4. QED
    BY <2>2, <2>3 DEF EditingInv, EditingTypeOK, BaseMet, SavesMet, OverwritesOnlyMet
<1>6. CASE Close
  <2>1. doc' = Closed /\ UNCHANGED <<pc, watched, link, in, met, lost, unmet>>
    BY <1>6 DEF Close, PcVars
  <2>2. ~doc'.open
    BY <2>1 DEF Closed
  <2>3. out' \in Seq(Requests) /\ SavesMet'
    <3>1. CASE UNCHANGED out
      BY <2>1, <3>1 DEF EditingInv, EditingTypeOK, SavesMet
    <3>2. CASE Send(CloseRequest)
      <4>1. CloseRequest \in Requests /\ CloseRequest.op # "save"
        BY DEF CloseRequest, Requests, Remembers, Whys, Contents
      <4>2. QED
        BY <2>1, <3>2, <4>1, Appended DEF Send, EditingInv, EditingTypeOK, SavesMet
    <3>3. QED
      BY <1>6, <3>1, <3>2 DEF Close
  <2>4. QED
    BY <2>1, <2>2, <2>3 DEF EditingInv, EditingTypeOK, BaseMet, OverwritesOnlyMet
<1>7. QED
  BY <1>1, <1>2, <1>3, <1>4, <1>5, <1>6

\* The session answers a request, whose save it takes only over its base.
LEMMA HandleKeeps == ASSUME EditingInv, Handle PROVE EditingInv'
<1> DEFINE m == Head(out)
<1>1. /\ out # <<>> /\ out' = Tail(out) /\ out \in Seq(Requests)
      /\ UNCHANGED <<link, doc, met, lost>>
  BY DEF Handle, PhoneVars, EditingInv, EditingTypeOK
<1>2. m \in Requests /\ out' \in Seq(Requests) /\ SavesMet' /\ (m.op = "save" => m.base \in met)
  BY <1>1, Dequeued DEF EditingInv, SavesMet
<1> HIDE DEF m
<1>3. /\ m.op \in {"open", "save", "close"} /\ m.why \in Whys /\ m.text \in Contents
      /\ m.base \in Contents /\ m.revision \in Nat /\ Remembers(m)
  BY <1>2 DEF Requests
<1>4. ASSUME NEW status \in {200, 404, 409}, NEW g \in Contents, g = Absent => status = 404,
             Reply(m, status, g)
      PROVE  in' \in Seq(Replies \cup Events)
  <2> DEFINE r == [op |-> m.op, why |-> m.why, text |-> m.text, base |-> m.base,
                   revision |-> m.revision, status |-> status, digest |-> g]
  <2>1. r \in Replies
    BY <1>3, <1>4 DEF Replies, Remembers
  <2> HIDE DEF r
  <2>2. in' = Append(in, r)
    BY <1>4 DEF Reply, r
  <2>3. QED
    BY <2>1, <2>2 DEF EditingInv, EditingTypeOK
<1>5. /\ in' \in Seq(Replies \cup Events) /\ pc' \in Contents /\ unmet' = FALSE
      /\ watched' \in Contents \cup {Unwatched}
  <2>1. CASE HandleOpen(m)
    <3>1. CASE pc = Absent
      BY <1>4, <2>1, <3>1 DEF HandleOpen, EditingInv, EditingTypeOK, OverwritesOnlyMet, Contents
    <3>2. CASE pc # Absent
      BY <1>4, <2>1, <3>2 DEF HandleOpen, EditingInv, EditingTypeOK, OverwritesOnlyMet
    <3>3. QED
      BY <3>1, <3>2
  <2>2. CASE HandleSave(m)
    <3>1. m.text \in Texts /\ m.base \in Texts /\ admissible(m.text) \in Texts
      BY <1>3, <2>2 DEF HandleSave, Remembers, admissible, Texts
    <3>2. CASE pc = m.base
      <4>1. pc' = admissible(m.text) /\ watched' = admissible(m.text)
            /\ Reply(m, 200, admissible(m.text)) /\ unmet' = (unmet \/ pc \notin met)
        BY <2>2, <3>2 DEF HandleSave
      <4>2. pc \in met /\ unmet = FALSE
        BY <1>2, <2>2, <3>2 DEF HandleSave, EditingInv, EditingTypeOK, OverwritesOnlyMet
      <4>3. in' \in Seq(Replies \cup Events)
        BY <1>4, <3>1, <4>1, EditingAssumption DEF Contents
      <4>4. QED
        BY <3>1, <4>1, <4>2, <4>3 DEF Contents
    <3>3. CASE pc # m.base
      <4>1. Reply(m, IF pc = Absent THEN 404 ELSE 409, pc) /\ UNCHANGED <<pc, watched, unmet>>
        BY <2>2, <3>3 DEF HandleSave
      <4>2. pc \in Contents /\ unmet = FALSE /\ watched \in Contents \cup {Unwatched}
        BY DEF EditingInv, EditingTypeOK, OverwritesOnlyMet
      <4>3. in' \in Seq(Replies \cup Events)
        BY <1>4, <4>1, <4>2
      <4>4. QED
        BY <4>1, <4>2, <4>3
    <3>4. QED
      BY <3>2, <3>3
  <2>3. CASE HandleClose(m)
    BY <2>3 DEF HandleClose, EditingInv, EditingTypeOK, OverwritesOnlyMet
  <2>4. QED
    BY <2>1, <2>2, <2>3 DEF Handle, m
<1>6. EditingTypeOK'
  BY <1>1, <1>2, <1>5 DEF EditingInv, EditingTypeOK
<1>7. QED
  BY <1>1, <1>2, <1>5, <1>6 DEF EditingInv, BaseMet, OverwritesOnlyMet

\* What others do on the PC, and the telling of it.
LEMMA OthersKeep ==
    ASSUME EditingInv,
           check_documents \/ \E t \in {u \in Texts : u.lf} \cup {Absent} : ChangeOnPc(t)
    PROVE  EditingInv'
<1>1. CASE check_documents
  <2> DEFINE e == [why |-> "event", digest |-> pc]
  <2>1. /\ watched' = pc /\ in' = Append(in, e)
        /\ UNCHANGED <<pc, link, out, doc, met, lost, unmet>>
    BY <1>1 DEF check_documents, PhoneVars
  <2>2. e \in Replies \cup Events
    BY DEF Events, EditingInv, EditingTypeOK
  <2> HIDE DEF e
  <2>3. in' \in Seq(Replies \cup Events)
    BY <2>1, <2>2 DEF EditingInv, EditingTypeOK
  <2>4. QED
    BY <2>1, <2>3 DEF EditingInv, EditingTypeOK, BaseMet, SavesMet, OverwritesOnlyMet
<1>2. ASSUME NEW t \in {u \in Texts : u.lf} \cup {Absent}, ChangeOnPc(t) PROVE EditingInv'
  BY <1>2 DEF ChangeOnPc, PhoneVars, Contents, EditingInv, EditingTypeOK, BaseMet, SavesMet,
              OverwritesOnlyMet
<1>3. QED
  BY <1>1, <1>2

\* A reply or an event changes the copy only to a base it shows.
LEMMA Received ==
    ASSUME EditingInv, in # <<>>, in' = Tail(in),
           doc' \in OpenDocument \cup {Closed}, met \subseteq met', met' \subseteq Texts,
           doc'.open => doc'.base \in met', lost' \in BOOLEAN,
           out' \in Seq(Requests), SavesMet',
           UNCHANGED <<pc, watched, link, unmet>>
    PROVE  EditingInv'
<1>1. in' \in Seq(Replies \cup Events)
  BY Dequeued DEF EditingInv, EditingTypeOK
<1>2. EditingTypeOK'
  BY <1>1 DEF EditingInv, EditingTypeOK
<1>3. QED
  BY <1>2 DEF EditingInv, BaseMet, OverwritesOnlyMet

LEMMA ReceiveKeeps == ASSUME EditingInv, Receive PROVE EditingInv'
<1> DEFINE m == Head(in)
<1>1. in # <<>> /\ in' = Tail(in) /\ UNCHANGED <<pc, watched, link, unmet>>
  BY DEF Receive, PcVars
<1>2. m \in Replies \cup Events
  BY <1>1, Dequeued DEF EditingInv, EditingTypeOK
<1>3. \/ ApplyOpened(m) \/ ApplyReload(m) \/ ApplyConflict(m)
      \/ ApplyReconcile(m) \/ ApplySave(m) \/ ApplyEvent(m)
  BY DEF Receive
<1> HIDE DEF m
<1>4. m.digest \in Contents /\ (m.digest # Absent => m.digest \in Texts)
      /\ (m.why # "event" => Remembers(m) /\ m.status \in {200, 404, 409}
                             /\ (m.status # 404 => m.digest \in Texts))
  BY <1>2 DEF Replies, Events, Contents
<1>5. /\ doc \in OpenDocument \cup {Closed} /\ (doc.open => doc \in OpenDocument)
      /\ (doc.open => doc.base \in met) /\ met \subseteq Texts
      /\ out \in Seq(Requests) /\ SavesMet /\ lost \in BOOLEAN
  BY DEF EditingInv, EditingTypeOK, BaseMet, Closed
<1>6. CASE ApplyOpened(m)
  <2>1. UNCHANGED <<lost, out>>
    BY <1>6 DEF ApplyOpened
  <2>2. CASE m.status = 200
    <3>1. doc' = Loaded(m.digest) /\ met' = met \cup {m.digest} /\ m.digest \in Texts
      BY <1>4, <1>6, <2>2 DEF ApplyOpened, Shown
    <3>2. Loaded(m.digest) \in OpenDocument /\ Loaded(m.digest).base = m.digest
      BY <3>1 DEF Loaded, OpenDocument
    <3>3. QED
      BY <1>1, <1>5, <2>1, <3>1, <3>2, Received DEF SavesMet
  <2>3. CASE m.status # 200
    BY <1>1, <1>5, <1>6, <2>1, <2>3, Received DEF ApplyOpened, SavesMet
  <2>4. QED
    BY <2>2, <2>3
<1>7. CASE ApplyReload(m)
  <2>1. CASE m.status = 200 /\ doc.open
    <3>1. /\ doc' = reloaded(doc, m.digest) /\ met' = met \cup {m.digest} /\ m.digest \in Texts
          /\ lost' \in BOOLEAN /\ UNCHANGED out
      BY <1>4, <1>7, <2>1 DEF ApplyReload, Shown
    <3>2. reloaded(doc, m.digest) \in OpenDocument /\ reloaded(doc, m.digest).base = m.digest
      BY <1>5, <2>1, <3>1, CopyFields, ZenonT(30)
    <3>3. QED
      BY <1>1, <1>5, <3>1, <3>2, Received DEF SavesMet
  <2>2. CASE ~(m.status = 200 /\ doc.open)
    BY <1>1, <1>5, <1>7, <2>2, Received DEF ApplyReload, SavesMet
  <2>3. QED
    BY <2>1, <2>2
<1>8. CASE ApplyConflict(m)
  <2>1. UNCHANGED <<met, lost, out>> /\ m.base \in Texts
    BY <1>4, <1>8 DEF ApplyConflict, Remembers
  <2>2. CASE doc.open
    <3> DEFINE t == IF m.status = 200 THEN m.digest ELSE NoText
    <3>1. doc' = inConflict(doc, t, m.base) /\ t \in Texts \cup {NoText}
      BY <1>4, <1>8, <2>2 DEF ApplyConflict
    <3> HIDE DEF t
    <3>2. inConflict(doc, t, m.base) \in OpenDocument /\ inConflict(doc, t, m.base).base = doc.base
      BY <1>5, <2>1, <2>2, <3>1, InConflict
    <3>3. QED
      BY <1>1, <1>5, <2>1, <2>2, <3>1, <3>2, Received DEF SavesMet
  <2>3. CASE ~doc.open
    BY <1>1, <1>5, <1>8, <2>1, <2>3, Received DEF ApplyConflict, SavesMet
  <2>4. QED
    BY <2>2, <2>3
<1>9. CASE ApplyReconcile(m)
  <2>1. UNCHANGED <<lost, out>> /\ met \subseteq met' /\ m.why = "reconcile"
    BY <1>9 DEF ApplyReconcile, Shown
  <2>met. met' = IF doc.open /\ doc' # doc /\ doc'.base = m.digest
                   THEN met \cup {m.digest} ELSE met
    BY <1>9 DEF ApplyReconcile, Shown
  <2>2. CASE UNCHANGED doc
    BY <1>1, <1>5, <1>9, <2>1, <2>2, Received, ZenonT(30) DEF ApplyReconcile, SavesMet
  <2>3. CASE doc.open /\ m.status # 200
    <3> DEFINE gone == m.status = 404
    <3>1. doc' = [doc EXCEPT !.deletedOnPc = gone] /\ gone \in BOOLEAN
      BY <1>9, <2>3 DEF ApplyReconcile
    <3> HIDE DEF gone
    <3>2. doc' \in OpenDocument /\ doc'.base = doc.base
      BY <1>5, <2>3, <3>1, CopyFields
    <3>3. met' \subseteq Texts
      BY <1>5, <2>met, <3>2, CopyFields
    <3>4. QED
      BY <1>1, <1>5, <2>1, <2>3, <3>2, <3>3, Received DEF SavesMet
  <2>4. CASE doc.open /\ m.status = 200 /\ doc' # doc
    <3>1. m.digest \in Texts /\ m.digest # Absent /\ doc \in OpenDocument
      BY <1>4, <1>5, <2>1, <2>4, EditingAssumption
    <3>2. \/ doc' = reloaded(doc, m.digest)
          \/ doc' = inConflict(doc, m.digest, m.digest)
      BY <1>9, <2>4, <3>1 DEF ApplyReconcile, remoteChange
    <3>3. /\ doc' \in OpenDocument
          /\ doc'.base = m.digest \/ doc'.base = doc.base
      <4> DEFINE g == m.digest
      <4>1. g \in Texts /\ g \in Texts \cup {NoText}
        BY <3>1
      <4>2. reloaded(doc, g) \in OpenDocument /\ reloaded(doc, g).base = g
        BY <3>1, <4>1, CopyFields
      <4> HIDE DEF g
      <4>3. inConflict(doc, g, g) \in OpenDocument /\ inConflict(doc, g, g).base = doc.base
        BY <3>1, <4>1, InConflict
      <4>4. QED
        BY <3>2, <4>2, <4>3 DEF g
    <3>4. met' \subseteq Texts /\ (doc'.base = m.digest => m.digest \in met')
      BY <1>5, <2>met, <2>4, <3>1
    <3>5. QED
      BY <1>1, <1>5, <2>1, <2>4, <3>3, <3>4, Received DEF SavesMet
  <2>5. QED
    BY <1>9, <2>2, <2>3, <2>4 DEF ApplyReconcile
<1>10. CASE ApplySave(m)
  <2>1. /\ UNCHANGED <<lost, out>> /\ m.why = "save" /\ m.text \in Texts
        /\ m.status \in {200, 404, 409} /\ (m.status # 404 => m.digest \in Texts)
    BY <1>4, <1>10 DEF ApplySave, Remembers
  <2>2. met \subseteq met' /\ met' \subseteq Texts /\ (m.status = 200 => m.digest \in met')
    BY <1>5, <1>10, <2>1 DEF ApplySave, Shown
  <2>3. CASE ~doc.open
    BY <1>1, <1>5, <1>10, <2>1, <2>2, <2>3, Received DEF ApplySave, SavesMet
  <2>4. CASE doc.open /\ m.status = 200
    <3>1. doc' = savedAs(doc, m.text, m.digest, m.revision)
      BY <1>10, <2>4 DEF ApplySave
    <3>2. doc' \in OpenDocument /\ doc'.base = m.digest
      BY <1>5, <2>1, <2>4, <3>1, SavedAs
    <3>3. QED
      BY <1>1, <1>5, <2>1, <2>2, <2>4, <3>2, Received DEF SavesMet
  <2>5. CASE doc.open /\ m.status = 409
    <3>1. doc' = inConflict(doc, m.digest, m.digest)
      BY <1>10, <2>5 DEF ApplySave
    <3>2. doc' \in OpenDocument /\ doc'.base = doc.base
      <4> DEFINE g == m.digest
      <4>1. g \in Texts /\ g \in Texts \cup {NoText} /\ doc \in OpenDocument
        BY <1>5, <2>1, <2>5
      <4> HIDE DEF g
      <4>2. inConflict(doc, g, g) \in OpenDocument /\ inConflict(doc, g, g).base = doc.base
        BY <4>1, InConflict
      <4>3. QED
        BY <3>1, <4>2 DEF g
    <3>3. QED
      BY <1>1, <1>5, <2>1, <2>2, <2>5, <3>2, Received DEF SavesMet
  <2>6. CASE doc.open /\ m.status = 404
    <3> DEFINE yes == TRUE
    <3>1. doc' = [doc EXCEPT !.deletedOnPc = yes] /\ yes \in BOOLEAN
      BY <1>10, <2>6 DEF ApplySave
    <3> HIDE DEF yes
    <3>2. doc' \in OpenDocument /\ doc'.base = doc.base
      BY <1>5, <2>6, <3>1, CopyFields
    <3>3. QED
      BY <1>1, <1>5, <2>1, <2>2, <2>6, <3>2, Received DEF SavesMet
  <2>7. QED
    BY <2>1, <2>3, <2>4, <2>5, <2>6
<1>11. CASE ApplyEvent(m)
  <2> DEFINE what == IF doc.open THEN remoteChange(doc, m.digest) ELSE "same"
             yes == TRUE
  <2>1. /\ doc' = IF what = "deleted" THEN [doc EXCEPT !.deletedOnPc = yes] ELSE doc
        /\ out' = IF what \in {"refresh", "conflict"}
                    THEN Append(out, OpenRequest(what, m.digest)) ELSE out
        /\ UNCHANGED <<met, lost>> /\ yes \in BOOLEAN
    BY <1>11 DEF ApplyEvent
  <2>2. /\ what \in {"same", "deleted", "refresh", "conflict"}
        /\ what = "deleted" => doc.open
        /\ what \in {"refresh", "conflict"} => m.digest # Absent
    BY DEF remoteChange
  <2> HIDE DEF what, yes
  <2>3. doc' \in OpenDocument \cup {Closed} /\ (doc'.open => doc.open /\ doc'.base = doc.base)
    <3>1. CASE what = "deleted"
      BY <1>5, <2>1, <2>2, <3>1, CopyFields
    <3>2. CASE what # "deleted"
      BY <1>5, <2>1, <3>2
    <3>3. QED
      BY <3>1, <3>2
  <2>4. out' \in Seq(Requests) /\ SavesMet'
    <3>1. CASE what \in {"refresh", "conflict"}
      <4>1. OpenRequest(what, m.digest) \in Requests /\ OpenRequest(what, m.digest).op # "save"
        BY <1>4, <2>2, <3>1 DEF OpenRequest, Requests, Remembers, Whys, Contents
      <4>2. QED
        BY <1>5, <2>1, <3>1, <4>1, Appended DEF SavesMet
    <3>2. CASE what \notin {"refresh", "conflict"}
      BY <1>5, <2>1, <3>2 DEF SavesMet
    <3>3. QED
      BY <3>1, <3>2
  <2>5. QED
    BY <1>1, <1>5, <2>1, <2>3, <2>4, Received
<1>12. QED
  BY <1>3, <1>6, <1>7, <1>8, <1>9, <1>10, <1>11

\* Losing the connection forgets every request, connecting asks for no save.
LEMMA ConnectionKeeps == ASSUME EditingInv, Drop \/ Connect PROVE EditingInv'
<1>1. CASE Drop
  <2> DEFINE unanswered == in \o out
  <2>1. /\ link' = FALSE /\ out' = <<>> /\ in' = <<>> /\ watched' = Unwatched
        /\ UNCHANGED <<pc, met, lost, unmet>>
        /\ \/ UNCHANGED doc
           \/ \E i \in DOMAIN unanswered :
                 /\ unanswered[i].why = "conflict"
                 /\ doc' = IF doc.open THEN inConflict(doc, NoText, unanswered[i].base) ELSE doc
    BY <1>1 DEF Drop
  <2>2. ASSUME NEW i \in DOMAIN unanswered, unanswered[i].why = "conflict"
        PROVE  unanswered[i].base \in Texts
    <3>1. in \in Seq(Replies \cup Events \cup Requests)
      BY DEF EditingInv, EditingTypeOK
    <3>2. out \in Seq(Replies \cup Events \cup Requests)
      BY DEF EditingInv, EditingTypeOK
    <3>3. unanswered \in Seq(Replies \cup Events \cup Requests)
      BY <3>1, <3>2
    <3>4. unanswered[i] \in Replies \cup Events \cup Requests
      BY <3>3
    <3> HIDE DEF unanswered
    <3>5. QED
      BY <2>2, <3>4 DEF Replies, Events, Requests, Remembers
  <2> HIDE DEF unanswered
  <2>3. doc' \in OpenDocument \cup {Closed} /\ (doc'.open => doc.open /\ doc'.base = doc.base)
    <3>1. ASSUME NEW i \in DOMAIN unanswered, unanswered[i].why = "conflict", doc.open,
                 doc' = inConflict(doc, NoText, unanswered[i].base)
          PROVE  doc' \in OpenDocument /\ doc'.base = doc.base
      <4>1. doc \in OpenDocument /\ unanswered[i].base \in Texts
        BY <2>2, <3>1 DEF EditingInv, EditingTypeOK, Closed
      <4>2. QED
        BY <3>1, <4>1, InConflict
    <3>2. doc \in OpenDocument \cup {Closed}
      BY DEF EditingInv, EditingTypeOK
    <3>3. QED
      BY <2>1, <3>1, <3>2
  <2>4. out' \in Seq(Requests) /\ in' \in Seq(Replies \cup Events) /\ DOMAIN out' = {}
    BY <2>1
  <2>5. QED
    BY <2>1, <2>3, <2>4 DEF EditingInv, EditingTypeOK, BaseMet, SavesMet, OverwritesOnlyMet
<1>2. CASE Connect
  <2> DEFINE r == OpenRequest("reconcile", Absent)
  <2>1. link' = TRUE /\ (out' = <<r>> \/ out' = <<>>)
        /\ UNCHANGED <<pc, watched, in, doc, met, lost, unmet>>
    BY <1>2 DEF Connect, PcVars, PhoneVars
  <2>2. r \in Requests /\ r.op # "save"
    BY DEF OpenRequest, Requests, Remembers, Whys, Contents
  <2> HIDE DEF r
  <2>3. out' \in Seq(Requests) /\ SavesMet'
    <3>1. CASE out' = <<>>
      BY <3>1 DEF SavesMet
    <3>2. CASE out' = <<r>>
      <4>1. \A i \in DOMAIN out' : out'[i] = r
        BY <3>2
      <4>2. out' \in Seq(Requests)
        BY <2>2, <3>2
      <4>3. QED
        BY <2>2, <4>1, <4>2 DEF SavesMet
    <3>3. QED
      BY <2>1, <3>1, <3>2
  <2>4. QED
    BY <2>1, <2>3 DEF EditingInv, EditingTypeOK, BaseMet, OverwritesOnlyMet
<1>3. QED
  BY <1>1, <1>2

LEMMA EditingInvInit == EditingInit => EditingInv
<1> SUFFICES ASSUME EditingInit PROVE EditingInv
  OBVIOUS
<1>1. pc \in Texts
  BY EditingAssumption DEF EditingInit, Texts
<1>2. out \in Seq(Requests) /\ in \in Seq(Replies \cup Events) /\ DOMAIN out = {}
  BY DEF EditingInit
<1>3. QED
  BY <1>1, <1>2 DEF EditingInit, EditingInv, EditingTypeOK, BaseMet, SavesMet, OverwritesOnlyMet,
                    Closed, Contents

LEMMA EditingInvNext == EditingInv /\ [EditingNext]_editingVars => EditingInv'
<1> SUFFICES ASSUME EditingInv, [EditingNext]_editingVars PROVE EditingInv'
  OBVIOUS
<1>1. CASE UNCHANGED editingVars
  BY <1>1 DEF editingVars, EditingInv, EditingTypeOK, BaseMet, SavesMet, OverwritesOnlyMet
<1>2. QED
  BY <1>1, PersonKeeps, HandleKeeps, OthersKeep, ReceiveKeeps, ConnectionKeeps DEF EditingNext

\* What each coroutine remembers, and each reply brings back, is what it needs
\* when it goes on (WorkspaceController.kt, session/documents.rs).
THEOREM EditingTypeCorrect == EditingSpec => []EditingTypeOK
<1>1. EditingInv => EditingTypeOK
  BY DEF EditingInv
<1>2. QED
  BY EditingInvInit, EditingInvNext, <1>1, PTL DEF EditingSpec

\* A save from the phone replaces only a revision the person met
\* (OpenDocument.kt, session/documents.rs `save`).
THEOREM OverwritesOnlyMetHolds == EditingSpec => []OverwritesOnlyMet
<1>1. EditingInv => OverwritesOnlyMet
  BY DEF EditingInv
<1>2. QED
  BY EditingInvInit, EditingInvNext, <1>1, PTL DEF EditingSpec
=============================================================================
