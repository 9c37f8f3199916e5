----------------------------- MODULE Documents -----------------------------
(***************************************************************************)
(* The document store of lcl-workspace (document.rs), which both the       *)
(* workspace server and the remote service link: one document of a         *)
(* project, written by the threads of those processes and by other         *)
(* programs.                                                               *)
(*                                                                         *)
(* A job is one call of write, write_expecting, create or delete.  It      *)
(* takes a number when it is accepted, prepares a temporary file, and      *)
(* publishes it under its process's PUBLISHED lock: the order and the      *)
(* expected revision are looked at first (Compare) and the file is moved   *)
(* after that (Publish), still under the lock.  Other processes hold other *)
(* locks, so what they do may fall between the two.  Each file operation   *)
(* may fail.  Paths have been resolved and refused before: a job here has  *)
(* one that is inside the project.                                         *)
(***************************************************************************)
EXTENDS Naturals, FiniteSets, DocumentTexts

CONSTANTS
    Jobs,         \* calls that change the document
    Procs,        \* processes that link the store
    AnyRevision,  \* a save that names no revision
    None,         \* nobody
    MaxOutside,   \* bound: changes by other programs
    MaxFailures   \* bound: file operations that fail

ASSUME DocumentsAssumption ==
    /\ Absent \notin Texts /\ AnyRevision \notin Texts /\ AnyRevision # Absent
    /\ None \notin Jobs \cup Procs
    /\ MaxOutside \in Nat /\ MaxFailures \in Nat

VARIABLES
    disk,      \* the document
    job,       \* each call: what was asked, and how far it has got
    temp,      \* jobs whose temporary file is on disk
    next,      \* NEXT_WRITE of each process
    newest,    \* PUBLISHED of each process, for this document
    lock,      \* the job that holds PUBLISHED's lock in each process
    alone,     \* does one process have the document to itself?
    outside,   \* changes by other programs so far
    failures,  \* file operations that failed so far
    was,       \* history: what each job's publication replaced
    crossed    \* history: jobs that another process's change fell between

vars == <<disk, job, temp, next, newest, lock, alone, outside, failures, was, crossed>>

Kinds == {"replace", "create", "delete"}

Refusals == {"superseded", "changed", "missing", "exists", "io"}

Job == [phase : {"idle", "ready", "decided", "done"},
        proc : Procs \cup {None},
        kind : Kinds \cup {"none"},
        text : Contents,
        base : Texts \cup {AnyRevision},
        seq : Nat,
        answer : Refusals \cup {"none", "saved"},
        swept : BOOLEAN]

NewJob == [phase |-> "idle", proc |-> None, kind |-> "none", text |-> Absent,
           base |-> AnyRevision, seq |-> 0, answer |-> "none", swept |-> TRUE]

Init ==
    /\ disk \in {t \in Texts : t.lf} \cup {Absent}
    /\ job = [j \in Jobs |-> NewJob]
    /\ temp = {}
    /\ next = [p \in Procs |-> 0]
    /\ newest = [p \in Procs |-> 0]
    /\ lock = [p \in Procs |-> None]
    /\ alone \in BOOLEAN
    /\ outside = 0
    /\ failures = 0
    /\ was = [j \in Jobs |-> AnyRevision]
    /\ crossed = {}

History == <<was, crossed>>

-----------------------------------------------------------------------------
(* Accepting a call, and its temporary file, which no other job looks at. *)

\* A file operation fails.
Fails == failures < MaxFailures /\ failures' = failures + 1

\* Temporary::remove: it may fail, which the caller is then told; dropping the
\* guard tries it once more.
Sweep(j, swept) ==
    \/ swept /\ temp' = temp \ {j} /\ UNCHANGED failures
    \/ ~swept /\ j \in temp /\ Fails /\ temp' \in {temp, temp \ {j}}

\* The job ends, its answer what became of it, its temporary file removed if it
\* can be.
Finish(j, answer) == \E swept \in BOOLEAN :
    /\ Sweep(j, swept)
    /\ job' = [job EXCEPT ![j].phase = "done", ![j].answer = answer, ![j].swept = swept]

\* What the caller is told of a job that ended so: an error, when its temporary
\* file could not be removed.
Told(j) == IF job[j].swept THEN job[j].answer ELSE "io"

\* Texts as they are sent, and the revision a caller holds: the one it read
\* when it asked, which goes stale while its job waits.
Sent == {t \in Texts : ~t.lf}
Bases == ({disk} \ {Absent}) \cup {AnyRevision}

Request(p, kind, t, b) ==
    [NewJob EXCEPT !.phase = "ready", !.proc = p, !.kind = kind, !.seq = next[p] + 1,
                   !.text = IF kind = "delete" THEN Absent ELSE admissible(t),
                   !.base = b]

\* A call takes its number and, to write, its temporary file.  A document to
\* delete was seen on disk before.
Accept(j, p, kind, t, b) ==
    /\ job[j].phase = "idle"
    /\ alone => \A i \in Jobs : job[i].proc \in {None, p}
    /\ kind = "create" => b = AnyRevision
    /\ kind = "delete" => b # AnyRevision /\ disk # Absent
    /\ next' = [next EXCEPT ![p] = @ + 1]
    /\ job' = [job EXCEPT ![j] = Request(p, kind, t, b)]
    /\ temp' = IF kind = "delete" THEN temp ELSE temp \cup {j}
    /\ UNCHANGED <<disk, newest, lock, alone, outside, failures, History>>

\* The directory or the temporary file could not be made or written.
PrepareFails(j) ==
    /\ job[j].phase = "ready" /\ job[j].kind # "delete"
    /\ Fails
    /\ temp' = temp \ {j}
    /\ job' = [job EXCEPT ![j].phase = "done", ![j].answer = "io"]
    /\ UNCHANGED <<disk, next, newest, lock, alone, outside, History>>

-----------------------------------------------------------------------------
(* Publishing. *)

Ordered(kind) == kind \in {"replace", "delete"}

\* Mutant: the comparison is made without taking the lock.
LockedNever(j) == FALSE

\* Another job of this process holds the lock.
Locked(j) == lock[job[j].proc] # None

\* Why the job may not be published, judged when the lock is taken.
Superseded(j) == Ordered(job[j].kind) /\ newest[job[j].proc] > job[j].seq

\* Mutant: the order is looked at, the revision the writer named is not.
RefusalByOrder(j) == IF Superseded(j) THEN "superseded" ELSE "none"

Refusal(j) ==
    IF Superseded(j) THEN "superseded"
    ELSE IF job[j].base \in {AnyRevision, disk} THEN "none"
    ELSE IF disk = Absent THEN "missing"
    ELSE "changed"

Compare(j) ==
    /\ job[j].phase = "ready" /\ ~Locked(j) /\ Refusal(j) = "none"
    /\ job' = [job EXCEPT ![j].phase = "decided"]
    /\ lock' = [lock EXCEPT ![job[j].proc] = j]
    /\ UNCHANGED <<disk, temp, next, newest, alone, outside, failures, History>>

CompareRefused(j) ==
    /\ job[j].phase = "ready" /\ ~Locked(j) /\ Refusal(j) # "none"
    /\ Finish(j, Refusal(j))
    /\ UNCHANGED <<disk, next, newest, lock, alone, outside, History>>

\* The document could not be read to compare it.
CompareFails(j) ==
    /\ job[j].phase = "ready" /\ ~Locked(j) /\ ~Superseded(j) /\ job[j].base # AnyRevision
    /\ Fails
    /\ temp' = temp \ {j}
    /\ job' = [job EXCEPT ![j].phase = "done", ![j].answer = "io"]
    /\ UNCHANGED <<disk, next, newest, lock, alone, outside, History>>

Unlock(j) == lock' = [lock EXCEPT ![job[j].proc] = None]

\* Mutant: a creation is renamed into place, as a replacement is.
MovableByRename(j) == job[j].kind = "delete" => disk # Absent

\* What the file system does with the job's move: a hard link takes only a
\* free name, an unlink only a taken one, a rename either.
Movable(j) ==
    /\ job[j].kind = "create" => disk = Absent
    /\ job[j].kind = "delete" => disk # Absent

Crossing(j) == {i \in Jobs : job[i].phase = "decided" /\ job[i].proc # job[j].proc}

\* A rename consumes the temporary file; a creation still has to remove it.
Publish(j) ==
    /\ job[j].phase = "decided" /\ Movable(j)
    /\ disk' = job[j].text
    /\ newest' = IF Ordered(job[j].kind)
                   THEN [newest EXCEPT ![job[j].proc] = job[j].seq] ELSE newest
    /\ \/ job[j].kind = "create" /\ Finish(j, "saved")
       \/ /\ job[j].kind # "create"
          /\ job' = [job EXCEPT ![j].phase = "done", ![j].answer = "saved"]
          /\ temp' = temp \ {j} /\ UNCHANGED failures
    /\ Unlock(j)
    /\ was' = [was EXCEPT ![j] = disk]
    /\ crossed' = crossed \cup Crossing(j)
    /\ UNCHANGED <<next, alone, outside>>

\* The name is taken, or gone: a creation says so, a deletion reports an error.
PublishRefused(j) ==
    /\ job[j].phase = "decided" /\ ~Movable(j)
    /\ Finish(j, IF job[j].kind = "create" THEN "exists" ELSE "io")
    /\ Unlock(j)
    /\ UNCHANGED <<disk, next, newest, alone, outside, History>>

PublishFails(j) ==
    /\ job[j].phase = "decided" /\ Movable(j)
    /\ Fails
    /\ temp' = temp \ {j}
    /\ job' = [job EXCEPT ![j].phase = "done", ![j].answer = "io"]
    /\ Unlock(j)
    /\ UNCHANGED <<disk, next, newest, alone, outside, History>>

-----------------------------------------------------------------------------
\* Another program writes the document, here without a last line end, or
\* removes it: it takes no lock.
Foreign == {t \in Texts : ~t.lf} \cup {Absent}

Outside(t) ==
    /\ ~alone /\ outside < MaxOutside /\ t # disk
    /\ disk' = t
    /\ outside' = outside + 1
    /\ crossed' = crossed \cup {i \in Jobs : job[i].phase = "decided"}
    /\ UNCHANGED <<job, temp, next, newest, lock, alone, failures, was>>

Next ==
    \/ \E j \in Jobs, p \in Procs, kind \in Kinds, t \in Sent, b \in Bases : Accept(j, p, kind, t, b)
    \/ \E j \in Jobs :
         \/ PrepareFails(j)
         \/ Compare(j) \/ CompareRefused(j) \/ CompareFails(j)
         \/ Publish(j) \/ PublishRefused(j) \/ PublishFails(j)
    \/ \E t \in Foreign : Outside(t)

Spec == Init /\ [][Next]_vars

-----------------------------------------------------------------------------
(* Properties. *)

TypeOK ==
    /\ disk \in Contents
    /\ job \in [Jobs -> Job]
    /\ temp \subseteq Jobs /\ crossed \subseteq Jobs
    /\ next \in [Procs -> Nat] /\ newest \in [Procs -> Nat]
    /\ lock \in [Procs -> Jobs \cup {None}]
    /\ alone \in BOOLEAN
    /\ outside \in 0..MaxOutside /\ failures \in 0..MaxFailures
    /\ was \in [Jobs -> Contents \cup {AnyRevision}]

(***************************************************************************)
(* A process that has the document to itself offers the compare-and-set    *)
(* register of DocumentStore: accepting, preparing, comparing and moving   *)
(* in separate steps, and failing at any of them, is never seen.           *)
(***************************************************************************)
Store == INSTANCE DocumentStore WITH
    content <- IF alone THEN disk ELSE Absent,
    request <- [j \in Jobs |->
                  IF alone /\ job[j].phase # "idle"
                    THEN [kind |-> job[j].kind, text |-> job[j].text,
                          base |-> job[j].base, seq |-> job[j].seq]
                    ELSE [kind |-> "none", text |-> Absent, base |-> AnyRevision, seq |-> 0]],
    outcome <- [j \in Jobs |->
                  IF ~alone THEN "none"
                  ELSE IF job[j].answer = "saved" THEN "landed"
                  ELSE job[j].answer]

\* The saves, creations and deletions of one process take effect each in one
\* step, in the order they were accepted where they replace, and on the
\* revision they name (document.rs `persist`, `publish`, `delete`).
ImplementsStore == Store!Spec

\* With several processes and other programs writing the document: what a
\* save or a deletion that names a revision replaced is that revision, unless
\* somebody outside its process changed the document in the instant between
\* its comparison and its move (document.rs `write_expecting`, "Scope").
ReplacedItsBase ==
    \A j \in Jobs :
        job[j].answer = "saved" /\ job[j].base # AnyRevision =>
            was[j] = job[j].base \/ j \in crossed

\* What a caller is told is true, and nothing is left behind it: a job told as
\* saved changed the document, and a job that changed it is told so, or is a
\* creation told an error because its temporary file stayed; a creation is never
\* made over another document, and a temporary file outlives its job only where
\* the caller is told an error (document.rs `publish`, `Temporary`).
AnswersTrue ==
    \A j \in Jobs :
        /\ Told(j) = "saved" => was[j] # AnyRevision
        /\ was[j] # AnyRevision =>
              Told(j) = "saved" \/ (job[j].kind = "create" /\ Told(j) = "io")
        /\ was[j] # AnyRevision /\ job[j].kind = "create" => was[j] = Absent
        /\ job[j].phase = "done" /\ j \in temp => Told(j) = "io"
=============================================================================
