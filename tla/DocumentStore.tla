--------------------------- MODULE DocumentStore ---------------------------
(***************************************************************************)
(* What saving promises about one document when one process has it to      *)
(* itself: a register with compare-and-set.  Every request takes effect in *)
(* one step or not at all.  A request that names the revision it started   *)
(* from takes effect on that revision only; a creation only where there is *)
(* nothing; a replacement or a deletion never after a later-asked one; and *)
(* a refusal is true of the document at the moment it is given.            *)
(***************************************************************************)
EXTENDS Naturals

CONSTANTS Jobs, Texts, Absent, AnyRevision

VARIABLES
    content,   \* what the document holds, Absent when there is none
    request,   \* what each job asked for, and when
    outcome    \* what each job was answered

Contents == Texts \cup {Absent}

Nothing == [kind |-> "none", text |-> Absent, base |-> AnyRevision, seq |-> 0]

\* A job's number says when it asked: after every job that had.
Latest(n) == \A i \in Jobs : request[i] # Nothing => n > request[i].seq

Ordered(j) == request[j].kind \in {"replace", "delete"}

OnItsBase(j) == request[j].base \in {AnyRevision, content}

\* A later-asked replacement or deletion has already taken effect.
Overtaken(j) ==
    \E i \in Jobs : outcome[i] = "landed" /\ Ordered(i) /\ request[i].seq > request[j].seq

Init ==
    /\ content \in Contents
    /\ request = [j \in Jobs |-> Nothing]
    /\ outcome = [j \in Jobs |-> "none"]

Request == [kind : {"replace", "create", "delete"}, text : Contents,
            base : Texts \cup {AnyRevision}, seq : Nat]

Ask(j) ==
    /\ request[j] = Nothing /\ request'[j] \in Request
    /\ request' = [request EXCEPT ![j] = request'[j]]
    /\ Latest(request'[j].seq)
    /\ UNCHANGED <<content, outcome>>

Waiting(j) == request[j] # Nothing /\ outcome[j] = "none"

Answer(j, a) == outcome' = [outcome EXCEPT ![j] = a] /\ UNCHANGED request

Land(j) ==
    /\ Waiting(j)
    /\ Ordered(j) => ~Overtaken(j) /\ OnItsBase(j)
    /\ request[j].kind = "create" => content = Absent
    /\ content' = IF request[j].kind = "delete" THEN Absent ELSE request[j].text
    /\ Answer(j, "landed")

Refuse(j, why) ==
    /\ Waiting(j)
    /\ why = "superseded" => Ordered(j) /\ Overtaken(j)
    /\ why = "changed" => content # Absent /\ ~OnItsBase(j)
    /\ why = "missing" => content = Absent
    /\ why = "exists" => request[j].kind = "create" /\ content # Absent
    /\ Answer(j, why)
    /\ UNCHANGED content

Next == \E j \in Jobs :
    \/ Ask(j)
    \/ Land(j)
    \/ \E why \in {"superseded", "changed", "missing", "exists", "io"} : Refuse(j, why)

Spec == Init /\ [][Next]_<<content, request, outcome>>
=============================================================================
