------------------------------ MODULE RunGate ------------------------------
(***************************************************************************)
(* One run of a document in the workspace and the pause gate between it    *)
(* and the person (lcl-workspace/src/execution.rs, routes/runs.rs).        *)
(*                                                                         *)
(* The run thread executes the engine.  Each invocation passes the watched *)
(* dispatcher and, if it needs the world, the watched host; either may     *)
(* stop in `hold`.  Request threads answer pauses and cancel.  A step here *)
(* is what happens under one hold of the session's state lock, or one      *)
(* append to the event log.  What the log holds besides the pauses is the  *)
(* subject of RunEvents.                                                   *)
(*                                                                         *)
(* Invocations are numbered in the order they are made; a retry and a loop *)
(* pass are invocations of their own, as in the code, whose key is the     *)
(* invocation identity with its attempt and iteration path.  An invocation *)
(* may delegate to a graph of the document: the invocations of the graph   *)
(* are made inside it, and then the dispatcher is asked once more for it.  *)
(***************************************************************************)
EXTENDS Naturals

CONSTANT MaxInvocations   \* bound: invocations of one run

ASSUME RunGateAssumption == MaxInvocations \in Nat

Invocations == 1..MaxInvocations

Breaks == [on_operation : BOOLEAN, on_effect : BOOLEAN]
Kinds == {"operation", "effect"}
Answers == {"continue", "deny", "cancel"}

VARIABLES
    breaks,     \* where this run may stop
    pc,         \* where the run thread is
    made,       \* invocations made so far
    inv,        \* the one the run thread is at
    outer,      \* invocations whose graph is being run, the latest innermost
    again,      \* inv is being asked for again, its graph having run
    kind,       \* the kind of pause the run thread is in
    got,        \* what `hold` returned
    paused,     \* State.paused: the pause's sequence number, 0 for none
    answer,     \* State.answer, "none" for none
    cancelled,  \* State.cancelled
    finished,   \* State.finished
    refused,    \* State.refused: invocations refused at an operation pause
    sequence,   \* the last sequence number given out
    shown,      \* sequence numbers whose `paused` event is in the log
    asked,      \* history: what each pause asked
    reply,      \* history: the answers accepted
    performed,  \* history: invocations whose effect was performed
    late        \* history: effects performed after the run was cancelled

worker == <<pc, made, inv, outer, again, kind, got>>
gate == <<paused, answer, cancelled, finished, refused, sequence>>
history == <<shown, asked, reply, performed, late>>
vars == <<breaks, worker, gate, history>>

Holding == {"register", "announce", "waiting", "resumed", "held"}
Effecting == {"permits", "granting", "invoke", "perform"}
Between == {"idle", "finishing", "done"}
Places == Between \cup Holding \cup {"dispatch", "host"} \cup Effecting

Ask(n, k, i) == [sequence |-> n, kind |-> k, inv |-> i]
Reply(n, a) == [sequence |-> n, answer |-> a]

TypeOK ==
    /\ breaks \in Breaks
    /\ pc \in Places
    /\ made \in 0..MaxInvocations /\ inv \in 0..MaxInvocations
    /\ outer \in SUBSET Invocations /\ again \in BOOLEAN
    /\ kind \in Kinds
    /\ got \in Answers
    /\ paused \in Nat
    /\ answer \in Answers \cup {"none"}
    /\ cancelled \in BOOLEAN /\ finished \in BOOLEAN
    /\ refused \in SUBSET Invocations
    /\ sequence \in Nat
    /\ shown \in SUBSET Nat
    /\ asked \in SUBSET [sequence : Nat, kind : Kinds, inv : Invocations]
    /\ reply \in SUBSET [sequence : Nat, answer : {"continue", "deny"}]
    /\ performed \in SUBSET Invocations
    /\ late \in Nat

Init ==
    /\ breaks \in Breaks
    /\ pc = "idle" /\ made = 0 /\ inv = 0 /\ outer = {} /\ again = FALSE
    /\ kind = "operation" /\ got = "continue"
    /\ paused = 0 /\ answer = "none" /\ cancelled = FALSE /\ finished = FALSE
    /\ refused = {} /\ sequence = 0
    /\ shown = {} /\ asked = {} /\ reply = {} /\ performed = {} /\ late = 0

-----------------------------------------------------------------------------
(* The run thread: `hold`. *)

\* Mutant: the check is a critical section of its own, over by now.
LiveUnchecked == TRUE
Live == ~cancelled /\ ~finished

Number == sequence + 1

\* Deciding whether the run is live and registering the pause: one critical
\* section.
HoldRegister ==
    /\ pc = "register"
    /\ Live
    /\ sequence' = sequence + 1
    /\ paused' = Number
    /\ answer' = "none"
    /\ asked' = asked \cup {Ask(sequence + 1, kind, inv)}
    /\ pc' = "announce"
    /\ UNCHANGED <<breaks, made, inv, outer, again, kind, got, cancelled, finished, refused,
                   shown, reply, performed, late>>

HoldRefuse ==
    /\ pc = "register"
    /\ ~Live
    /\ got' = "cancel"
    /\ pc' = "held"
    /\ UNCHANGED <<breaks, made, inv, outer, again, kind, gate, history>>

\* The `paused` event: from here on a person can know of the pause.
HoldAnnounce ==
    /\ pc = "announce"
    /\ shown' = shown \cup {sequence}
    /\ pc' = "waiting"
    /\ UNCHANGED <<breaks, made, inv, outer, again, kind, got, gate, asked, reply, performed, late>>

\* Mutant: `if` for `while`, so a spurious wake-up ends the wait.
WokenSpuriously == TRUE
Woken == answer # "none" \/ cancelled \/ finished

\* The wait ends with an answer, a cancellation or the end of the run.
HoldResume ==
    /\ pc = "waiting"
    /\ Woken
    /\ got' = IF cancelled THEN "cancel"
              ELSE IF answer = "none" THEN "continue" ELSE answer
    /\ answer' = IF cancelled THEN answer ELSE "none"
    /\ paused' = 0
    /\ pc' = "resumed"
    /\ UNCHANGED <<breaks, made, inv, outer, again, kind, cancelled, finished, refused, sequence,
                   history>>

\* The `resumed` event, and back to the caller.
HoldReturn ==
    /\ pc = "resumed"
    /\ pc' = "held"
    /\ UNCHANGED <<breaks, made, inv, outer, again, kind, got, gate, history>>

-----------------------------------------------------------------------------
(* The run thread: the two wrappers. *)

\* WatchedOperations::invoke: for the next invocation, or again for the innermost
\* one whose graph has run to its end.
Watch ==
    /\ kind' = "operation"
    /\ pc' = IF breaks.on_operation /\ ~cancelled THEN "register" ELSE "dispatch"
    /\ UNCHANGED <<breaks, got, gate, history>>

Invoke ==
    /\ pc = "idle" /\ made < MaxInvocations
    /\ made' = made + 1 /\ inv' = made + 1 /\ again' = FALSE
    /\ UNCHANGED outer
    /\ Watch

InvokeAgain ==
    /\ pc = "idle"
    /\ \E i \in outer : /\ \A j \in outer : j <= i
                        /\ inv' = i
                        /\ outer' = outer \ {i}
    /\ again' = TRUE
    /\ UNCHANGED made
    /\ Watch

\* Mutant: the refusal is handed on without being recorded.
RefusalsForgotten == refused
Refusals == IF got = "deny" THEN refused \cup {inv} ELSE refused

\* A refusal is recorded against this invocation and handed to the host gate; a
\* cancellation goes straight there.
AfterOperation ==
    /\ pc = "held"
    /\ kind = "operation"
    /\ pc' = IF got = "continue" THEN "dispatch" ELSE "host"
    /\ refused' = Refusals
    /\ UNCHANGED <<breaks, made, inv, outer, again, kind, got, paused, answer, cancelled,
                   finished, sequence, history>>

\* The standard library answers, names a graph to run, or needs the host.
Dispatch ==
    /\ pc = "dispatch"
    /\ \/ pc' \in {"idle", "host"} /\ UNCHANGED outer
       \/ ~again /\ pc' = "idle" /\ outer' = outer \cup {inv}
    /\ UNCHANGED <<breaks, made, inv, again, kind, got, gate, history>>

\* The engine takes a request to the host unless its retry guard stops
\* it; after a graph a host request is a fault.
ToHost ==
    /\ pc = "host"
    /\ pc' \in {"idle"} \cup (IF again THEN {} ELSE {"permits"})
    /\ UNCHANGED <<breaks, made, inv, outer, again, kind, got, gate, history>>

\* WatchedHost::permits, up to its own pause.
Permits ==
    /\ pc = "permits"
    /\ \/ (cancelled \/ inv \in refused) /\ pc' = "idle" /\ UNCHANGED kind
       \/ /\ ~cancelled /\ inv \notin refused
          /\ IF breaks.on_effect THEN pc' = "register" /\ kind' = "effect"
                                 ELSE pc' = "granting" /\ UNCHANGED kind
    /\ UNCHANGED <<breaks, made, inv, outer, again, got, gate, history>>

AfterEffect ==
    /\ pc = "held"
    /\ kind = "effect"
    /\ pc' = IF got = "continue" THEN "granting" ELSE "idle"
    /\ UNCHANGED <<breaks, made, inv, outer, again, kind, got, gate, history>>

\* The host underneath grants, or denies or has it not.
Grant ==
    /\ pc = "granting"
    /\ pc' \in {"invoke", "idle"}
    /\ UNCHANGED <<breaks, made, inv, outer, again, kind, got, gate, history>>

\* WatchedHost::invoke: its last look at the state, and then the effect.
HostInvoke ==
    /\ pc = "invoke"
    /\ pc' = IF cancelled \/ inv \in refused THEN "idle" ELSE "perform"
    /\ UNCHANGED <<breaks, made, inv, outer, again, kind, got, gate, history>>

Perform ==
    /\ pc = "perform"
    /\ performed' = performed \cup {inv}
    /\ late' = IF cancelled THEN late + 1 ELSE late
    /\ pc' = "idle"
    /\ UNCHANGED <<breaks, made, inv, outer, again, kind, got, gate, shown, asked, reply>>

\* The engine returns: the report is emitted, then the run is finished.
Report ==
    /\ pc = "idle" /\ outer = {}
    /\ pc' = "finishing"
    /\ UNCHANGED <<breaks, made, inv, outer, again, kind, got, gate, history>>

\* Mutant: a cancelled run returns early, without `finish`.
FinishUnlessCancelled ==
    /\ pc = "finishing"
    /\ ~cancelled
    /\ finished' = TRUE
    /\ paused' = 0
    /\ pc' = "done"
    /\ UNCHANGED <<breaks, made, inv, outer, again, kind, got, answer, cancelled, refused,
                   sequence, history>>

Finish ==
    /\ pc = "finishing"
    /\ finished' = TRUE
    /\ paused' = 0
    /\ pc' = "done"
    /\ UNCHANGED <<breaks, made, inv, outer, again, kind, got, answer, cancelled, refused, sequence,
                   history>>

-----------------------------------------------------------------------------
(* The request threads. *)

\* `continue` or `deny` for the pause numbered n; for any pause but the current
\* one it is refused and nothing changes.
Answer(n, a) ==
    /\ paused = n
    /\ answer' = a
    /\ paused' = 0
    /\ reply' = reply \cup {Reply(n, a)}
    /\ UNCHANGED <<breaks, worker, cancelled, finished, refused, sequence,
                   shown, asked, performed, late>>

Cancel ==
    /\ cancelled' = TRUE
    /\ answer' = "cancel"
    /\ paused' = 0
    /\ UNCHANGED <<breaks, worker, finished, refused, sequence, history>>

-----------------------------------------------------------------------------
Work ==
    \/ HoldRegister \/ HoldRefuse \/ HoldAnnounce \/ HoldResume \/ HoldReturn
    \/ Invoke \/ InvokeAgain \/ AfterOperation \/ Dispatch \/ ToHost \/ Permits \/ AfterEffect
    \/ Grant \/ HostInvoke \/ Perform \/ Report \/ Finish

Next ==
    \/ Work
    \/ \E n \in 1..sequence, a \in {"continue", "deny"} : Answer(n, a)
    \/ Cancel

Spec == Init /\ [][Next]_vars

\* The run thread is scheduled, and the engine and the host calls it makes
\* return; nobody has to answer or cancel.
FairSpec == Spec /\ WF_vars(Work)

-----------------------------------------------------------------------------
(* Properties. *)

\* Somebody answered `a` to a pause of this kind for invocation i.
Answered(i, k, a) == \E q \in asked : q.kind = k /\ q.inv = i /\ Reply(q.sequence, a) \in reply
Denied(i) == \E k \in Kinds : Answered(i, k, "deny")

\* A run that stops before effects performs none without a `continue` that was
\* given to the very pause that asked for it: no answer to an earlier pause, and
\* none given at the operation's pause, lets it through (WatchedHost::permits).
ConsentBeforeEffect ==
    breaks.on_effect => \A i \in performed : Answered(i, "effect", "continue")

\* An invocation somebody refused, at either pause, is not performed, whatever
\* the effect breaks are and whatever the host would permit.
RefusedNotPerformed == \A i \in performed : ~Denied(i)

\* A pause takes one answer: no second click is accepted for it, before or after
\* the run thread has taken the first (Session::answer).
AnsweredOnce == \A r, s \in reply : r.sequence = s.sequence => r = s

\* Once cancelled, a run performs at most the one effect that had passed its
\* last check, and shows no further pause.
CancelStops == late <= 1 /\ (cancelled => paused = 0)

\* A run thread that waits unanswered waits at a pause that can be answered: its
\* own, the latest, which is in the log.
WaitsAnswerably ==
    pc = "waiting" /\ answer = "none" /\ ~cancelled => paused = sequence /\ sequence \in shown

\* A cancelled run ends, wherever the cancellation caught it, although nobody
\* answers anything (RUN-01: "a cancellation is never lost").
CancelEndsRun == cancelled ~> finished
=============================================================================
