----------------------------- MODULE Execution -----------------------------
(***************************************************************************)
(* The language engine: one accepted plan executed by the runtime          *)
(* (lcl-runtime/src/execute.rs, schedule.rs, handler.rs, event.rs).        *)
(*                                                                         *)
(* A plan is a tree of nodes.  What executes is an invocation: a node, the *)
(* path of loop and delegation indexes it is inside, and the attempt.  One *)
(* LIFO queue holds the steps to take; an ACTION that delegates to a unit  *)
(* of the plan sets the queue aside, runs the unit to its end, and then    *)
(* goes on.  A failed attempt may raise an event, whose first matching     *)
(* handler decides: another attempt, recovery, a stop, or nothing.         *)
(*                                                                         *)
(* Conditions, collections, the host's answers and which of the attached   *)
(* handlers matches are chosen freely; MISSING, UNKNOWN and operand faults *)
(* of a condition are one choice, "fault".  Values, outputs, the text of   *)
(* diagnostics and the step budget of a runaway plan are left out.         *)
(***************************************************************************)
EXTENDS Naturals, Sequences, FiniteSets

CONSTANTS
    Runs,       \* accepted plans, each with the interleaving the runtime is given
    MaxItems    \* bound: members of a FOR EACH snapshot

NoRetry == 101     \* above every LIMIT a RETRY block may declare
Blocks == {"unit", "loop", "if", "else", "action"}
Operations == {"host", "execute", "test", "stop", "cancel"}
HandlerOps == {"retry", "continue", "stop", "cancel", "other"}

\* PlanNode.  `does` is what an ACTION's operation does, `target` the node it
\* delegates to, stops or cancels.  A unit is a node of its own in every loop and
\* under every row that delegates to it, and a row delegates to its own child; a
\* unit that is stopped or cancelled is looked up by its name, and is taken to
\* occur once here.  `after` are the siblings its plan edges come from; `limit`
\* is its RETRY LIMIT; `handlers` are the candidates along its producer path,
\* each the operation of the handler and that of its FALLBACK, if any.
Node == [parent : Nat, block : Blocks, parallel : BOOLEAN, required : BOOLEAN, when : BOOLEAN,
         children : Seq(Nat), after : SUBSET Nat, does : Operations \cup {"none"}, target : Nat,
         limit : 0..NoRetry, handlers : SUBSET Seq(HandlerOps)]

\* A node is after its parent, and is listed once, among its parent's children.  Only
\* a PHASE or SEQUENCE can be parallel, and only an ACTION has an operation.
IsPlan(p) ==
    /\ p \in Seq(Node) /\ p # <<>> /\ p[1].parent = 0
    /\ \A n \in DOMAIN p :
        LET all == p[n].children
        IN  /\ n > 1 => p[n].parent \in 1..(n - 1)
            /\ {all[k] : k \in DOMAIN all} = {c \in DOMAIN p : p[c].parent = n}
            /\ \A j, k \in DOMAIN all : all[j] = all[k] => j = k
            /\ \A m \in p[n].after : m \in DOMAIN p /\ p[m].parent = p[n].parent
            /\ p[n].block = "action" => p[n].does \in Operations /\ p[n].target \in 0..Len(p)
            /\ p[n].block # "action" => p[n].does = "none"
            /\ p[n].does \in {"execute", "test"} => all = <<p[n].target>>
            /\ p[n].parallel => p[n].block = "unit"
            /\ \A h \in p[n].handlers : Len(h) \in 1..2

Interleavings == {"declared", "reversed", "odd_first"}

ASSUME RunsAssumption ==
    MaxItems \in Nat /\ \A r \in Runs : IsPlan(r.plan) /\ r.interleaving \in Interleavings

Statuses == {"running", "succeeded", "failed", "skipped", "stopped", "cancelled"}
Phases == {"none", "pre", "post", "indeterminate"}
EffectStates == {"none", "applied", "partial", "indeterminate"}
Dispositions == {"pending", "nomatch", "unrecovered", "recovered"}

VARIABLES
    plan,          \* the plan being executed
    interleaving,  \* the order parallel batches are taken in
    queue,         \* Engine.queue: the steps to take, the next one first
    calls,         \* the delegations under way, the innermost first
    at,            \* "step", or within perform_action: "attempt" or "handle"
    unit,          \* the attempt being performed
    records,       \* Engine.records
    events,        \* Engine.events, by the invocation that raised them
    proofs,        \* Engine.retry_proofs, by the attempt they are about
    exhausted,     \* the attempts error.retry.exhausted was emitted for
    abandoned,     \* Engine.abandoned
    halted         \* Engine.halted

vars == <<plan, interleaving, queue, calls, at, unit, records, events, proofs, exhausted,
          abandoned, halted>>

Id(n, it, k) == [node |-> n, iteration |-> it, attempt |-> k]
First(n, it) == Id(n, it, 0)
Again(i) == [i EXCEPT !.attempt = @ + 1]
Before(i) == [i EXCEPT !.attempt = @ - 1]

EnterStep(n, it) == [op |-> "enter", node |-> n, iteration |-> it, of |-> 0, index |-> 0]
LeaveStep(n, it) == [EnterStep(n, it) EXCEPT !.op = "leave"]
IterateStep(n, it, m, k) ==
    [op |-> "iterate", node |-> n, iteration |-> it, of |-> m, index |-> k]

\* A record.  A producer result has a phase and an effect state, and says
\* whether its request reached the host: "no", "same" as the attempt before (or
\* the first), or "changed".  A unit that produced nothing has a bare record.
Result(status, phase, effect, sent) ==
    [status |-> status, phase |-> phase, effect |-> effect, sent |-> sent]
Bare(status) == Result(status, "none", "none", "no")

PutAll(f, K, v) == [x \in DOMAIN f \cup K |-> IF x \in K THEN v ELSE f[x]]
Put(f, k, v) == PutAll(f, {k}, v)

Init ==
    /\ \E r \in Runs : plan = r.plan /\ interleaving = r.interleaving
    /\ queue = <<EnterStep(1, <<>>)>>
    /\ calls = <<>>
    /\ at = "step"
    /\ unit = First(1, <<>>)
    /\ records = <<>>
    /\ events = <<>>
    /\ proofs = <<>>
    /\ exhausted = {}
    /\ abandoned = {}
    /\ halted = FALSE

---------------------------------------------------------------------------
\* The tree.

\* A node and the nodes it is inside.
Path[n \in 0..Len(plan)] == IF n = 0 THEN {} ELSE {n} \cup Path[plan[n].parent]

Position(n) == CHOOSE k \in DOMAIN plan[plan[n].parent].children :
                   plan[plan[n].parent].children[k] = n
LaterSiblings(n) ==
    LET all == plan[plan[n].parent].children
    IN  {all[k] : k \in {j \in DOMAIN all : j > Position(n)}}

\* Mutant: parallel groups are cancelled too.
SuccessorsInAnyGroup(n) == UNION {LaterSiblings(a) : a \in Path[n] \ {1}}

\* Mutant: only the group the failure is in.
SuccessorsInOwnGroup(n) == IF plan[plan[n].parent].parallel THEN {} ELSE LaterSiblings(n)

\* halt_successors_of: the later siblings in every sequential group around n.
Successors(n) ==
    UNION {LaterSiblings(a) : a \in {b \in Path[n] \ {1} : ~plan[plan[b].parent].parallel}}

\* declared_successor: a parallel group on the way up makes it ambiguous.
HasSuccessor(n) ==
    \E a \in Path[n] \ {1} :
        /\ LaterSiblings(a) # {}
        /\ \A b \in Path[n] : b >= a => ~plan[plan[b].parent].parallel

\* Interleaving::apply; a delegated unit runs on a fresh queue, in declared order.
Ordered(batch) ==
    LET n == Len(batch)
        half == n \div 2
        order == IF calls = <<>> THEN interleaving ELSE "declared"
    IN  CASE order = "declared" -> batch
          [] order = "reversed" -> [k \in 1..n |-> batch[n + 1 - k]]
          [] order = "odd_first" ->
                [k \in 1..n |-> IF k <= half THEN batch[2 * k] ELSE batch[2 * (k - half) - 1]]

\* selected_children: of each IF and its ELSE, the arm the condition picks.
Ifs(n) == {c \in DOMAIN plan : plan[c].parent = n /\ plan[c].block = "if"}
Picks(n) == [Ifs(n) -> {"then", "else", "fault"}]
InOrder(S) == CHOOSE f \in [1..Cardinality(S) -> S] : \A j, k \in DOMAIN f : j < k => f[j] < f[k]
Selected(n, pick) ==
    LET all == plan[n].children
        kept == {k \in DOMAIN all : CASE plan[all[k]].block = "if" -> pick[all[k]] = "then"
                                     [] plan[all[k]].block = "else" -> pick[all[k - 1]] = "else"
                                     [] OTHER -> TRUE}
        order == InOrder(kept)
    IN  [k \in DOMAIN order |-> all[order[k]]]
Enters(children, it) == [k \in DOMAIN children |-> EnterStep(children[k], it)]
Faulted(n, it, pick) == {First(c, it) : c \in {d \in Ifs(n) : pick[d] = "fault"}}

---------------------------------------------------------------------------
\* Steps: Engine::enter, iterate, leave.

SamePlan == UNCHANGED <<plan, interleaving>>
SameRun == UNCHANGED <<calls, proofs, exhausted, halted>>
Taking(op) == at = "step" /\ queue # <<>> /\ Head(queue).op = op
Here == First(Head(queue).node, Head(queue).iteration)

Entering == Taking("enter") /\ Here.node \notin abandoned /\ ~halted

\* An abandoned unit, and every unit of a halted run, is passed over.
Pass ==
    /\ Taking("enter")
    /\ Here.node \in abandoned \/ halted
    /\ queue' = Tail(queue)
    /\ UNCHANGED <<at, unit, records, events, abandoned>> /\ SameRun /\ SamePlan

\* WHEN is FALSE; a root goes on all the same.
Skip ==
    /\ Entering
    /\ plan[Here.node].when /\ Here.node # 1
    /\ queue' = Tail(queue)
    /\ records' = Put(records, Here, Bare("skipped"))
    /\ abandoned' = abandoned \cup {Here.node}
    /\ UNCHANGED <<at, unit, events>> /\ SameRun /\ SamePlan

\* WHEN has no value; its event, if the fault has one, selects no handler.
FaultWhen ==
    /\ Entering
    /\ plan[Here.node].when
    /\ queue' = Tail(queue)
    /\ records' = Put(records, Here, Bare("failed"))
    /\ abandoned' = abandoned \cup {Here.node}
    /\ events' \in {events, Put(events, Here, "pending")}
    /\ UNCHANGED <<at, unit>> /\ SameRun /\ SamePlan

\* enter_children: the selected children, then the Leave of their container.
EnterContainer ==
    /\ Entering
    /\ plan[Here.node].block \in {"unit", "if", "else"}
    /\ records' = Put(records, Here, Bare("running"))
    /\ \E pick \in Picks(Here.node) :
          LET batch == Enters(Selected(Here.node, pick), Here.iteration)
          IN  /\ queue' = (IF plan[Here.node].parallel THEN Ordered(batch) ELSE batch)
                            \o <<LeaveStep(Here.node, Here.iteration)>> \o Tail(queue)
              /\ events' \in {events, PutAll(events, Faulted(Here.node, Here.iteration, pick),
                                              "pending")}
    /\ UNCHANGED <<at, unit, abandoned>> /\ SameRun /\ SamePlan

\* begin_loop: the snapshot is taken once.
EnterLoop ==
    /\ Entering
    /\ plan[Here.node].block = "loop"
    /\ records' = Put(records, Here, Bare("running"))
    /\ \E m \in 0..MaxItems :
          queue' = <<IterateStep(Here.node, Here.iteration, m, 0),
                     LeaveStep(Here.node, Here.iteration)>> \o Tail(queue)
    /\ UNCHANGED <<at, unit, events, abandoned>> /\ SameRun /\ SamePlan

\* The collection cannot be read: the loop is recorded running and never left.
FaultLoop ==
    /\ Entering
    /\ plan[Here.node].block = "loop"
    /\ queue' = Tail(queue)
    /\ records' = Put(records, Here, Bare("running"))
    /\ abandoned' = abandoned \cup {Here.node}
    /\ events' \in {events, Put(events, Here, "pending")}
    /\ UNCHANGED <<at, unit>> /\ SameRun /\ SamePlan

\* The next instance of a loop, then the one after; it asks for nothing else.
Iterate ==
    /\ Taking("iterate")
    /\ LET step == Head(queue)
           inside == Append(step.iteration, step.index)
       IN  IF step.index = step.of
             THEN queue' = Tail(queue) /\ UNCHANGED events
             ELSE \E pick \in Picks(step.node) :
                    /\ queue' = Enters(Selected(step.node, pick), inside)
                                  \o <<[step EXCEPT !.index = @ + 1]>> \o Tail(queue)
                    /\ events' \in {events, PutAll(events, Faulted(step.node, inside, pick),
                                                   "pending")}
    /\ UNCHANGED <<at, unit, records, abandoned>> /\ SameRun /\ SamePlan

\* Mutant: a container that was cancelled is never left.
LeaveRunningOnly ==
    /\ Taking("leave")
    /\ records[Here].status = "running"
    /\ queue' = Tail(queue)
    /\ records' = IF Here.node # 1 THEN [records EXCEPT ![Here].status = "succeeded"] ELSE records
    /\ UNCHANGED <<at, unit, events, abandoned>> /\ SameRun /\ SamePlan

\* A root stays running: its completion is decided after the run.
LeaveContainer ==
    /\ Taking("leave")
    /\ queue' = Tail(queue)
    /\ records' = IF Here.node # 1 /\ records[Here].status = "running"
                    THEN [records EXCEPT ![Here].status = "succeeded"]
                    ELSE records
    /\ UNCHANGED <<at, unit, events, abandoned>> /\ SameRun /\ SamePlan

BeginAction ==
    /\ Entering
    /\ plan[Here.node].block = "action"
    /\ queue' = Tail(queue)
    /\ at' = "attempt"
    /\ unit' = Here
    /\ UNCHANGED <<records, events, abandoned>> /\ SameRun /\ SamePlan

---------------------------------------------------------------------------
\* One attempt: Engine::attempt and the end of perform_action's loop.

Doing(op) == at = "attempt" /\ plan[unit.node].does = op

\* A successful attempt recovers every event its ACTION's attempts raised.
Recovering(i) ==
    [e \in DOMAIN events |->
        IF e.node = i.node /\ e.iteration = i.iteration THEN "recovered" ELSE events[e]]
Succeeds(i, effect, sent) ==
    /\ records' = Put(records, i, Result("succeeded", "none", effect, sent))
    /\ events' = Recovering(i)
    /\ at' = "step"

\* A failed one is recorded while still active, with the event it raised, if any.
Fails(i, phase, effect, sent, raised) ==
    /\ records' = Put(records, i, Result("running", phase, effect, sent))
    /\ events' = IF raised THEN Put(events, i, "pending") ELSE events
    /\ at' = "handle"

StaysPut == UNCHANGED <<queue, calls, unit, proofs, exhausted, abandoned, halted>> /\ SamePlan

\* A TARGET, a parameter or the operation's own contract fails before anything
\* is asked of anyone; so does a request that changed under a retry proof.
FailEarly ==
    /\ at = "attempt"
    /\ \E raised \in BOOLEAN : Fails(unit, "pre", "none", "no", raised)
    /\ StaysPut

\* phase_of and effect_state_of: what was observed, and whether it is proven
\* that there was nothing to observe.
PhaseOf(seen, free) ==
    IF seen # "none" THEN "post" ELSE IF free THEN "pre" ELSE "indeterminate"
EffectStateOf(seen, phase) ==
    IF seen = "none" /\ phase = "indeterminate" THEN "indeterminate" ELSE seen

\* What an outcome leaves, the host's or the operation's own: a completion may
\* still break its result contract, and then fails with what was observed.
record_of(i, sent) ==
    \/ \E effect \in {"none", "applied"} : Succeeds(i, effect, sent)
    \/ \E seen \in EffectStates, free, raised \in BOOLEAN :
          LET phase == PhaseOf(seen, free)
          IN  Fails(i, phase, EffectStateOf(seen, phase), sent, raised)

\* The operation resolves by itself, without the host.
CompleteInside ==
    /\ Doing("host")
    /\ record_of(unit, "no")
    /\ StaysPut

\* The retry guard: with a proof, only the proved request goes out again.
Requests ==
    IF unit.attempt = 0 \/ Before(unit) \in DOMAIN proofs THEN {"same"} ELSE {"same", "changed"}

AskHost ==
    /\ Doing("host")
    /\ \E sent \in Requests : record_of(unit, sent)
    /\ StaysPut

\* core.cancel and core.stop of a unit of the plan: the first record of the
\* unit, in the order of the record map, and only if it is still running.
Earlier(a, b) ==    \* the paths of one node have one length
    \/ a.iteration = b.iteration /\ a.attempt <= b.attempt
    \/ \E k \in DOMAIN a.iteration :
          /\ \A j \in 1..(k - 1) : a.iteration[j] = b.iteration[j]
          /\ a.iteration[k] < b.iteration[k]
RecordsOf(n) == {i \in DOMAIN records : i.node = n}
FirstRecordOf(n) == CHOOSE i \in RecordsOf(n) : \A j \in RecordsOf(n) : Earlier(i, j)

EndUnit ==
    /\ at = "attempt"
    /\ \E op \in {"stop", "cancel"} :
          /\ Doing(op)
          /\ LET n == plan[unit.node].target
                 i == FirstRecordOf(n)
                 status == IF op = "stop" THEN "stopped" ELSE "cancelled"
                 done == Result("succeeded", "none", "applied", "no")
             IN  IF RecordsOf(n) # {} /\ records[i].status = "running"
                   THEN /\ records' = Put([records EXCEPT ![i].status = status], unit, done)
                        /\ events' = Recovering(unit)
                        /\ at' = "step"
                   ELSE Fails(unit, "pre", "none", "no", FALSE)
    /\ StaysPut

\* execute_graph: the queue is set aside and the unit entered under an
\* iteration path of its own.
Delegate ==
    /\ at = "attempt"
    /\ plan[unit.node].does \in {"execute", "test"}
    /\ calls' = <<[row |-> unit, outer |-> queue, before |-> DOMAIN records]>> \o calls
    /\ queue' = <<EnterStep(plan[unit.node].target, Append(unit.iteration, unit.attempt))>>
    /\ at' = "step"
    /\ UNCHANGED <<unit, records, events, proofs, exhausted, abandoned, halted>> /\ SamePlan

\* What the unit did: the results its ACTIONs produced, every attempt of them.
Inside(call) == {i \in DOMAIN records \ call.before :
                    \/ records[i].phase # "none"
                    \/ plan[i.node].block = "action" /\ records[i].status = "succeeded"}
Governing(call) == {i \in Inside(call) : Again(i) \notin DOMAIN records}
Observed(i) == records[i].effect # "none" /\ records[i].phase # "indeterminate"
\* Mutant: only ACTIONs that succeeded count.
GraphEffectsOfSuccess(call) ==
    {records[i].effect : i \in {j \in Inside(call) : Observed(j) /\ records[j].status = "succeeded"}}

GraphEffects(call) ==
    {records[i].effect : i \in {j \in Inside(call) : Observed(j) /\ plan[j.node].does # "execute"}}
WorstOf(effects) ==
    IF "indeterminate" \in effects THEN "indeterminate"
    ELSE IF "partial" \in effects THEN "partial" ELSE "applied"

\* graph_result, for core.execute; and core.test, whose comparison comes after
\* the unit and whose failure is reported as before any effect.
Return ==
    /\ at = "step" /\ queue = <<>> /\ calls # <<>>
    /\ LET call == Head(calls)
           row == call.row
           seen == GraphEffects(call)
           effect == IF seen = {} THEN "none" ELSE "applied"
       IN  /\ queue' = call.outer
           /\ calls' = Tail(calls)
           /\ unit' = row
           /\ \/ /\ plan[row.node].does = "test"
                 /\ Succeeds(row, effect, "no") \/ Fails(row, "pre", "none", "no", FALSE)
              \/ /\ plan[row.node].does = "execute"
                 /\ IF \A i \in Governing(call) : records[i].status = "succeeded"
                      THEN Succeeds(row, effect, "no")
                    ELSE IF seen # {}
                      THEN Fails(row, "post", WorstOf(seen), "no", FALSE)
                    ELSE IF \A i \in Inside(call) : records[i].effect = "none"
                      THEN Fails(row, "pre", "none", "no", FALSE)
                      ELSE Fails(row, "indeterminate", "indeterminate", "no", FALSE)
    /\ UNCHANGED <<proofs, exhausted, abandoned, halted>> /\ SamePlan

---------------------------------------------------------------------------
\* What becomes of a failed attempt: Engine::handle.

Handling == at = "handle" /\ SamePlan /\ UNCHANGED <<queue, calls>>
Selecting == Handling /\ unit \in DOMAIN events
Dispose(d) == events' = [events EXCEPT ![unit] = d]
Finalize(status) == records' = [records EXCEPT ![unit].status = status]

\* An unrecovered failure; a required one leaves nothing after it reachable.
Unrecovered ==
    /\ Finalize("failed")
    /\ abandoned' = IF plan[unit.node].required THEN abandoned \cup Successors(unit.node)
                                                ELSE abandoned
    /\ at' = "step"
    /\ UNCHANGED <<unit, proofs, halted>>

\* The failure raised no event, or no attached handler matches the one it did.
NoEvent ==
    /\ Handling
    /\ unit \notin DOMAIN events
    /\ Unrecovered
    /\ UNCHANGED <<events, exhausted>>

NoMatch ==
    /\ Selecting
    /\ Unrecovered
    /\ Dispose("nomatch")
    /\ UNCHANGED exhausted

Recovered(status) ==
    /\ Finalize(status)
    /\ Dispose("recovered")
    /\ at' = "step"
    /\ UNCHANGED <<unit, proofs, exhausted, abandoned>>

\* invoke_handler: how the operation of a handler or of its FALLBACK can end.
\* A stop or cancel asks for a terminal status; any other goes to the host.
Ends(op) ==
    CASE op = "continue" -> {IF HasSuccessor(unit.node) THEN "done" ELSE "failed"}
      [] op = "stop" -> {"stopped"}
      [] op = "cancel" -> {"cancelled"}
      [] OTHER -> {"done", "failed"}

\* activate: a FALLBACK runs only after its handler's own operation failed.
Outcomes(h) ==
    LET first == Ends(h[1])
    IN  IF "failed" \in first /\ Len(h) = 2 THEN (first \ {"failed"}) \cup Ends(h[2]) ELSE first

Candidates(primaries) == {h \in plan[unit.node].handlers : h[1] \in primaries}
Acting == Candidates(HandlerOps \ {"retry"})

HandlerRecovers ==
    /\ Selecting
    /\ \E h \in Acting : "done" \in Outcomes(h)
    /\ Recovered("failed")
    /\ UNCHANGED halted

HandlerStops ==
    /\ Selecting
    /\ \E h \in Acting : \E status \in Outcomes(h) \cap {"stopped", "cancelled"} : Recovered(status)
    /\ halted' = TRUE

HandlerFails ==
    /\ Selecting
    /\ \E h \in Acting : "failed" \in Outcomes(h)
    /\ Unrecovered
    /\ Dispose("unrecovered")
    /\ UNCHANGED exhausted

\* authorize_retry.
Limit == plan[unit.node].limit
Retrying == Selecting /\ Candidates({"retry"}) # {}
\* Mutant: the zero-based index taken for the count.
MadeBefore == unit.attempt

Made == unit.attempt + 1

\* No RETRY block, another limit than its own, a WHEN that is not TRUE, or no
\* proof that another attempt is safe.
RetryRefused ==
    /\ Retrying
    /\ Unrecovered
    /\ Dispose("unrecovered")
    /\ UNCHANGED exhausted

RetryExhausted ==
    /\ Retrying
    /\ Limit # NoRetry /\ Made >= Limit + 1
    /\ exhausted' = exhausted \cup {unit}
    /\ Unrecovered
    /\ Dispose("unrecovered")

\* Mutant: no effect seen is taken for no effect.
NoEffectsSeen(r) == r.phase # "post"

\* retry_is_safe: nothing happened, or the host proves what did, for a request
\* that reached it.  retry_proof_matches compares the proof with the record.
NoEffects(r) == r.phase \in {"none", "pre"} /\ r.effect = "none"
Uncertain(r) == "indeterminate" \in {r.phase, r.effect}
ProofMatches(r, p) == IF Uncertain(r) THEN p.method = "reconcile" ELSE p.effect = r.effect
Proofs == [method : {"repeat", "resume", "reconcile"}, effect : EffectStates \ {"indeterminate"}]

Authorized ==
    LET r == records[unit]
    IN  \/ NoEffects(r) /\ UNCHANGED proofs
        \/ /\ ~NoEffects(r) /\ r.sent # "no"
           /\ \E p \in Proofs : ProofMatches(r, p) /\ proofs' = Put(proofs, unit, p)

RetryGranted ==
    /\ Retrying
    /\ Limit # NoRetry /\ Made < Limit + 1
    /\ Authorized
    /\ Finalize("failed")
    /\ Dispose("unrecovered")
    /\ unit' = Again(unit)
    /\ at' = "attempt"
    /\ UNCHANGED <<exhausted, abandoned, halted>>

Next ==
    \/ Pass \/ Skip \/ FaultWhen \/ EnterContainer \/ EnterLoop \/ FaultLoop
    \/ Iterate \/ LeaveContainer \/ BeginAction
    \/ FailEarly \/ CompleteInside \/ AskHost \/ EndUnit \/ Delegate \/ Return
    \/ NoEvent \/ NoMatch \/ HandlerRecovers \/ HandlerStops \/ HandlerFails
    \/ RetryRefused \/ RetryExhausted \/ RetryGranted

\* run() is one loop on one thread, and the host answers every request.
Spec == Init /\ [][Next]_vars /\ WF_vars(Next)
---------------------------------------------------------------------------
\* Properties.

Done == at = "step" /\ queue = <<>> /\ calls = <<>>

StepsOf(q) == {q[k] : k \in DOMAIN q}
AllSteps == StepsOf(queue) \cup UNION {StepsOf(calls[k].outer) : k \in DOMAIN calls}
Rows == {calls[k].row : k \in DOMAIN calls}
Active == Rows \cup (IF at = "step" THEN {} ELSE {unit})

InvocationIds == [node : DOMAIN plan, iteration : Seq(Nat), attempt : Nat]
StepSet == [op : {"enter", "leave", "iterate"}, node : DOMAIN plan, iteration : Seq(Nat),
            of : 0..MaxItems, index : 0..MaxItems]
CallSet == [row : InvocationIds, outer : Seq(StepSet), before : SUBSET InvocationIds]
RecordSet == [status : Statuses, phase : Phases, effect : EffectStates,
              sent : {"no", "same", "changed"}]

\* Type correctness of the engine's state.
TypeOK ==
    /\ \E r \in Runs : plan = r.plan /\ interleaving = r.interleaving
    /\ queue \in Seq(StepSet)
    /\ calls \in Seq(CallSet) /\ \A k \in DOMAIN calls : calls[k].before \subseteq DOMAIN records
    /\ at \in {"step", "attempt", "handle"} /\ unit \in InvocationIds
    /\ DOMAIN records \subseteq InvocationIds
    /\ \A i \in DOMAIN records : records[i] \in RecordSet
    /\ DOMAIN events \subseteq InvocationIds
    /\ \A i \in DOMAIN events : events[i] \in Dispositions
    /\ DOMAIN proofs \subseteq DOMAIN records
    /\ \A i \in DOMAIN proofs : proofs[i] \in Proofs
    /\ exhausted \subseteq DOMAIN records
    /\ abandoned \subseteq DOMAIN plan /\ halted \in BOOLEAN

IsPrefixOf(s, t) == Len(s) <= Len(t) /\ SubSeq(t, 1, Len(s)) = s
Around(i, j) == i.node \in Path[j.node] /\ IsPrefixOf(i.iteration, j.iteration)

\* An attempt whose failure nobody recovered and nobody retried.
Unhandled(i) ==
    /\ i \in DOMAIN records /\ records[i].status = "failed" /\ records[i].phase # "none"
    /\ i \in DOMAIN events => events[i] # "recovered"
    /\ {Again(i)} \cap (DOMAIN records \cup Active) = {}

\* A further attempt is made only after one that provably did nothing, or one
\* whose effects the host accounted for; then the request that goes out is the
\* request the account is about, and an uncertain outcome was reconciled
\* (retry_is_safe, retry_proof_matches and the retry guard of attempt).
RetriedSafely ==
    \A i \in DOMAIN records : i.attempt > 0 =>
        LET was == records[Before(i)]
        IN  /\ was.status = "failed"
            /\ \/ was.effect = "none" /\ was.phase = "pre"
               \/ /\ Before(i) \in DOMAIN proofs
                  /\ records[i].sent # "changed"
                  /\ Uncertain(was) => proofs[Before(i)].method = "reconcile"

\* An ACTION makes at most 1 + LIMIT attempts, and error.retry.exhausted says
\* that exactly so many were made and every one failed (authorize_retry).
BudgetExact ==
    /\ \A i \in DOMAIN records : i.attempt > 0 => i.attempt <= plan[i.node].limit
    /\ \A i \in exhausted :
          /\ i.attempt = plan[i.node].limit
          /\ \A k \in 0..i.attempt :
                LET j == [i EXCEPT !.attempt = k]
                IN  j \in DOMAIN records /\ records[j].status = "failed"

\* Once a container has succeeded nothing inside it is queued or under way, the
\* units it delegated to included (the LIFO queue and the queue execute_graph
\* sets aside).
FinishesLast ==
    \A i \in DOMAIN records :
        plan[i.node].block # "action" /\ records[i].status = "succeeded" =>
            \A j \in AllSteps \cup Active : ~Around(i, j)

\* m comes later than n in a sequential group they are both in.
Follows(m, n) ==
    \E a \in Path[n] \ {1} : m \in LaterSiblings(a) /\ ~plan[plan[a].parent].parallel

\* After an unrecovered failed attempt of a required unit nothing later in a
\* sequential group around it begins, in the instance it happened in
\* (halt_successors_of).  A required unit that fails at its WHEN is not meant.
NothingAfterFailureHere ==
    \A i \in DOMAIN records : Unhandled(i) /\ plan[i.node].required /\ i \notin Active =>
        \A j \in DOMAIN records \cup Active :
            ~(Follows(j.node, i.node) /\ IsPrefixOf(j.iteration, i.iteration))

\* A failure in a parallel group cancels none of its siblings: when the group
\* has succeeded each of them was entered, unless the run was stopped or the
\* same unit has a record of another instance, which may have left it out here.
ParallelAllEntered ==
    \A i \in DOMAIN records :
        plan[i.node].parallel /\ records[i].status = "succeeded" /\ ~halted =>
            \A c \in DOMAIN plan :
                plan[c].parent = i.node /\ plan[c].block \in {"unit", "action", "loop"} =>
                    \/ First(c, i.iteration) \in DOMAIN records
                    \/ \E j \in RecordsOf(c) : j.iteration # i.iteration

\* Once a handler stopped the run no unit begins; only the rows already
\* delegating when it happened still get their result (Engine.halted).
HaltedBeginsNothing ==
    [][halted => halted' /\ (DOMAIN records' \ DOMAIN records) \subseteq Rows]_vars

\* A delegating row reports success only if each ACTION its unit ran has
\* succeeded in its last attempt, and admits no effect only if none of them
\* reported one (execute_graph, graph_result).
RowReportsUnit ==
    \A row \in DOMAIN records \ Active :
        LET inside == {i \in DOMAIN records :
                          /\ plan[row.node].does = "execute"
                          /\ row.node \in Path[i.node] \ {i.node}
                          /\ IsPrefixOf(Append(row.iteration, row.attempt), i.iteration)
                          /\ plan[i.node].block = "action"}
        IN  /\ records[row].status = "succeeded" => ~ \E i \in inside : Unhandled(i)
            /\ records[row].effect = "none" /\ plan[row.node].does = "execute" =>
                  \A i \in inside : ~Observed(i)

\* The run comes to its end: no plan, answer or handler keeps it going or leaves
\* a step nobody takes (run, authorize_retry's budget).
Terminates == <>Done

---------------------------------------------------------------------------
\* What the documentation says and the code does not do.

\* A unit left out in one instance of a loop is left out for something that
\* happened in that instance or around it (Engine.abandoned: "Invocations whose
\* subtree must not be entered").
EachInstanceDecides ==
    Taking("enter") /\ Here.node \in abandoned /\ ~halted =>
        \E i \in DOMAIN records :
            /\ records[i].status \in {"failed", "skipped"}
            /\ IsPrefixOf(i.iteration, Here.iteration) \/ IsPrefixOf(Here.iteration, i.iteration)

\* After an unrecovered required failure in one instance of a loop no unit of a
\* later instance begins: iterations are sequential, and "nothing after an
\* unrecovered required failure is reachable".
NothingAfterFailure ==
    \A i \in DOMAIN records : Unhandled(i) /\ plan[i.node].required =>
        \A j \in DOMAIN records \cup Active :
            ~ \E l \in Path[i.node] \cap Path[j.node], k \in DOMAIN i.iteration :
                 /\ plan[l].block = "loop" /\ k = Len(j.iteration)
                 /\ SubSeq(i.iteration, 1, k - 1) = SubSeq(j.iteration, 1, k - 1)
                 /\ j.iteration[k] > i.iteration[k]

\* A unit begins only after the units its plan edges come from have finished
\* ("`from` must complete before `to` begins").
EdgesRespected ==
    \A i \in DOMAIN records : \A m \in plan[i.node].after :
        \/ m \in abandoned
        \/ First(m, i.iteration) \in DOMAIN records /\ First(m, i.iteration) \notin Active
===========================================================================
