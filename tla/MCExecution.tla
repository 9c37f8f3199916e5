---------------------------- MODULE MCExecution ----------------------------
(* Small plans for the language engine, one per shape it treats differently. *)
EXTENDS Execution

Unit(parent, children) ==
    [parent |-> parent, block |-> "unit", parallel |-> FALSE, required |-> TRUE, when |-> FALSE,
     children |-> children, after |-> {}, does |-> "none", target |-> 0, limit |-> NoRetry,
     handlers |-> {}]
Parallel(parent, children) == [Unit(parent, children) EXCEPT !.parallel = TRUE]
Block(block, parent, children) == [Unit(parent, children) EXCEPT !.block = block]
Action(parent) == [Unit(parent, <<>>) EXCEPT !.block = "action", !.does = "host"]
Handled(parent, handlers) == [Action(parent) EXCEPT !.handlers = handlers]
Retried(parent, limit) == [Handled(parent, {<<"retry">>}) EXCEPT !.limit = limit]
Optional(node) == [node EXCEPT !.required = FALSE]
When(node) == [node EXCEPT !.when = TRUE]
Does(parent, op, target) == [Action(parent) EXCEPT !.does = op, !.target = target]
Row(parent, op, target) == [Does(parent, op, target) EXCEPT !.children = <<target>>]

Stops(parent, target) == Does(parent, "stop", target)
Cancels(parent, target) == Does(parent, "cancel", target)

\* A TASK: a retried ACTION, one whose handlers recover, stop or fall back, and
\* one that stops the TASK.
Sequence == <<Unit(0, <<2, 3, 4>>), Retried(1, 2),
              Handled(1, {<<"other", "stop">>, <<"continue", "cancel">>}), When(Stops(1, 1))>>

\* A parallel PHASE of three STEPs, one optional, one that may stop the run, one
\* conditional; then an ACTION.
Group == <<Unit(0, <<2, 9>>), Parallel(1, <<3, 5, 7>>), Unit(2, <<4>>), Optional(Action(3)),
           Unit(2, <<6>>), Handled(5, {<<"continue", "stop">>}), When(Unit(2, <<8>>)),
           Cancels(7, 2), Stops(1, 1)>>

\* A loop over a conditional STEP, a STEP and a branch; a STEP after it.
Loop == <<Unit(0, <<2>>), Unit(1, <<3, 10>>), Block("loop", 2, <<4, 6, 8>>),
          When(Unit(3, <<5>>)), Cancels(4, 4), Unit(3, <<7>>), Action(6),
          Block("if", 3, <<9>>), Unit(8, <<>>), Unit(2, <<11>>), Stops(10, 2)>>

\* A retried row that delegates to a parallel SEQUENCE with a retried ACTION and
\* one that may stop the run.
Delegation == <<Unit(0, <<2, 8>>),
                [Row(1, "execute", 3) EXCEPT !.limit = 1, !.handlers = {<<"retry">>}],
                Parallel(2, <<4, 6>>), Unit(3, <<5>>), Retried(4, 1),
                Unit(3, <<7>>), Optional(Handled(6, {<<"stop">>})), Stops(1, 1)>>

\* A loop that tests an ACTION and cancels the STEP it does so in.
Control == <<Unit(0, <<2>>), Unit(1, <<3>>), Block("loop", 2, <<4>>), Unit(3, <<5, 7>>),
             Row(4, "test", 6), When(Action(5)), Cancels(4, 4)>>

\* The branches of an IF, and a STEP after them.
Branch == <<Unit(0, <<2>>), Unit(1, <<3, 4, 5>>), Block("if", 2, <<6>>), Block("else", 2, <<8>>),
            Unit(2, <<10>>), Unit(3, <<7>>), Retried(6, 0), Unit(4, <<9>>),
            Handled(8, {<<"other">>}), Stops(5, 1)>>

In(order, plans) == {[plan |-> p, interleaving |-> order] : p \in plans}
AllRuns == In("declared", {Sequence, Group, Loop, Delegation, Control, Branch})
             \cup In("reversed", {Group, Delegation}) \cup In("odd_first", {Group})

\* A parallel PHASE whose first STEP is declared AFTER its second.
Edge == <<Unit(0, <<2>>), Parallel(1, <<3, 5>>), [Unit(2, <<4>>) EXCEPT !.after = {5}], Action(3),
          Unit(2, <<6>>), Action(5)>>

LoopRuns == In("declared", {Loop})
EdgeRuns == In("declared", {Edge})
=============================================================================
