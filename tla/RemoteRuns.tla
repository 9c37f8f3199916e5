----------------------------- MODULE RemoteRuns -----------------------------
(***************************************************************************)
(* The runs devices start on this PC: who owns them, and what becomes of   *)
(* them when their project is no longer shared (remote session.rs,         *)
(* session/runs.rs, session/operations.rs, projects.rs).                   *)
(*                                                                         *)
(* One project.  Its routes are opened when a device first needs them and  *)
(* closed by whichever session next looks at what is shared; opened again  *)
(* they are other routes, whose runs are numbered from 1 again.  Every     *)
(* session is a thread; a step is what it does under one hold of the open- *)
(* projects lock or the owners lock, or one call into the routes.  Each    *)
(* session here is of a device of its own.                                 *)
(***************************************************************************)
EXTENDS Naturals

CONSTANTS
    Sessions,   \* the devices' sessions
    MaxChanges, \* bound: how often sharing is changed
    MaxRoutes,  \* bound: how often the project's routes are opened
    MaxRuns     \* bound: runs in one routes

ASSUME RemoteRunsAssumption == MaxChanges \in Nat /\ MaxRoutes \in Nat /\ MaxRuns \in Nat

Routes == 1..MaxRoutes
Numbers == 1..MaxRuns
Run(g, n) == [routes |-> g, number |-> n]
Runs == [routes : Routes, number : Numbers]

NoOwner == [by |-> "nobody", routes |-> 0]
Owner(s, g) == [by |-> s, routes |-> g]

VARIABLES
    shared,     \* remote.json shares the project
    changes,    \* how often that has changed
    open,       \* Projects.open: the routes open for it, 0 for none
    opened,     \* routes opened so far
    closings,   \* Projects.closings
    runs,       \* the runs in each routes, and who started each
    cancelled,  \* runs that were cancelled
    finished,   \* runs that came to their end
    owners,     \* Shared.owners, by run number
    session,    \* each session: what it is doing and what it holds
    stoppable,  \* history: runs with an owner when their routes were closed
    replaced    \* history: those whose record another run's took the place of

project == <<shared, changes, open, opened, closings>>
vars == <<project, runs, cancelled, finished, owners, session, stoppable, replaced>>

Places == {"ready", "run", "own", "follow", "answer", "deliver",
           "forward", "send", "current", "cancel", "end"}

TypeOK ==
    /\ shared \in BOOLEAN /\ changes \in 0..MaxChanges
    /\ open \in 0..MaxRoutes /\ opened \in 0..MaxRoutes /\ closings \in Nat
    /\ runs \in SUBSET [run : Runs, by : Sessions]
    /\ cancelled \in SUBSET Runs /\ finished \in SUBSET Runs
    /\ owners \in [Numbers -> {NoOwner} \cup [by : Sessions, routes : Routes]]
    /\ session \in [Sessions ->
          [at : Places,               \* where its thread is
           routes : 0..MaxRoutes,     \* the routes the request was given
           number : 0..MaxRuns,       \* the run it is about
           closed : 0..MaxRoutes,     \* the routes it has closed
           lists : BOOLEAN,           \* the project is among those it listed
           back : {"forward", "send", "ready"}, \* where looking at what is shared leads
           next : Nat, seen : Nat,    \* closings read, and closings_seen
           runs : SUBSET Runs]]       \* the runs it follows
    /\ stoppable \in SUBSET Runs /\ replaced \in SUBSET stoppable

NewSession == [at |-> "ready", routes |-> 0, number |-> 0, closed |-> 0, lists |-> FALSE,
               back |-> "forward", next |-> 0, seen |-> closings, runs |-> {}]

Init ==
    /\ shared = TRUE /\ changes = 0 /\ open = 0 /\ opened = 0 /\ closings = 0
    /\ runs = {} /\ cancelled = {} /\ finished = {}
    /\ owners = [n \in Numbers |-> NoOwner]
    /\ session = [s \in Sessions |-> NewSession]
    /\ stoppable = {} /\ replaced = {}

Known(x) == \E r \in runs : r.run = x
StartedBy(s, x) == [run |-> x, by |-> s] \in runs

\* Somebody holds an Arc of these routes.
Alive(g) ==
    \/ open = g
    \/ \E s \in Sessions :
          \/ g \in {session[s].closed} \cup {x.routes : x \in session[s].runs}
          \/ g = session[s].routes /\ session[s].at \in {"run", "own", "follow", "answer", "deliver"}

\* Session s goes on at place `at`; a request it has answered is gone.
Goes(s, at) == session' = [session EXCEPT ![s].at = at]
Answers(s, following) ==
    session' = [session EXCEPT ![s].at = "forward", ![s].routes = 0, ![s].number = 0,
                               ![s].runs = following]

-----------------------------------------------------------------------------
(* The person at the PC, and the runs themselves. *)

Reshare ==
    /\ changes < MaxChanges
    /\ changes' = changes + 1
    /\ shared' = ~shared
    /\ UNCHANGED <<open, opened, closings, runs, cancelled, finished, owners, session,
                   stoppable, replaced>>

RunFinishes(x) ==
    /\ Known(x) /\ x \notin finished
    /\ finished' = finished \cup {x}
    /\ UNCHANGED <<project, runs, cancelled, owners, session, stoppable, replaced>>

-----------------------------------------------------------------------------
(* Requests. *)

Handed == open'

\* project_op: whether the project is shared and its routes, under one lock.
Request(s, op, n) ==
    /\ session[s].at = "ready"
    /\ IF ~shared
       THEN Goes(s, "forward") /\ UNCHANGED <<open, opened>>
       ELSE /\ \/ open # 0 /\ UNCHANGED <<open, opened>>
               \/ open = 0 /\ opened < MaxRoutes /\ opened' = opened + 1 /\ open' = opened + 1
            /\ session' = [session EXCEPT ![s].at = op, ![s].routes = Handed, ![s].number = n]
    /\ UNCHANGED <<shared, changes, closings, runs, cancelled, finished, owners,
                   stoppable, replaced>>

\* Runs in one routes are numbered from 1.
NextNumber(g, n) == ~Known(Run(g, n)) /\ (n = 1 \/ Known(Run(g, n - 1)))

\* `run`: the run route starts the run.
StartRun(s) ==
    /\ session[s].at = "run"
    /\ \E n \in Numbers :
          /\ NextNumber(session[s].routes, n)
          /\ runs' = runs \cup {[run |-> Run(session[s].routes, n), by |-> s]}
          /\ session' = [session EXCEPT ![s].at = "own", ![s].number = n]
    /\ UNCHANGED <<project, cancelled, finished, owners, stoppable, replaced>>

\* `run`: the run route refuses what it was sent.
RunRefused(s) ==
    /\ session[s].at = "run"
    /\ Answers(s, session[s].runs)
    /\ UNCHANGED <<project, runs, cancelled, finished, owners, stoppable, replaced>>

\* `run`: its owner is recorded, and the session follows it.  Records are kept by
\* run number, so this one may take the place of one of a run in other routes: in
\* older ones, or in newer ones when this session was slow.
Own(s) ==
    LET x == Run(session[s].routes, session[s].number)
    IN  /\ session[s].at = "own"
        /\ owners' = [n \in Numbers |->
              IF n = x.number THEN Owner(s, x.routes)
              ELSE IF owners[n] # NoOwner /\ ~Alive(owners[n].routes) THEN NoOwner ELSE owners[n]]
        /\ replaced' = replaced \cup
              {y \in stoppable \ cancelled :
                  /\ y.number = x.number /\ y.routes # x.routes
                  /\ owners[y.number].routes = y.routes}
        /\ Answers(s, session[s].runs \cup {x})
        /\ UNCHANGED <<project, runs, cancelled, finished, stoppable>>

\* Mutant: the device is not compared with the owner's.
OwnsByNumber(s, g, n) == owners[n].routes # 0
Owns(s, g, n) == owners[n] = Owner(s, g)

\* `follow`: a run the routes know and this device started, unless a run of that
\* number is followed already.
Follow(s) ==
    LET g == session[s].routes
        n == session[s].number
    IN  /\ session[s].at = "follow"
        /\ Answers(s, session[s].runs \cup
              (IF /\ Known(Run(g, n)) /\ Owns(s, g, n)
                  /\ \A x \in session[s].runs : x.number # n
               THEN {Run(g, n)} ELSE {}))
        /\ UNCHANGED <<project, runs, cancelled, finished, owners, stoppable, replaced>>

\* `answer`: refused if the routes know the run and another device started it.
AnswerCheck(s) ==
    LET g == session[s].routes
        n == session[s].number
    IN  /\ session[s].at = "answer"
        /\ IF Known(Run(g, n)) /\ ~Owns(s, g, n)
           THEN Answers(s, session[s].runs) ELSE Goes(s, "deliver")
        /\ UNCHANGED <<project, runs, cancelled, finished, owners, stoppable, replaced>>

\* `answer`: the answer route; a run it does not know changes nothing.
Delivers(s) == Run(session[s].routes, session[s].number)
AnswerDeliver(s) ==
    /\ session[s].at = "deliver"
    /\ cancelled' \in {cancelled} \cup {cancelled \cup {x} : x \in {y \in {Delivers(s)} : Known(y)}}
    /\ Answers(s, session[s].runs)
    /\ UNCHANGED <<project, runs, finished, owners, stoppable, replaced>>

\* `projects`, which looks at what is shared.
List(s) ==
    /\ session[s].at = "ready"
    /\ session' = [session EXCEPT ![s].at = "current", ![s].back = "forward"]
    /\ UNCHANGED <<project, runs, cancelled, finished, owners, stoppable, replaced>>

-----------------------------------------------------------------------------
(* Looking at what is shared. *)

\* Where a session goes when current_projects has returned: forget_unshared is not
\* done yet, a reply is.
Forgetting(s) == session[s].back # "forward"
Listed(s) == IF Forgetting(s) THEN "end" ELSE "forward"

\* Projects::current.
Current(s) ==
    /\ session[s].at = "current"
    /\ IF open # 0 /\ ~shared
       THEN /\ open' = 0 /\ closings' = closings + 1
            /\ stoppable' = stoppable \cup
                  {Run(open, n) : n \in {m \in Numbers : owners[m].routes = open}}
            /\ session' = [session EXCEPT ![s].at = "cancel", ![s].closed = open,
                                          ![s].lists = Forgetting(s) /\ shared]
       ELSE /\ session' = [session EXCEPT ![s].at = Listed(s),
                                          ![s].lists = Forgetting(s) /\ shared]
            /\ UNCHANGED <<open, closings, stoppable>>
    /\ UNCHANGED <<shared, changes, opened, runs, cancelled, finished, owners, replaced>>

\* Mutant: only the runs this session follows are cancelled.
CancelsOwn(s) == {n \in Numbers : /\ owners[n].routes = session[s].closed
                                  /\ Run(session[s].closed, n) \in session[s].runs}
Cancels(s) == {n \in Numbers : owners[n].routes = session[s].closed}

\* Shared::cancel_runs_in.
CancelRuns(s) ==
    /\ session[s].at = "cancel"
    /\ cancelled' = cancelled \cup {Run(session[s].closed, n) : n \in Cancels(s)}
    /\ owners' = [n \in Numbers |->
          IF n \in Cancels(s) \/ ~Alive(owners[n].routes) THEN NoOwner ELSE owners[n]]
    /\ session' = [session EXCEPT ![s].at = Listed(s), ![s].closed = 0]
    /\ UNCHANGED <<project, runs, finished, stoppable, replaced>>

-----------------------------------------------------------------------------
(* Between requests. *)

\* Nothing is asked, and the session goes on to forward_runs.
Wake(s) ==
    /\ session[s].at = "ready"
    /\ Goes(s, "forward")
    /\ UNCHANGED <<project, runs, cancelled, finished, owners, stoppable, replaced>>

\* forward_runs: no routes were closed since this session last looked.
Forward(s) ==
    /\ session[s].at = "forward" /\ closings = session[s].seen
    /\ Goes(s, "send")
    /\ UNCHANGED <<project, runs, cancelled, finished, owners, stoppable, replaced>>

\* forget_unshared reads the closings before it looks at what is shared.
Forget(s, back) ==
    /\ session' = [session EXCEPT ![s].at = "current", ![s].back = back, ![s].next = closings]
    /\ UNCHANGED <<project, runs, cancelled, finished, owners, stoppable, replaced>>

\* forward_runs: some were.
ForgetClosed(s) == session[s].at = "forward" /\ closings # session[s].seen /\ Forget(s, "send")

\* Mutant: a session that follows nothing does not look.
RecheckFollowing(s) == session[s].at = "send" /\ session[s].runs # {} /\ Forget(s, "ready")
\* serve: once every second.
Recheck(s) == session[s].at = "send" /\ Forget(s, "ready")

\* forward_runs has sent what the runs said; a second has not passed.
Rest(s) ==
    /\ session[s].at = "send"
    /\ Goes(s, "ready")
    /\ UNCHANGED <<project, runs, cancelled, finished, owners, stoppable, replaced>>

\* Mutant: a project that is shared keeps its runs, whatever routes they are in.
StaysListed(s, x) == session[s].lists
Stays(s, x) == session[s].lists /\ open = x.routes

\* end_unshared_runs: the device is told that these were stopped.
Gone(s) == {x \in session[s].runs : ~Stays(s, x)}
EndUnshared(s) ==
    /\ session[s].at = "end"
    /\ session' = [session EXCEPT ![s].at = session[s].back, ![s].back = "forward",
          ![s].lists = FALSE, ![s].seen = session[s].next, ![s].next = 0, ![s].runs = @ \ Gone(s)]
    /\ UNCHANGED <<project, runs, cancelled, finished, owners, stoppable, replaced>>

\* The end of a run that is over is sent, and it is followed no more.
RunEnds(s, x) ==
    /\ session[s].at = "send"
    /\ x \in session[s].runs \cap finished
    /\ session' = [session EXCEPT ![s].runs = @ \ {x}]
    /\ UNCHANGED <<project, runs, cancelled, finished, owners, stoppable, replaced>>

\* The connection ends, and the device connects again.
Reconnect(s) ==
    /\ session[s].at = "ready"
    /\ session' = [session EXCEPT ![s] = NewSession]
    /\ UNCHANGED <<project, runs, cancelled, finished, owners, stoppable, replaced>>

-----------------------------------------------------------------------------
Serve(s) ==
    \/ StartRun(s) \/ RunRefused(s) \/ Own(s) \/ Follow(s) \/ AnswerCheck(s) \/ AnswerDeliver(s)
    \/ Current(s) \/ CancelRuns(s)
    \/ Wake(s) \/ Forward(s) \/ ForgetClosed(s) \/ Recheck(s) \/ Rest(s) \/ EndUnshared(s)

Asks(s) ==
    \/ Request(s, "run", 0)
    \/ \E op \in {"follow", "answer"}, n \in Numbers : Request(s, op, n)
    \/ List(s)

Next ==
    \/ Reshare \/ \E x \in Runs : RunFinishes(x)
    \/ \E s \in Sessions :
          Serve(s) \/ Asks(s) \/ Reconnect(s) \/ \E x \in Runs : RunEnds(s, x)

Spec == Init /\ [][Next]_vars

\* The sessions' threads run: each goes round its loop, answering a request or not,
\* and looks at what is shared once every second (RECHECK) of going round.
FairSpec == Spec /\ \A s \in Sessions : WF_vars(Serve(s)) /\ SF_vars(Recheck(s))

-----------------------------------------------------------------------------
(* Properties. *)

\* A session follows, and an owner's record names, only runs its own device
\* started, although run numbers are easy to guess and start again in new routes:
\* no device is sent what another's run says (Session::owns, Session::follow).
OnlyOwnRuns ==
    /\ \A s \in Sessions : \A x \in session[s].runs : StartedBy(s, x)
    /\ \A n \in Numbers : owners[n] # NoOwner => StartedBy(owners[n].by, Run(owners[n].routes, n))

\* A run that had its owner recorded when its routes were closed is cancelled, or
\* is about to be by the session that closed them, whoever's it is: "runs devices
\* started in a project that is no longer shared are cancelled" (current_projects).
\* Except when its record was replaced between the closing and the cancelling, by
\* that of a run of the same number in routes of another opening (Session::own).
CancelledOrReplaced ==
    \A x \in stoppable :
        \/ x \in cancelled
        \/ \E s \in Sessions : session[s].closed = x.routes
        \/ x \in replaced

\* A session that follows a run in routes that were closed has not yet taken note
\* of that closing, so it sends nothing more of the run before it ends it
\* (Session::forward_runs: "nothing more of it may pass").
ClosingNoticed ==
    \A s \in Sessions : \A x \in session[s].runs : open # x.routes => session[s].seen # closings

\* The end of such runs is told: sooner or later a session follows no run in closed
\* routes, whatever its device asks and whatever is opened and closed meanwhile.
FollowsClosed(s) == \E x \in session[s].runs : open # x.routes
ClosingTold == \A s \in Sessions : FollowsClosed(s) ~> ~FollowsClosed(s)

\* A project that stays unshared is closed while any device is connected, so that
\* its runs are stopped although nobody asks for anything (Session::serve).
UnsharedCloses == ~shared /\ open # 0 ~> shared \/ open = 0

\* An answer reaches only a run of the device that gave it: "an answer to a run
\* this device did not start is refused before it reaches the run".
OnlyOwnAnswers ==
    [][\A s \in Sessions :
          AnswerDeliver(s) /\ Known(Delivers(s)) => StartedBy(s, Delivers(s))]_vars
=============================================================================
