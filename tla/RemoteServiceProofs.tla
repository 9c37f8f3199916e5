------------------------ MODULE RemoteServiceProofs ------------------------
(***************************************************************************)
(* Proofs about the remote service: RemoteRuns, for any sessions, any      *)
(* number of runs and of routes opened, and however often sharing is       *)
(* changed; and Slots, for any finite set of connections, any addresses    *)
(* and any limits.  The two share no state.                                *)
(***************************************************************************)
EXTENDS RemoteRuns, Slots, FiniteSetTheorems, TLAPS

-----------------------------------------------------------------------------
(* RemoteRuns.                                                             *)
(*                                                                         *)
(* Run numbers start again with every routes, so what a number stands for  *)
(* has to be carried from the start of a run to its owner's record         *)
(* (Started); and between closing routes and cancelling their runs the     *)
(* record has to survive what other sessions do to the same number         *)
(* (StillOwned), or be one that Own put another in the place of.           *)

\* Where a session is, and what it holds there.
Placed ==
    \A s \in Sessions :
        /\ session[s].at \in {"run", "own", "follow", "answer", "deliver"}
              => session[s].routes \in Routes
        /\ session[s].at = "own" => session[s].number \in Numbers
        /\ session[s].at \in {"follow", "answer", "deliver"} => session[s].number \in Numbers
        /\ (session[s].at = "cancel") <=> (session[s].closed # 0)

\* A run whose owner is not recorded yet was started by the session at it.
Started ==
    \A s \in Sessions :
        session[s].at = "own" => StartedBy(s, Run(session[s].routes, session[s].number))

StillOwned ==
    \A x \in stoppable :
        \/ x \in cancelled
        \/ /\ \E s \in Sessions : session[s].closed = x.routes
           /\ owners[x.number].routes = x.routes
        \/ x \in replaced

Inv == TypeOK /\ Placed /\ Started /\ StillOwned /\ OnlyOwnRuns

Sess == [at : Places, routes : 0..MaxRoutes, number : 0..MaxRuns, closed : 0..MaxRoutes,
         lists : BOOLEAN, back : {"forward", "send", "ready"}, next : Nat, seen : Nat,
         runs : SUBSET Runs]

\* What one session does, when it starts no run and touches no owner's record:
\* what it follows afterwards it followed before, or owns.
LEMMA SessionStep ==
    ASSUME Inv, NEW s \in Sessions, NEW r \in Sess,
           session' = [session EXCEPT ![s] = r],
           r.at \in {"run", "own", "follow", "answer", "deliver"} => r.routes \in Routes,
           r.at \in {"own", "follow", "answer", "deliver"} => r.number \in Numbers,
           (r.at = "cancel") <=> (r.closed # 0),
           r.at # "own",
           \A x \in r.runs : x \in session[s].runs \/ StartedBy(s, x),
           session[s].closed # 0 => r.closed = session[s].closed,
           UNCHANGED <<runs, finished, owners, stoppable, replaced>>,
           cancelled \subseteq cancelled', cancelled' \subseteq Runs,
           shared' \in BOOLEAN, changes' \in 0..MaxChanges, open' \in 0..MaxRoutes,
           opened' \in 0..MaxRoutes, closings' \in Nat
    PROVE  Inv'
<1>1. session \in [Sessions -> Sess]
  BY DEF Inv, TypeOK, Sess
<1>2. session'[s] = r /\ (\A t \in Sessions : t # s => session'[t] = session[t])
      /\ session' \in [Sessions -> Sess]
  BY <1>1
<1>3. TypeOK'
  BY <1>2 DEF Inv, TypeOK, Sess
<1>4. Placed'
  BY <1>2 DEF Inv, Placed
<1>5. Started'
  BY <1>2 DEF Inv, Started, StartedBy
<1>7. \A t \in Sessions : session[t].closed # 0 => session'[t].closed = session[t].closed
  BY <1>2
<1>8. \A x \in stoppable : x.routes # 0
  BY DEF Inv, TypeOK, Runs, Routes
<1>9. StillOwned'
  BY <1>7, <1>8 DEF Inv, StillOwned
<1>10. OnlyOwnRuns'
  BY <1>2 DEF Inv, OnlyOwnRuns, StartedBy
<1>11. QED
  BY <1>3, <1>4, <1>5, <1>9, <1>10 DEF Inv

LEMMA InvInit == Init => Inv
<1> SUFFICES ASSUME Init PROVE Inv
  OBVIOUS
<1>1. \A s \in Sessions : session[s] = NewSession
  BY DEF Init
<1>2. /\ NewSession \in Sess /\ NewSession.at = "ready" /\ NewSession.closed = 0
      /\ NewSession.runs = {}
  BY RemoteRunsAssumption DEF Init, NewSession, Sess, Places
<1>3. TypeOK
  BY <1>2, RemoteRunsAssumption DEF Init, TypeOK, Sess
<1>4. Placed /\ Started /\ StillOwned /\ OnlyOwnRuns
  BY <1>1, <1>2 DEF Init, Placed, Started, StillOwned, OnlyOwnRuns
<1>5. QED
  BY <1>3, <1>4 DEF Inv

\* A session answers its request, or goes where its place leads.
LEMMA AnswersStep ==
    ASSUME Inv, NEW s \in Sessions, NEW following, Answers(s, following),
           session[s].at # "cancel",
           \A x \in following : x \in session[s].runs \/ (x \in Runs /\ StartedBy(s, x)),
           UNCHANGED <<shared, changes, open, opened, closings, runs, finished, owners,
                       stoppable, replaced>>,
           cancelled \subseteq cancelled', cancelled' \subseteq Runs
    PROVE  Inv'
<1> DEFINE r == [session[s] EXCEPT !.at = "forward", !.routes = 0, !.number = 0,
                                   !.runs = following]
<1>1. session[s] \in Sess /\ session \in [Sessions -> Sess]
  BY DEF Inv, TypeOK, Sess
<1>2. following \subseteq Runs
  BY <1>1 DEF Sess
<1>3. /\ r \in Sess /\ r.at = "forward" /\ r.closed = session[s].closed /\ r.runs = following
  <2>1. "forward" \in Places /\ 0 \in 0..MaxRoutes /\ 0 \in 0..MaxRuns /\ following \in SUBSET Runs
    BY <1>2, RemoteRunsAssumption DEF Places
  <2>2. QED
    BY <1>1, <2>1 DEF Sess
<1>4. session' = [session EXCEPT ![s] = r]
  BY <1>1 DEF Answers
<1>5. session[s].closed = 0
  BY DEF Inv, Placed
<1> HIDE DEF r
<1>6. QED
  BY <1>3, <1>4, <1>5, SessionStep DEF Inv, TypeOK

LEMMA GoesStep ==
    ASSUME Inv, NEW s \in Sessions,
           NEW at \in {"forward", "send", "ready", "deliver"}, Goes(s, at),
           session[s].at # "cancel", at = "deliver" => session[s].at = "answer",
           UNCHANGED <<shared, changes, open, opened, closings, runs, cancelled, finished, owners,
                       stoppable, replaced>>
    PROVE  Inv'
<1> DEFINE r == [session[s] EXCEPT !.at = at]
<1>1. session[s] \in Sess /\ session \in [Sessions -> Sess]
  BY DEF Inv, TypeOK, Sess
<1>2. /\ r \in Sess /\ r.at = at /\ r.closed = session[s].closed /\ r.runs = session[s].runs
      /\ r.routes = session[s].routes /\ r.number = session[s].number
  BY <1>1 DEF Sess, Places
<1>3. session' = [session EXCEPT ![s] = r]
  BY <1>1 DEF Goes
<1>4. session[s].closed = 0
  BY DEF Inv, Placed
<1>5. /\ r.at \in {"run", "own", "follow", "answer", "deliver"} => r.routes \in Routes
      /\ r.at \in {"own", "follow", "answer", "deliver"} => r.number \in Numbers
  BY <1>2 DEF Inv, Placed
<1> HIDE DEF r
<1>6. QED
  BY <1>2, <1>3, <1>4, <1>5, SessionStep DEF Inv, TypeOK

LEMMA StillStep ==
    ASSUME Inv, UNCHANGED <<session, runs, cancelled, owners, stoppable, open, opened, closings,
                     replaced>>,
           shared' \in BOOLEAN, changes' \in 0..MaxChanges, finished' \subseteq Runs
    PROVE  Inv'
<1>1. TypeOK'
  BY DEF Inv, TypeOK
<1>2. Placed' /\ Started' /\ StillOwned' /\ OnlyOwnRuns'
  BY DEF Inv, Placed, Started, StillOwned, OnlyOwnRuns, StartedBy
<1>3. QED
  BY <1>1, <1>2 DEF Inv

LEMMA EnvironmentSteps ==
    ASSUME Inv, Reshare \/ \E x \in Runs : RunFinishes(x)
    PROVE  Inv'
<1>1. CASE Reshare
  BY <1>1, StillStep, RemoteRunsAssumption DEF Reshare, Inv, TypeOK
<1>2. ASSUME NEW x \in Runs, RunFinishes(x) PROVE Inv'
  BY <1>2, StillStep DEF RunFinishes, project, Inv, TypeOK
<1>3. QED
  BY <1>1, <1>2

LEMMA RequestStep ==
    ASSUME Inv, NEW s \in Sessions, NEW op \in {"run", "follow", "answer"},
           NEW n \in 0..MaxRuns, op # "run" => n \in Numbers, Request(s, op, n)
    PROVE  Inv'
<1>1. session[s].at = "ready"
      /\ UNCHANGED <<shared, changes, closings, runs, cancelled, finished, owners,
                     stoppable, replaced>>
  BY DEF Request
<1>2. CASE ~shared
  BY <1>1, <1>2, GoesStep DEF Request
<1>3. CASE shared
  <2> DEFINE r == [session[s] EXCEPT !.at = op, !.routes = open', !.number = n]
  <2>1. open' \in Routes /\ opened' \in 0..MaxRoutes
    BY <1>1, <1>3, RemoteRunsAssumption DEF Request, Inv, TypeOK, Routes
  <2>2. session[s] \in Sess /\ session \in [Sessions -> Sess]
    BY DEF Inv, TypeOK, Sess
  <2>3. session' = [session EXCEPT ![s] = r]
    BY <1>1, <1>3, <2>2 DEF Request, Handed
  <2>4. op \in Places /\ open' \in 0..MaxRoutes
    BY <2>1, RemoteRunsAssumption DEF Places, Routes
  <2>5. /\ r \in Sess /\ r.at = op /\ r.routes = open' /\ r.number = n
        /\ r.closed = session[s].closed /\ r.runs = session[s].runs
    BY <2>2, <2>4 DEF Sess
  <2>6. session[s].closed = 0
    BY <1>1 DEF Inv, Placed
  <2> HIDE DEF r
  <2>7. QED
    BY <1>1, <2>1, <2>3, <2>4, <2>5, <2>6, SessionStep DEF Inv, TypeOK
<1>4. QED
  BY <1>2, <1>3

LEMMA StartRunStep ==
    ASSUME Inv, NEW s \in Sessions, StartRun(s)
    PROVE  Inv'
<1>1. PICK n \in Numbers :
        /\ session[s].at = "run"
        /\ runs' = runs \cup {[run |-> Run(session[s].routes, n), by |-> s]}
        /\ session' = [session EXCEPT ![s].at = "own", ![s].number = n]
        /\ UNCHANGED <<shared, changes, open, opened, closings, cancelled, finished, owners,
                       stoppable, replaced>>
  BY DEF StartRun, project
<1> DEFINE r == [session[s] EXCEPT !.at = "own", !.number = n]
<1>2. session[s] \in Sess /\ session \in [Sessions -> Sess]
  BY DEF Inv, TypeOK, Sess
<1>3. "own" \in Places /\ n \in 0..MaxRuns
  BY RemoteRunsAssumption DEF Places, Numbers
<1>4. /\ r \in Sess /\ r.at = "own" /\ r.routes = session[s].routes /\ r.number = n
      /\ r.closed = session[s].closed /\ r.runs = session[s].runs
  BY <1>2, <1>3 DEF Sess
<1>5. session' = [session EXCEPT ![s] = r]
  BY <1>1, <1>2
<1> HIDE DEF r
<1>6. session'[s] = r /\ (\A t \in Sessions : t # s => session'[t] = session[t])
      /\ session' \in [Sessions -> Sess]
  BY <1>2, <1>4, <1>5
<1>7. session[s].routes \in Routes
  BY <1>1 DEF Inv, Placed
<1>8. TypeOK'
  <2>1. Run(session[s].routes, n) \in Runs
    BY <1>7 DEF Run, Runs
  <2>2. runs' \subseteq [run : Runs, by : Sessions]
    BY <1>1, <2>1 DEF Inv, TypeOK
  <2>3. QED
    BY <1>1, <1>6, <2>2 DEF Inv, TypeOK, Sess
<1>9. Placed'
  <2>1. session[s].closed = 0
    BY <1>1 DEF Inv, Placed
  <2>2. QED
    BY <1>4, <1>6, <1>7, <2>1 DEF Inv, Placed
<1>10. Started' /\ OnlyOwnRuns'
  BY <1>1, <1>4, <1>6 DEF Inv, Started, OnlyOwnRuns, StartedBy
<1>11. StillOwned'
  <2>1. \A t \in Sessions : session'[t].closed = session[t].closed
    BY <1>4, <1>6
  <2>2. QED
    BY <1>1, <2>1 DEF Inv, StillOwned
<1>12. QED
  BY <1>8, <1>9, <1>10, <1>11 DEF Inv

LEMMA OwnStep ==
    ASSUME Inv, NEW s \in Sessions, Own(s)
    PROVE  Inv'
<1> DEFINE g == session[s].routes
<1> DEFINE m == session[s].number
<1> DEFINE x == Run(g, m)
<1>1. /\ session[s].at = "own" /\ g \in Routes /\ m \in Numbers /\ StartedBy(s, x)
      /\ session[s].closed = 0
  BY DEF Own, Inv, Placed, Started
<1>2. x.routes = g /\ x.number = m /\ x \in Runs
  BY <1>1 DEF Run, Runs
<1>3. /\ Answers(s, session[s].runs \cup {x})
      /\ UNCHANGED <<shared, changes, open, opened, closings, runs, cancelled, finished, stoppable>>
  BY DEF Own, project
<1>3a. replaced' = replaced \cup
          {y \in stoppable \ cancelled : /\ y.number = m /\ y.routes # g
                                         /\ owners[y.number].routes = y.routes}
  BY <1>2 DEF Own
<1>4. owners' = [n \in Numbers |->
              IF n = m THEN Owner(s, g)
              ELSE IF owners[n] # NoOwner /\ ~Alive(owners[n].routes) THEN NoOwner ELSE owners[n]]
  BY <1>2 DEF Own
<1>5. owners' \in [Numbers -> {NoOwner} \cup [by : Sessions, routes : Routes]]
  BY <1>1, <1>4 DEF Owner, Inv, TypeOK
<1> DEFINE r == [session[s] EXCEPT !.at = "forward", !.routes = 0, !.number = 0,
                                   !.runs = session[s].runs \cup {x}]
<1>6. session[s] \in Sess /\ session \in [Sessions -> Sess]
  BY DEF Inv, TypeOK, Sess
<1>7. "forward" \in Places /\ 0 \in 0..MaxRoutes /\ 0 \in 0..MaxRuns
      /\ session[s].runs \cup {x} \in SUBSET Runs
  BY <1>2, <1>6, RemoteRunsAssumption DEF Places, Sess
<1>8. /\ r \in Sess /\ r.at = "forward" /\ r.closed = 0 /\ r.runs = session[s].runs \cup {x}
  BY <1>1, <1>6, <1>7 DEF Sess
<1>9. session' = [session EXCEPT ![s] = r]
  BY <1>3, <1>6 DEF Answers
<1> HIDE DEF r
<1>10. session'[s] = r /\ (\A t \in Sessions : t # s => session'[t] = session[t])
      /\ session' \in [Sessions -> Sess]
  BY <1>6, <1>8, <1>9
<1>11. TypeOK'
  BY <1>3, <1>5, <1>10, <1>3a DEF Inv, TypeOK, Sess
<1>12. Placed' /\ Started'
  BY <1>3, <1>8, <1>10 DEF Inv, Placed, Started, StartedBy
<1>13. StillOwned'
  <2>1. ASSUME NEW y \in stoppable, NEW t \in Sessions, y \notin cancelled,
               session[t].closed = y.routes, owners[y.number].routes = y.routes
        PROVE  \/ session'[t].closed = y.routes /\ owners'[y.number].routes = y.routes
               \/ y \in replaced'
    <3>1. y \in Runs /\ y.routes \in Routes /\ y.number \in Numbers /\ y.routes # 0
      BY DEF Inv, TypeOK, Runs, Routes
    <3>2. t # s /\ session'[t].closed = y.routes
      BY <1>1, <1>10, <2>1, <3>1
    <3>3. Alive(y.routes)
      BY <2>1 DEF Alive
    <3>4. CASE y.number # m
      BY <1>4, <2>1, <3>1, <3>2, <3>3, <3>4
    <3>5. CASE y.number = m /\ g = y.routes
      BY <1>4, <3>1, <3>2, <3>5 DEF Owner
    <3>6. CASE y.number = m /\ g # y.routes
      BY <1>3a, <2>1, <3>6
    <3>7. QED
      BY <3>4, <3>5, <3>6
  <2>2. QED
    BY <1>3, <1>3a, <2>1 DEF Inv, StillOwned
<1>14. OnlyOwnRuns'
  <2>1. \A t \in Sessions : \A y \in session'[t].runs : StartedBy(t, y)'
    BY <1>1, <1>3, <1>8, <1>10 DEF Inv, OnlyOwnRuns, StartedBy
  <2>2. ASSUME NEW n \in Numbers, owners'[n] # NoOwner
        PROVE  StartedBy(owners'[n].by, Run(owners'[n].routes, n))
    <3>1. CASE n = m
      BY <1>1, <1>4, <3>1 DEF Owner
    <3>2. CASE n # m
      BY <1>4, <2>2, <3>2 DEF Inv, OnlyOwnRuns
    <3>3. QED
      BY <3>1, <3>2
  <2>3. QED
    BY <1>3, <2>1, <2>2 DEF OnlyOwnRuns, StartedBy
<1>15. QED
  BY <1>11, <1>12, <1>13, <1>14 DEF Inv

LEMMA AnsweringSteps ==
    ASSUME Inv, NEW s \in Sessions,
           RunRefused(s) \/ Follow(s) \/ AnswerCheck(s) \/ AnswerDeliver(s)
    PROVE  Inv'
<1> DEFINE g == session[s].routes
<1> DEFINE n == session[s].number
<1>1. session[s].at # "cancel"
      /\ UNCHANGED <<shared, changes, open, opened, closings, runs, finished, owners,
                     stoppable, replaced>>
  BY DEF RunRefused, Follow, AnswerCheck, AnswerDeliver, project
<1>2. CASE RunRefused(s)
  BY <1>1, <1>2, AnswersStep DEF RunRefused, Inv, TypeOK
<1>3. CASE Follow(s)
  <2>1. g \in Routes /\ n \in Numbers /\ Run(g, n) \in Runs
    BY <1>3 DEF Follow, Inv, Placed, Run, Runs
  <2>2. Owns(s, g, n) => StartedBy(s, Run(g, n))
    <3>1. ASSUME owners[n] = Owner(s, g) PROVE owners[n] # NoOwner
      <4>1. owners[n].routes = g /\ NoOwner.routes = 0
        BY <3>1 DEF Owner, NoOwner
      <4>2. QED
        BY <2>1, <4>1 DEF Routes
    <3>2. QED
      BY <2>1, <3>1 DEF Owns, Owner, Inv, OnlyOwnRuns
  <2> DEFINE more == IF /\ Known(Run(g, n)) /\ Owns(s, g, n)
                        /\ \A x \in session[s].runs : x.number # n
                     THEN {Run(g, n)} ELSE {}
  <2>3. Answers(s, session[s].runs \cup more) /\ UNCHANGED cancelled
    BY <1>3 DEF Follow
  <2>4. \A x \in more : x \in Runs /\ StartedBy(s, x)
    BY <2>1, <2>2
  <2> HIDE DEF more
  <2>5. QED
    BY <1>1, <2>3, <2>4, AnswersStep DEF Inv, TypeOK
<1>4. CASE AnswerCheck(s)
  <2>1. CASE Answers(s, session[s].runs)
    BY <1>1, <1>4, <2>1, AnswersStep DEF AnswerCheck, Inv, TypeOK
  <2>2. CASE Goes(s, "deliver")
    BY <1>1, <1>4, <2>2, GoesStep DEF AnswerCheck
  <2>3. QED
    BY <1>4, <2>1, <2>2 DEF AnswerCheck
<1>5. CASE AnswerDeliver(s)
  <2>1. Delivers(s) \in Runs
    BY <1>5 DEF AnswerDeliver, Inv, Placed, Delivers, Run, Runs
  <2>2. cancelled \subseteq cancelled' /\ cancelled' \subseteq Runs
    BY <1>5, <2>1 DEF AnswerDeliver, Inv, TypeOK
  <2>3. QED
    BY <1>1, <1>5, <2>2, AnswersStep DEF AnswerDeliver
<1>6. QED
  BY <1>2, <1>3, <1>4, <1>5

LEMMA GoingSteps ==
    ASSUME Inv, NEW s \in Sessions, Wake(s) \/ Forward(s) \/ Rest(s)
    PROVE  Inv'
BY GoesStep DEF Wake, Forward, Rest, project

\* Steps that change what the session knows of what is shared, or follow less.
LEMMA LookingSteps ==
    ASSUME Inv, NEW s \in Sessions,
           \/ List(s) \/ ForgetClosed(s) \/ Recheck(s) \/ EndUnshared(s) \/ Reconnect(s)
           \/ \E x \in Runs : RunEnds(s, x)
    PROVE  Inv'
<1>1. session[s] \in Sess /\ session \in [Sessions -> Sess] /\ closings \in Nat
  BY DEF Inv, TypeOK, Sess
<1>2. session[s].at # "cancel" /\ session[s].closed = 0
      /\ UNCHANGED <<shared, changes, open, opened, closings, runs, cancelled, finished, owners,
                     stoppable, replaced>>
  BY DEF List, ForgetClosed, Recheck, Forget, EndUnshared, Reconnect, RunEnds, project, Inv, Placed
<1>3. \E r \in Sess :
        /\ session' = [session EXCEPT ![s] = r]
        /\ r.at \notin {"run", "own", "follow", "answer", "deliver", "cancel"}
        /\ r.closed = 0 /\ r.runs \subseteq session[s].runs
  <2>1. CASE List(s)
    <3> DEFINE r == [session[s] EXCEPT !.at = "current", !.back = "forward"]
    <3>1. r \in Sess /\ r.at = "current" /\ r.closed = 0 /\ r.runs = session[s].runs
      BY <1>1, <1>2 DEF Sess, Places
    <3>2. session' = [session EXCEPT ![s] = r]
      BY <1>1, <2>1 DEF List
    <3>3. QED
      BY <3>1, <3>2
  <2>2. ASSUME NEW back \in {"send", "ready"}, Forget(s, back)
        PROVE  \E r \in Sess :
                  /\ session' = [session EXCEPT ![s] = r]
                  /\ r.at \notin {"run", "own", "follow", "answer", "deliver", "cancel"}
                  /\ r.closed = 0 /\ r.runs \subseteq session[s].runs
    <3> DEFINE r == [session[s] EXCEPT !.at = "current", !.back = back, !.next = closings]
    <3>1. r \in Sess /\ r.at = "current" /\ r.closed = 0 /\ r.runs = session[s].runs
      BY <1>1, <1>2 DEF Sess, Places
    <3>2. session' = [session EXCEPT ![s] = r]
      BY <1>1, <2>2 DEF Forget
    <3>3. QED
      BY <3>1, <3>2
  <2>3. CASE EndUnshared(s)
    <3> DEFINE r == [session[s] EXCEPT !.at = session[s].back, !.back = "forward", !.lists = FALSE,
                         !.seen = session[s].next, !.next = 0, !.runs = session[s].runs \ Gone(s)]
    <3>1. session[s].back \in {"forward", "send", "ready"} /\ session[s].next \in Nat
          /\ session[s].runs \ Gone(s) \in SUBSET Runs
      BY <1>1 DEF Sess
    <3>2. r \in Sess /\ r.at = session[s].back /\ r.closed = 0
          /\ r.runs = session[s].runs \ Gone(s)
      BY <1>1, <1>2, <3>1 DEF Sess, Places
    <3>3. session' = [session EXCEPT ![s] = r]
      BY <1>1, <2>3 DEF EndUnshared
    <3> HIDE DEF r
    <3>4. QED
      BY <3>1, <3>2, <3>3
  <2>4. CASE Reconnect(s)
    <3>1. NewSession \in Sess /\ NewSession.at = "ready" /\ NewSession.closed = 0
          /\ NewSession.runs = {}
      BY <1>1, RemoteRunsAssumption DEF NewSession, Sess, Places
    <3>2. QED
      BY <2>4, <3>1 DEF Reconnect
  <2>5. ASSUME NEW x \in Runs, RunEnds(s, x)
        PROVE  \E r \in Sess :
                  /\ session' = [session EXCEPT ![s] = r]
                  /\ r.at \notin {"run", "own", "follow", "answer", "deliver", "cancel"}
                  /\ r.closed = 0 /\ r.runs \subseteq session[s].runs
    <3> DEFINE r == [session[s] EXCEPT !.runs = session[s].runs \ {x}]
    <3>1. r \in Sess /\ r.at = "send" /\ r.closed = 0 /\ r.runs = session[s].runs \ {x}
      BY <1>1, <1>2, <2>5 DEF RunEnds, Sess
    <3>2. session' = [session EXCEPT ![s] = r]
      BY <1>1, <2>5 DEF RunEnds
    <3>3. QED
      BY <3>1, <3>2
  <2>6. QED
    BY <2>1, <2>2, <2>3, <2>4, <2>5 DEF ForgetClosed, Recheck
<1>4. QED
  BY <1>2, <1>3, SessionStep DEF Inv, TypeOK

LEMMA CurrentStep ==
    ASSUME Inv, NEW s \in Sessions, Current(s)
    PROVE  Inv'
<1>1. session[s] \in Sess /\ session \in [Sessions -> Sess]
  BY DEF Inv, TypeOK, Sess
<1>2. session[s].at = "current" /\ session[s].closed = 0
      /\ UNCHANGED <<shared, changes, opened, runs, cancelled, finished, owners, replaced>>
  BY DEF Current, Inv, Placed
<1> DEFINE l == Forgetting(s) /\ shared
<1>3. l \in BOOLEAN /\ Listed(s) \in {"end", "forward"}
  BY DEF Forgetting, Listed, Inv, TypeOK
<1>4. CASE ~(open # 0 /\ ~shared)
  <2> DEFINE r == [session[s] EXCEPT !.at = Listed(s), !.lists = l]
  <2>1. Listed(s) \in Places
    BY <1>3 DEF Places
  <2> HIDE DEF l
  <2>2. r \in Sess /\ r.at = Listed(s) /\ r.closed = 0 /\ r.runs = session[s].runs
    BY <1>1, <1>2, <1>3, <2>1 DEF Sess
  <2>3. session' = [session EXCEPT ![s] = r] /\ UNCHANGED <<open, closings, stoppable>>
    BY <1>1, <1>4 DEF Current, l
  <2> HIDE DEF r
  <2>4. QED
    BY <1>2, <1>3, <2>2, <2>3, SessionStep DEF Inv, TypeOK
<1>5. CASE open # 0 /\ ~shared
  <2> DEFINE r == [session[s] EXCEPT !.at = "cancel", !.closed = open, !.lists = l]
  <2>1. open \in Routes /\ open \in 0..MaxRoutes /\ "cancel" \in Places
    BY <1>5, RemoteRunsAssumption DEF Inv, TypeOK, Routes, Places
  <2> HIDE DEF l
  <2>2. r \in Sess /\ r.at = "cancel" /\ r.closed = open /\ r.runs = session[s].runs
    BY <1>1, <1>3, <2>1 DEF Sess
  <2>3. /\ session' = [session EXCEPT ![s] = r] /\ open' = 0 /\ closings' = closings + 1
        /\ stoppable' = stoppable \cup
              {Run(open, n) : n \in {m \in Numbers : owners[m].routes = open}}
    BY <1>1, <1>5 DEF Current, l
  <2> HIDE DEF r
  <2>4. session'[s] = r /\ (\A t \in Sessions : t # s => session'[t] = session[t])
        /\ session' \in [Sessions -> Sess]
    BY <1>1, <2>2, <2>3
  <2>5. \A n \in Numbers : Run(open, n) \in Runs
    BY <2>1 DEF Run, Runs
  <2>6. TypeOK'
    BY <1>2, <2>3, <2>4, <2>5, RemoteRunsAssumption DEF Inv, TypeOK, Sess
  <2>7. Placed' /\ Started' /\ OnlyOwnRuns'
    BY <1>2, <1>5, <2>2, <2>4 DEF Inv, Placed, Started, OnlyOwnRuns, StartedBy
  <2>8. StillOwned'
    <3>2. ASSUME NEW y \in stoppable, NEW t \in Sessions, session[t].closed = y.routes
          PROVE  session'[t].closed = y.routes
      <4>1. y.routes # 0
        BY DEF Inv, TypeOK, Runs, Routes
      <4>2. QED
        BY <1>2, <2>4, <3>2, <4>1
    <3>3. ASSUME NEW n \in Numbers, owners[n].routes = open
          PROVE  session'[s].closed = Run(open, n).routes
                 /\ owners'[Run(open, n).number].routes = Run(open, n).routes
      BY <1>2, <2>2, <2>4, <3>3 DEF Run
    <3>4. QED
      BY <1>2, <2>3, <3>2, <3>3 DEF Inv, StillOwned
  <2>9. QED
    BY <2>6, <2>7, <2>8 DEF Inv
<1>6. QED
  BY <1>4, <1>5

LEMMA CancelRunsStep ==
    ASSUME Inv, NEW s \in Sessions, CancelRuns(s)
    PROVE  Inv'
<1> DEFINE c == session[s].closed
<1> DEFINE r == [session[s] EXCEPT !.at = Listed(s), !.closed = 0]
<1>1. session[s] \in Sess /\ session \in [Sessions -> Sess]
  BY DEF Inv, TypeOK, Sess
<1>2. session[s].at = "cancel" /\ c # 0 /\ c \in Routes
      /\ UNCHANGED <<shared, changes, open, opened, closings, runs, finished, stoppable, replaced>>
  BY <1>1 DEF CancelRuns, project, Inv, Placed, Sess, Routes
<1>3. /\ cancelled' = cancelled \cup {Run(c, n) : n \in Cancels(s)}
      /\ owners' = [n \in Numbers |->
            IF n \in Cancels(s) \/ ~Alive(owners[n].routes) THEN NoOwner ELSE owners[n]]
  BY DEF CancelRuns
<1>4. Listed(s) \in {"end", "forward"} /\ Listed(s) \in Places /\ 0 \in 0..MaxRoutes
  BY RemoteRunsAssumption DEF Listed, Places
<1>5. r \in Sess /\ r.at = Listed(s) /\ r.closed = 0 /\ r.runs = session[s].runs
  BY <1>1, <1>4 DEF Sess
<1>6. session' = [session EXCEPT ![s] = r]
  BY <1>1 DEF CancelRuns
<1> HIDE DEF r
<1>7. session'[s] = r /\ (\A t \in Sessions : t # s => session'[t] = session[t])
      /\ session' \in [Sessions -> Sess]
  BY <1>1, <1>5, <1>6
<1>8. \A n \in Cancels(s) : n \in Numbers /\ owners[n].routes = c /\ Run(c, n) \in Runs
  BY <1>2 DEF Cancels, Run, Runs
<1>9. TypeOK'
  <2>1. owners' \in [Numbers -> {NoOwner} \cup [by : Sessions, routes : Routes]]
    BY <1>3 DEF Inv, TypeOK
  <2>2. cancelled' \subseteq Runs
    BY <1>3, <1>8 DEF Inv, TypeOK
  <2>3. QED
    BY <1>2, <1>7, <2>1, <2>2 DEF Inv, TypeOK, Sess
<1>10. Placed' /\ Started'
  BY <1>2, <1>4, <1>5, <1>7 DEF Inv, Placed, Started, StartedBy
<1>11. OnlyOwnRuns'
  <2>1. \A n \in Numbers : owners'[n] \in {NoOwner, owners[n]}
    BY <1>3
  <2>2. QED
    BY <1>2, <1>5, <1>7, <2>1 DEF Inv, OnlyOwnRuns, StartedBy
<1>12. StillOwned'
  <2>2. ASSUME NEW y \in stoppable, NEW t \in Sessions, session[t].closed = y.routes,
               owners[y.number].routes = y.routes
        PROVE  y \in cancelled' \/ (session'[t].closed = y.routes
                                    /\ owners'[y.number].routes = y.routes)
    <3>1. y \in Runs /\ y.number \in Numbers /\ y = Run(y.routes, y.number)
      BY DEF Inv, TypeOK, Runs, Run
    <3>2. CASE y.routes = c
      <4>1. y.number \in Cancels(s)
        BY <2>2, <3>1, <3>2 DEF Cancels
      <4>2. QED
        BY <1>3, <3>1, <3>2, <4>1
    <3>3. CASE y.routes # c
      <4>1. t # s /\ y.number \notin Cancels(s) /\ Alive(y.routes)
        BY <2>2, <3>3 DEF Cancels, Alive
      <4>2. QED
        BY <1>3, <1>7, <2>2, <3>1, <4>1
    <3>4. QED
      BY <3>2, <3>3
  <2>3. QED
    BY <1>2, <1>3, <2>2 DEF Inv, StillOwned
<1>13. QED
  BY <1>9, <1>10, <1>11, <1>12 DEF Inv

LEMMA InvNext == Inv /\ [Next]_vars => Inv'
<1> SUFFICES ASSUME Inv, [Next]_vars PROVE Inv'
  OBVIOUS
<1>1. CASE Reshare \/ \E x \in Runs : RunFinishes(x)
  BY <1>1, EnvironmentSteps
<1>2. ASSUME NEW s \in Sessions, Serve(s) PROVE Inv'
  <2>1. CASE StartRun(s)
    BY <2>1, StartRunStep
  <2>2. CASE Own(s)
    BY <2>2, OwnStep
  <2>3. CASE RunRefused(s) \/ Follow(s) \/ AnswerCheck(s) \/ AnswerDeliver(s)
    BY <2>3, AnsweringSteps
  <2>4. CASE Current(s)
    BY <2>4, CurrentStep
  <2>5. CASE CancelRuns(s)
    BY <2>5, CancelRunsStep
  <2>6. CASE Wake(s) \/ Forward(s) \/ Rest(s)
    BY <2>6, GoingSteps
  <2>7. CASE ForgetClosed(s) \/ Recheck(s) \/ EndUnshared(s)
    BY <2>7, LookingSteps
  <2>8. QED
    BY <1>2, <2>1, <2>2, <2>3, <2>4, <2>5, <2>6, <2>7 DEF Serve
<1>3. ASSUME NEW s \in Sessions, Asks(s) PROVE Inv'
  <2>1. CASE List(s)
    BY <2>1, LookingSteps
  <2>2. CASE Request(s, "run", 0)
    BY <2>2, RequestStep, RemoteRunsAssumption
  <2>3. ASSUME NEW op \in {"follow", "answer"}, NEW n \in Numbers, Request(s, op, n)
        PROVE  Inv'
    BY <2>3, RequestStep, RemoteRunsAssumption DEF Numbers
  <2>4. QED
    BY <1>3, <2>1, <2>2, <2>3 DEF Asks
<1>4. ASSUME NEW s \in Sessions, Reconnect(s) \/ \E x \in Runs : RunEnds(s, x) PROVE Inv'
  BY <1>4, LookingSteps
<1>5. CASE UNCHANGED vars
  BY <1>5, StillStep DEF vars, project, Inv, TypeOK
<1>6. QED
  BY <1>1, <1>2, <1>3, <1>4, <1>5 DEF Next

\* The inductive invariant holds of every behaviour of the sessions
\* (remote/src/session/runs.rs, projects.rs).
THEOREM InvHolds == Spec => []Inv
BY InvInit, InvNext, PTL DEF Spec

\* No device is sent, or answers, what a run says that another's device started,
\* although numbers start again in new routes (Session::owns, Session::follow).
THEOREM OnlyOwnRunsHolds == Spec => []OnlyOwnRuns
<1>1. Inv => OnlyOwnRuns
  BY DEF Inv
<1>2. QED
  BY <1>1, InvHolds, PTL

\* A run with an owner's record when its routes were closed is cancelled, or is
\* about to be, or its very record was replaced by that of a run of its number in
\* another opening (Shared::current_projects, Shared::cancel_runs_in, Session::own).
THEOREM CancelledOrReplacedHolds == Spec => []CancelledOrReplaced
<1>1. Inv => CancelledOrReplaced
  BY DEF Inv, StillOwned, CancelledOrReplaced
<1>2. QED
  BY <1>1, InvHolds, PTL

-----------------------------------------------------------------------------
(* Slots.                                                                  *)
(*                                                                         *)
(* WithinLimits is not inductive: take decides by the counters, so it      *)
(* rests on CountsExact, and the limits have to be known of the counters   *)
(* (CountsWithin), which also count slots that are proved and not          *)
(* discounted yet.                                                         *)

CountsWithin ==
    /\ total <= MAX_CONNECTIONS
    /\ unauthenticated <= MAX_UNAUTHENTICATED
    /\ \A a \in Addresses : by_address[a] <= MAX_UNAUTHENTICATED_PER_ADDRESS

SlotsInv == SlotsTypeOK /\ CountsExact /\ CountsWithin

LEMMA CountedFinite ==
    /\ IsFiniteSet(Held) /\ Cardinality(Held) \in Nat
    /\ IsFiniteSet(Undiscounted) /\ Cardinality(Undiscounted) \in Nat
    /\ \A a : IsFiniteSet(From(a)) /\ Cardinality(From(a)) \in Nat
<1>1. Held \in SUBSET Connections
  BY DEF Held
<1>2. Undiscounted \in SUBSET Connections
  BY DEF Undiscounted
<1>3. \A a : From(a) \in SUBSET Connections
  BY DEF From, Undiscounted
<1>4. \A T \in SUBSET Connections : IsFiniteSet(T) /\ Cardinality(T) \in Nat
  BY SlotsAssumption, FS_Subset, FS_CardinalityType
<1>5. QED
  BY <1>1, <1>2, <1>3, <1>4

\* What adding or removing one connection does to a count.
LEMMA OneCounted ==
    ASSUME NEW S, NEW c, IsFiniteSet(S)
    PROVE  /\ c \notin S => Cardinality(S \cup {c}) = Cardinality(S) + 1
           /\ c \in S => Cardinality(S \ {c}) = Cardinality(S) - 1 /\ Cardinality(S) > 0
<1>1. c \in S => Cardinality(S) # 0
  BY FS_EmptySet
<1>2. Cardinality(S) \in Nat
  BY FS_CardinalityType
<1>3. QED
  BY <1>1, <1>2, FS_AddElement, FS_RemoveElement

\* A slot is discounted once, for the address it was taken from.
LEMMA ReleaseCounts ==
    ASSUME SlotsInv, NEW c \in Undiscounted, Release(address[c]),
           Undiscounted' = Undiscounted \ {c}, address' = address
    PROVE  /\ unauthenticated' \in Nat /\ by_address' \in [Addresses -> Nat]
           /\ unauthenticated' = Cardinality(Undiscounted')
           /\ \A a \in Addresses : by_address'[a] = Cardinality(From(a)')
           /\ unauthenticated' <= unauthenticated
           /\ \A a \in Addresses : by_address'[a] <= by_address[a]
<1> DEFINE d == address[c]
<1>1. d \in Addresses /\ c \in From(d)
  BY DEF SlotsInv, SlotsTypeOK, Undiscounted, From
<1>2. From(d)' = From(d) \ {c}
  BY DEF From
<1>3. \A a \in Addresses : a # d => From(a)' = From(a)
  BY DEF From
<1>4. Cardinality(Undiscounted') = Cardinality(Undiscounted) - 1 /\ Cardinality(Undiscounted) > 0
  BY OneCounted, CountedFinite
<1>5. Cardinality(From(d) \ {c}) = Cardinality(From(d)) - 1 /\ Cardinality(From(d)) > 0
  BY <1>1, OneCounted, CountedFinite
<1>6. \A a \in Addresses : by_address[a] \in Nat /\ by_address[a] = Cardinality(From(a))
  BY DEF SlotsInv, SlotsTypeOK, CountsExact
<1>7. by_address' = [by_address EXCEPT ![d] = Released(by_address[d])]
  BY DEF Release
<1>8. Released(by_address[d]) = by_address[d] - 1
  BY <1>1, <1>5, <1>6 DEF Released
<1>9. by_address' \in [Addresses -> Nat] /\ by_address'[d] = by_address[d] - 1
  BY <1>1, <1>5, <1>6, <1>7, <1>8 DEF SlotsInv, SlotsTypeOK
<1>10. \A a \in Addresses : a # d => by_address'[a] = by_address[a]
  BY <1>1, <1>7 DEF SlotsInv, SlotsTypeOK
<1>11. \A a \in Addresses : by_address'[a] = Cardinality(From(a)')
  BY <1>1, <1>2, <1>3, <1>5, <1>6, <1>9, <1>10
<1>12. \A a \in Addresses : by_address'[a] <= by_address[a]
  BY <1>1, <1>6, <1>9, <1>10
<1>13. unauthenticated \in Nat /\ unauthenticated = Cardinality(Undiscounted)
       /\ unauthenticated' = unauthenticated - 1
  BY DEF SlotsInv, SlotsTypeOK, CountsExact, Release
<1>14. QED
  BY <1>4, <1>9, <1>11, <1>12, <1>13

LEMMA SlotsInvInit == SlotsInit => SlotsInv
<1> SUFFICES ASSUME SlotsInit PROVE SlotsInv
  OBVIOUS
<1>1. Held = {} /\ Undiscounted = {} /\ \A a : From(a) = {}
  BY DEF SlotsInit, Held, Undiscounted, From
<1>2. QED
  BY <1>1, FS_EmptySet, SlotsAssumption DEF SlotsInit, SlotsInv, SlotsTypeOK, CountsExact, CountsWithin, SlotPlaces

LEMMA SlotsInvNext == SlotsInv /\ [SlotsNext]_slotsVars => SlotsInv'
<1> SUFFICES ASSUME SlotsInv, [SlotsNext]_slotsVars PROVE SlotsInv'
  OBVIOUS
<1> USE DEF SlotsInv
<1>1. ASSUME NEW c \in Connections, NEW a \in Addresses, Take(c, a)
      PROVE  SlotsInv'
  <2>1. SlotsTypeOK'
    BY <1>1 DEF Take, SlotsTypeOK, SlotPlaces
  <2>2. c \notin Held /\ c \notin Undiscounted /\ c \notin From(a)
    BY <1>1 DEF Take, Held, Undiscounted, From
  <2>3. Held' = Held \cup {c} /\ Undiscounted' = Undiscounted \cup {c}
    BY <1>1 DEF Take, Held, Undiscounted, SlotsTypeOK, SlotPlaces
  <2>4. From(a)' = From(a) \cup {c}
    BY <1>1, <2>3 DEF Take, From, SlotsTypeOK
  <2>5. \A b \in Addresses : b # a => From(b)' = From(b)
    BY <1>1, <2>3, <2>2 DEF Take, From, SlotsTypeOK
  <2>6. total' = Cardinality(Held') /\ unauthenticated' = Cardinality(Undiscounted')
    BY <1>1, <2>2, <2>3, OneCounted, CountedFinite DEF Take, CountsExact
  <2>7. by_address'[a] = Cardinality(From(a)')
    BY <1>1, <2>2, <2>4, OneCounted, CountedFinite DEF Take, CountsExact, SlotsTypeOK
  <2>8. \A b \in Addresses : b # a => by_address'[b] = Cardinality(From(b)')
    BY <1>1, <2>5 DEF Take, CountsExact, SlotsTypeOK
  <2>9. CountsWithin'
    BY <1>1, SlotsAssumption DEF Take, HasRoom, CountsWithin, SlotsTypeOK
  <2>10. QED
    BY <2>1, <2>6, <2>7, <2>8, <2>9 DEF CountsExact
<1>2. ASSUME NEW c \in Connections, Prove(c)
      PROVE  SlotsInv'
  <2>1. Held' = Held /\ Undiscounted' = Undiscounted
    BY <1>2 DEF Prove, Held, Undiscounted, SlotsTypeOK
  <2>2. \A a : From(a)' = From(a)
    BY <1>2, <2>1 DEF Prove, From
  <2>3. QED
    BY <1>2, <2>1, <2>2 DEF Prove, SlotsTypeOK, SlotPlaces, CountsExact, CountsWithin
<1>3. ASSUME NEW c \in Connections, Discount(c)
      PROVE  SlotsInv'
  <2>1. c \in Undiscounted /\ Undiscounted' = Undiscounted \ {c} /\ Held' = Held
    BY <1>3 DEF Discount, Undiscounted, Held, SlotsTypeOK
  <2>2. Release(address[c]) /\ address' = address /\ total' = total
        /\ place' \in [Connections -> SlotPlaces]
    BY <1>3 DEF Discount, SlotsTypeOK, SlotPlaces
  <2>3. /\ unauthenticated' \in Nat /\ by_address' \in [Addresses -> Nat]
        /\ unauthenticated' = Cardinality(Undiscounted')
        /\ \A a \in Addresses : by_address'[a] = Cardinality(From(a)')
        /\ unauthenticated' <= unauthenticated
        /\ \A a \in Addresses : by_address'[a] <= by_address[a]
    BY <2>1, <2>2, ReleaseCounts
  <2>4. SlotsTypeOK' /\ CountsExact'
    BY <2>1, <2>2, <2>3 DEF SlotsTypeOK, CountsExact
  <2>5. CountsWithin'
    BY <2>2, <2>3, SlotsAssumption DEF SlotsTypeOK, CountsWithin
  <2>6. QED
    BY <2>4, <2>5
<1>4. ASSUME NEW c \in Connections, Drop(c)
      PROVE  SlotsInv'
  <2>1. c \in Held /\ Held' = Held \ {c}
    BY <1>4 DEF Drop, Held, SlotsTypeOK
  <2>2. total' \in Nat /\ total' = Cardinality(Held') /\ total' <= total
    BY <1>4, <2>1, OneCounted, CountedFinite DEF Drop, CountsExact, SlotsTypeOK
  <2>3. address' = address /\ place' \in [Connections -> SlotPlaces]
    BY <1>4 DEF Drop, SlotsTypeOK, SlotPlaces
  <2>4. CASE place[c] = "unauthenticated"
    <3>1. c \in Undiscounted /\ Undiscounted' = Undiscounted \ {c} /\ Release(address[c])
      BY <1>4, <2>4 DEF Drop, Counted, Undiscounted, SlotsTypeOK
    <3>2. QED
      BY <2>2, <2>3, <3>1, ReleaseCounts, SlotsAssumption, SMTT(30) DEF SlotsTypeOK, CountsExact, CountsWithin
  <2>5. CASE place[c] # "unauthenticated"
    <3>1. Undiscounted' = Undiscounted /\ UNCHANGED <<unauthenticated, by_address>>
      BY <1>4, <2>5 DEF Drop, Counted, Undiscounted, SlotsTypeOK
    <3>2. \A a : From(a)' = From(a)
      BY <2>3, <3>1 DEF From
    <3>3. QED
      BY <2>2, <2>3, <3>1, <3>2, SlotsAssumption DEF SlotsTypeOK, CountsExact, CountsWithin
  <2>6. QED
    BY <2>4, <2>5
<1>5. CASE UNCHANGED slotsVars
  <2>1. Held' = Held /\ Undiscounted' = Undiscounted /\ \A a : From(a)' = From(a)
    BY <1>5 DEF slotsVars, Held, Undiscounted, From
  <2>2. QED
    BY <1>5, <2>1 DEF slotsVars, SlotsTypeOK, CountsExact, CountsWithin
<1>6. QED
  BY <1>1, <1>2, <1>3, <1>4, <1>5 DEF SlotsNext

\* The counters stay natural numbers: none is decremented at zero.
THEOREM CountsNatural == SlotsSpec => []SlotsTypeOK
<1>1. SlotsInv => SlotsTypeOK
  BY DEF SlotsInv
<1>2. QED
  BY SlotsInvInit, SlotsInvNext, <1>1, PTL DEF SlotsSpec

\* The counters are exact (Slots::take, Slot::authenticated, Slot::drop).
THEOREM CountsExactHolds == SlotsSpec => []CountsExact
<1>1. SlotsInv => CountsExact
  BY DEF SlotsInv
<1>2. QED
  BY SlotsInvInit, SlotsInvNext, <1>1, PTL DEF SlotsSpec

\* The limits hold of the connections (Slots::take).
THEOREM WithinLimitsHolds == SlotsSpec => []WithinLimits
<1>1. ASSUME SlotsInv PROVE WithinLimits
  <2>1. Unproved \in SUBSET Undiscounted
    BY DEF Unproved, Undiscounted
  <2>2. \A a : {c \in Unproved : address[c] = a} \in SUBSET From(a)
    BY <2>1 DEF From
  <2>3. IsFiniteSet(Unproved) /\ Cardinality(Unproved) <= Cardinality(Undiscounted)
    BY <2>1, CountedFinite, FS_Subset
  <2>4. ASSUME NEW a \in Addresses
        PROVE  Cardinality({c \in Unproved : address[c] = a}) <= MAX_UNAUTHENTICATED_PER_ADDRESS
    <3> DEFINE T == {c \in Unproved : address[c] = a}
    <3>1. T \in SUBSET From(a)
      BY <2>2
    <3>2. IsFiniteSet(T) /\ Cardinality(T) <= Cardinality(From(a))
      BY <3>1, CountedFinite, FS_Subset
    <3>3. Cardinality(T) \in Nat
      BY <3>2, FS_CardinalityType
    <3>4. Cardinality(From(a)) <= MAX_UNAUTHENTICATED_PER_ADDRESS /\ Cardinality(From(a)) \in Nat
      BY <1>1, CountedFinite DEF SlotsInv, CountsExact, CountsWithin
    <3> HIDE DEF T
    <3>5. Cardinality(T) <= MAX_UNAUTHENTICATED_PER_ADDRESS
      BY <3>2, <3>3, <3>4, SlotsAssumption
    <3>6. QED
      BY <3>5 DEF T
  <2>5. Cardinality(Unproved) <= MAX_UNAUTHENTICATED
    <3>1. Cardinality(Unproved) \in Nat
      BY <2>3, FS_CardinalityType
    <3>2. Cardinality(Undiscounted) <= MAX_UNAUTHENTICATED /\ Cardinality(Undiscounted) \in Nat
      BY <1>1, CountedFinite DEF SlotsInv, CountsExact, CountsWithin
    <3>3. QED
      BY <2>3, <3>1, <3>2, SlotsAssumption
  <2>6. Cardinality(Held) <= MAX_CONNECTIONS
    BY <1>1 DEF SlotsInv, CountsExact, CountsWithin
  <2>7. QED
    BY <2>4, <2>5, <2>6 DEF WithinLimits
<1>2. QED
  BY SlotsInvInit, SlotsInvNext, <1>1, PTL DEF SlotsSpec
=============================================================================
