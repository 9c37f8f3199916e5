-------------------------- MODULE ExecutionProofs --------------------------
(***************************************************************************)
(* Type correctness of Execution, RetriedSafely, BudgetExact,              *)
(* HaltedBeginsNothing, FinishesLast, NothingAfterFailureHere,             *)
(* ParallelAllEntered and RowReportsUnit, for every set of plans and every *)
(* bound on the members of a loop.                                         *)
(*                                                                         *)
(* Whether a further attempt was allowed is decided in one step; that the  *)
(* decision still covers the attempt when it is recorded depends on no     *)
(* attempt being begun twice.  So most of the invariant is about where an  *)
(* invocation can come from: every step is queued once, over the queue in  *)
(* use and those set aside (StepsOnce); what is still to be entered has    *)
(* not begun (StepsFit); and what is to be entered, or has begun, came     *)
(* from a container, a loop instance or a delegation that has begun, and   *)
(* that cannot queue it again (AllCame): a container is entered once, a    *)
(* loop's index only grows, and a row has no record until it returns       *)
(* (RowsOnce, UnitFits).  On top of that, the attempts before one that has *)
(* begun have failed, are within the budget, and excuse it (Tried).        *)
(*                                                                         *)
(* The last four are about order, and rest on what is pending anywhere     *)
(* being in order (Sequenced): every action is a turn of what is pending   *)
(* highest, which leaves in its place only what goes on from it or opens   *)
(* inside it (Moves), and a turn keeps the order.                          *)
(***************************************************************************)
EXTENDS Execution, FiniteSetTheorems, SequenceTheorems, WellFoundedInduction, TLAPS

\* What has begun: it has a record, is being attempted, or is delegating.
Begun == DOMAIN records \cup Active

\* What is still to be entered.
EnterSteps == {s \in AllSteps : s.op = "enter"}
Due == {First(s.node, s.iteration) : s \in EnterSteps}

Attempt(i, k) == [i EXCEPT !.attempt = k]

SameStep(s, t) == s.op = t.op /\ s.node = t.node /\ s.iteration = t.iteration
Alone(q) == \A j, k \in DOMAIN q : SameStep(q[j], q[k]) => j = k
Apart(Q, R) == \A s \in Q, t \in R : ~SameStep(s, t)

\* No step is queued twice, in one queue or in two.
StepsOnce ==
    /\ Alone(queue)
    /\ \A c \in DOMAIN calls : Alone(calls[c].outer) /\ Apart(StepsOf(queue), StepsOf(calls[c].outer))
    /\ \A c, d \in DOMAIN calls : c # d => Apart(StepsOf(calls[c].outer), StepsOf(calls[d].outer))

\* A row delegates once at a time and has no record until it returns.
RowsOnce ==
    /\ \A c, d \in DOMAIN calls : calls[c].row = calls[d].row => c = d
    /\ \A c \in DOMAIN calls : calls[c].row \notin DOMAIN records

\* What is to be entered has not begun; what is to go on or to be left has.
StepsFit ==
    \A s \in AllSteps :
       /\ s.op = "enter" => First(s.node, s.iteration) \notin Begun
       /\ s.op # "enter" => First(s.node, s.iteration) \in DOMAIN records
       /\ s.op = "iterate" => plan[s.node].block = "loop" /\ s.index <= s.of

\* An attempt has no record until it ends; one that is handled has failed.
UnitFits ==
    /\ at = "attempt" => unit \notin DOMAIN records \cup Rows
    /\ at = "handle" => /\ unit \in DOMAIN records /\ records[unit].status = "running"
                        /\ records[unit].phase # "none"
    /\ \A i \in Active : plan[i.node].block = "action"

\* Where an invocation of n comes from: the instance of the container it is in,
\* an instance its loop is past, or the attempt that delegates to it.
Came(n, it) ==
    n # 1 =>
      LET p == plan[n].parent
      IN  /\ plan[p].block \in {"unit", "if", "else"} => First(p, it) \in DOMAIN records
          /\ plan[p].block = "loop" =>
                \E h \in Seq(Nat), k \in Nat :
                   /\ it = Append(h, k) /\ First(p, h) \in DOMAIN records
                   /\ \A s \in AllSteps :
                         s.op = "iterate" /\ s.node = p /\ s.iteration = h => k < s.index
          /\ plan[p].block = "action" =>
                \E h \in Seq(Nat), k \in Nat :
                   it = Append(h, k) /\ Id(p, h, k) \in DOMAIN records \cup Rows
AllCame == \A i \in Due \cup Begun : Came(i.node, i.iteration)

\* The attempts before one that has begun were recorded and failed, ...
EarlierFailed ==
    \A i \in Begun : \A k \in Nat : k < i.attempt =>
        Attempt(i, k) \in DOMAIN records /\ records[Attempt(i, k)].status = "failed"

\* ... are no more than its LIMIT allows, ...
WithinBudget == \A i \in Begun : i.attempt > 0 => i.attempt <= plan[i.node].limit

\* ... and the last of them did nothing, or is accounted for.
Excused(i) ==
    LET was == records[Before(i)]
    IN  \/ was.effect = "none" /\ was.phase = "pre"
        \/ /\ Before(i) \in DOMAIN proofs
           /\ i \in DOMAIN records => records[i].sent # "changed"
           /\ Uncertain(was) => proofs[Before(i)].method = "reconcile"
AllExcused == \A i \in Begun : i.attempt > 0 => Excused(i)

ExhaustedFits ==
    \A i \in exhausted :
       /\ i.attempt = plan[i.node].limit
       /\ \A k \in Nat : k <= i.attempt =>
             Attempt(i, k) \in DOMAIN records /\ records[Attempt(i, k)].status = "failed"

Placed == StepsOnce /\ RowsOnce /\ StepsFit /\ UnitFits /\ AllCame
Tried == EarlierFailed /\ WithinBudget /\ AllExcused /\ ExhaustedFits
ExecInv == TypeOK /\ Placed /\ Tried

-----------------------------------------------------------------------------
(* Numbers: every set of them has a least, so every finite one an order.    *)

LEMMA Least ==
    ASSUME NEW T, T \subseteq Nat, T # {}
    PROVE  \E x \in T : \A y \in T : x <= y
<1> DEFINE R == {p \in Nat \X Nat : p[1] < p[2]}
<1>1. IsWellFoundedOn(R, Nat)
  BY NatLessThanWellFounded DEF OpToRel
<1>2. \A x, y \in Nat : y < x => <<y, x>> \in R
  OBVIOUS
<1> HIDE DEF R
<1>3. PICK x \in T : \A y \in T : ~(<<y, x>> \in R)
  BY <1>1, WFMin
<1>4. \A y \in T : x <= y
  <2> SUFFICES ASSUME NEW y \in T PROVE x <= y
    OBVIOUS
  <2>1. x \in Nat /\ y \in Nat /\ ~(y < x)
    BY <1>2, <1>3
  <2>2. QED
    BY <2>1
<1>5. QED
  BY <1>4

LEMMA OrderExists ==
    ASSUME NEW S \in SUBSET Nat, IsFiniteSet(S)
    PROVE  \E f \in [1..Cardinality(S) -> S] : \A j, k \in DOMAIN f : j < k => f[j] < f[k]
<1> DEFINE Ordering(f) == \A j, k \in DOMAIN f : j < k => f[j] < f[k]
           Bad(n) == \E U \in SUBSET Nat : /\ IsFiniteSet(U) /\ Cardinality(U) = n
                                           /\ ~ \E f \in [1..n -> U] : Ordering(f)
           T == {n \in Nat : Bad(n)}
<1>1. T = {}
  <2> SUFFICES ASSUME T # {} PROVE FALSE
    OBVIOUS
  <2>1. PICK n \in T : \A m \in T : n <= m
    BY Least
  <2>2. n \in Nat /\ Bad(n)
    BY <2>1
  <2>3. PICK U \in SUBSET Nat : /\ IsFiniteSet(U) /\ Cardinality(U) = n
                                /\ ~ \E f \in [1..n -> U] : Ordering(f)
    BY <2>2
  <2>4. CASE U = {}
    <3>1. n = 0
      BY <2>3, <2>4, FS_EmptySet
    <3>2. [k \in 1..0 |-> 0] \in [1..n -> U] /\ Ordering([k \in 1..0 |-> 0])
      BY <3>1
    <3>3. QED
      BY <2>3, <3>2
  <2>5. CASE U # {}
    <3>1. PICK x \in U : \A y \in U : x <= y
      BY <2>5, Least
    <3> DEFINE W == U \ {x}
    <3>2. /\ W \in SUBSET Nat /\ IsFiniteSet(W) /\ Cardinality(W) = n - 1 /\ n - 1 \in Nat
          /\ x \notin W /\ U = W \cup {x}
      <4>1. IsFiniteSet(W) /\ Cardinality(W) = n - 1
        BY <2>3, <3>1, FS_RemoveElement
      <4>2. Cardinality(W) \in Nat
        BY <4>1, FS_CardinalityType
      <4>3. W \in SUBSET Nat /\ x \notin W /\ U = W \cup {x}
        BY <3>1
      <4>4. QED
        BY <4>1, <4>2, <4>3
    <3> HIDE DEF W
    <3>3. n - 1 \notin T
      BY <2>1, <2>2
    <3>4. PICK g \in [1..(n - 1) -> W] : Ordering(g)
      BY <3>2, <3>3
    <3> DEFINE f == [k \in 1..n |-> IF k = 1 THEN x ELSE g[k - 1]]
    <3>5. \A k \in 1..n : k # 1 => k - 1 \in 1..(n - 1) /\ g[k - 1] \in W
      BY <2>2, <3>4
    <3>6. f \in [1..n -> U]
      BY <3>2, <3>5
    <3>7. ASSUME NEW j \in 1..n, NEW k \in 1..n, j < k PROVE f[j] < f[k]
      <4>1. k # 1 /\ g[k - 1] \in W /\ f[k] = g[k - 1]
        BY <2>2, <3>5, <3>7
      <4>2. CASE j = 1
        <5>1. f[j] = x
          BY <4>2
        <5>2. x \in Nat /\ g[k - 1] \in Nat /\ x <= g[k - 1] /\ x # g[k - 1]
          BY <3>1, <3>2, <4>1
        <5> HIDE DEF f
        <5>3. QED
          BY <4>1, <5>1, <5>2
      <4>3. CASE j # 1
        <5>1. j - 1 \in DOMAIN g /\ k - 1 \in DOMAIN g /\ j - 1 < k - 1
          BY <2>2, <3>4, <3>5, <3>7, <4>1, <4>3
        <5>2. QED
          BY <3>4, <4>1, <4>3, <5>1
      <4>4. QED
        BY <4>2, <4>3
    <3>8. QED
      BY <2>3, <3>6, <3>7
  <2>6. QED
    BY <2>4, <2>5
<1>2. Cardinality(S) \in Nat
  BY FS_CardinalityType
<1>3. QED
  BY <1>1, <1>2

LEMMA InOrderIs ==
    ASSUME NEW S \in SUBSET Nat, IsFiniteSet(S)
    PROVE  /\ InOrder(S) \in [1..Cardinality(S) -> S] /\ Cardinality(S) \in Nat
           /\ \A j, k \in DOMAIN InOrder(S) : InOrder(S)[j] = InOrder(S)[k] => j = k
<1>1. Cardinality(S) \in Nat
  BY FS_CardinalityType
<1>2. /\ InOrder(S) \in [1..Cardinality(S) -> S]
      /\ \A j, k \in DOMAIN InOrder(S) : j < k => InOrder(S)[j] < InOrder(S)[k]
  BY OrderExists DEF InOrder
<1> DEFINE f == InOrder(S)
<1>3. ASSUME NEW j \in DOMAIN f, NEW k \in DOMAIN f, f[j] = f[k] PROVE j = k
  <2> HIDE DEF f
  <2>1. f \in [1..Cardinality(S) -> S] /\ \A a, b \in DOMAIN f : a < b => f[a] < f[b]
    BY <1>2 DEF f
  <2>2. j \in Nat /\ k \in Nat /\ f[j] \in Nat /\ f[k] \in Nat
    <3>1. j \in 1..Cardinality(S) /\ k \in 1..Cardinality(S)
      BY <1>3, <2>1
    <3>2. f[j] \in S /\ f[k] \in S
      BY <2>1, <3>1
    <3>3. \A c \in Nat : \A i \in 1..c : i \in Nat
      OBVIOUS
    <3>4. j \in Nat /\ k \in Nat
      BY <1>1, <3>1, <3>3
    <3>5. QED
      BY <3>2, <3>4
  <2>3. ~(f[j] < f[k]) /\ ~(f[k] < f[j])
    BY <1>3, <2>2
  <2>4. ~(j < k) /\ ~(k < j)
    BY <1>3, <2>1, <2>3
  <2>5. QED
    BY <2>2, <2>4
<1>4. QED
  BY <1>1, <1>2, <1>3

-----------------------------------------------------------------------------
(* Sequences of steps.                                                      *)

LEMMA TailSteps ==
    ASSUME NEW S, NEW q \in Seq(S), q # <<>>
    PROVE  /\ Tail(q) \in Seq(S) /\ Head(q) \in S /\ Head(q) \in StepsOf(q)
           /\ StepsOf(q) = {Head(q)} \cup StepsOf(Tail(q))
<1>1. /\ Tail(q) \in Seq(S) /\ Len(Tail(q)) = Len(q) - 1 /\ Len(q) \in Nat /\ Len(q) > 0
      /\ Head(q) = q[1] /\ Head(q) \in S
      /\ \A k \in 1..Len(Tail(q)) : Tail(q)[k] = q[k + 1]
  BY HeadTailProperties
<1>2. DOMAIN q = 1..Len(q) /\ DOMAIN Tail(q) = 1..(Len(q) - 1)
  BY <1>1
<1>3. StepsOf(Tail(q)) \subseteq StepsOf(q)
  BY <1>1, <1>2 DEF StepsOf
<1>4. Head(q) \in StepsOf(q)
  BY <1>1, <1>2 DEF StepsOf
<1>5. ASSUME NEW k \in DOMAIN q PROVE q[k] \in {Head(q)} \cup StepsOf(Tail(q))
  <2>1. CASE k = 1
    BY <1>1, <2>1
  <2>2. CASE k # 1
    <3>1. k - 1 \in DOMAIN Tail(q) /\ Tail(q)[k - 1] = q[k]
      BY <1>1, <1>2, <2>2
    <3>2. QED
      BY <3>1 DEF StepsOf
  <2>3. QED
    BY <2>1, <2>2
<1>6. QED
  BY <1>1, <1>3, <1>4, <1>5 DEF StepsOf

LEMMA TailAlone ==
    ASSUME NEW S, NEW q \in Seq(S), q # <<>>, Alone(q)
    PROVE  Alone(Tail(q)) /\ \A t \in StepsOf(Tail(q)) : ~SameStep(t, Head(q))
<1>1. /\ Len(Tail(q)) = Len(q) - 1 /\ Len(q) \in Nat /\ Len(q) > 0 /\ Head(q) = q[1]
      /\ \A k \in 1..Len(Tail(q)) : Tail(q)[k] = q[k + 1]
      /\ Tail(q) \in Seq(S)
  BY HeadTailProperties
<1>2. DOMAIN q = 1..Len(q) /\ DOMAIN Tail(q) = 1..(Len(q) - 1)
  BY <1>1
<1>3. \A k \in DOMAIN Tail(q) : k + 1 \in DOMAIN q /\ Tail(q)[k] = q[k + 1] /\ k + 1 # 1 /\ k \in Nat
  BY <1>1, <1>2
<1>4. ASSUME NEW j \in DOMAIN Tail(q), NEW k \in DOMAIN Tail(q), SameStep(Tail(q)[j], Tail(q)[k])
      PROVE  j = k
  <2>1. j + 1 = k + 1
    BY <1>3, <1>4 DEF Alone
  <2>2. QED
    BY <1>3, <2>1
<1>5. 1 \in DOMAIN q
  BY <1>1, <1>2
<1>6. ASSUME NEW k \in DOMAIN Tail(q) PROVE ~SameStep(Tail(q)[k], Head(q))
  BY <1>1, <1>3, <1>5 DEF Alone
<1>7. QED
  BY <1>4, <1>6 DEF Alone, StepsOf

LEMMA JoinedSteps ==
    ASSUME NEW S, NEW q \in Seq(S), NEW r \in Seq(S)
    PROVE  q \o r \in Seq(S) /\ StepsOf(q \o r) = StepsOf(q) \cup StepsOf(r)
<1>1. /\ q \o r \in Seq(S) /\ Len(q \o r) = Len(q) + Len(r) /\ Len(q) \in Nat /\ Len(r) \in Nat
      /\ \A i \in 1..(Len(q) + Len(r)) : (q \o r)[i] = IF i <= Len(q) THEN q[i] ELSE r[i - Len(q)]
  BY ConcatProperties
<1>2. DOMAIN q = 1..Len(q) /\ DOMAIN r = 1..Len(r) /\ DOMAIN (q \o r) = 1..(Len(q) + Len(r))
  BY <1>1
<1> DEFINE s == q \o r
<1>3. \A i \in DOMAIN s : s[i] \in StepsOf(q) \cup StepsOf(r)
  BY <1>1, <1>2 DEF StepsOf
<1>4. \A i \in DOMAIN q : i \in DOMAIN s /\ s[i] = q[i]
  BY <1>1, <1>2
<1>5. \A i \in DOMAIN r : Len(q) + i \in DOMAIN s /\ s[Len(q) + i] = r[i]
  <2> SUFFICES ASSUME NEW i \in DOMAIN r PROVE Len(q) + i \in DOMAIN s /\ s[Len(q) + i] = r[i]
    OBVIOUS
  <2>1. i \in Nat /\ i > 0 /\ Len(q) + i \in 1..(Len(q) + Len(r)) /\ ~(Len(q) + i <= Len(q))
        /\ (Len(q) + i) - Len(q) = i
    BY <1>1, <1>2
  <2>2. QED
    BY <1>1, <1>2, <2>1
<1> HIDE DEF s
<1>6. StepsOf(s) = StepsOf(q) \cup StepsOf(r)
  BY <1>3, <1>4, <1>5 DEF StepsOf
<1>7. QED
  BY <1>1, <1>6 DEF s

LEMMA JoinedAlone ==
    ASSUME NEW S, NEW q \in Seq(S), NEW r \in Seq(S), Alone(q), Alone(r),
           Apart(StepsOf(q), StepsOf(r))
    PROVE  Alone(q \o r)
<1>1. /\ Len(q \o r) = Len(q) + Len(r) /\ Len(q) \in Nat /\ Len(r) \in Nat /\ q \o r \in Seq(S)
      /\ \A i \in 1..(Len(q) + Len(r)) : (q \o r)[i] = IF i <= Len(q) THEN q[i] ELSE r[i - Len(q)]
  BY ConcatProperties
<1>2. DOMAIN q = 1..Len(q) /\ DOMAIN r = 1..Len(r) /\ DOMAIN (q \o r) = 1..(Len(q) + Len(r))
  BY <1>1
<1> DEFINE s == q \o r
           n == Len(q)
<1>3. \A i \in DOMAIN s : \/ i \in DOMAIN q /\ s[i] = q[i]
                          \/ i - n \in DOMAIN r /\ s[i] = r[i - n]
  BY <1>1, <1>2
<1>4. \A i \in DOMAIN s : i \in Nat
  BY <1>1, <1>2
<1> HIDE DEF s
<1>5. \A i \in DOMAIN q, j \in DOMAIN r : ~SameStep(q[i], r[j]) /\ ~SameStep(r[j], q[i])
  BY DEF Apart, StepsOf, SameStep
<1>6. ASSUME NEW i \in DOMAIN s, NEW j \in DOMAIN s, SameStep(s[i], s[j]) PROVE i = j
  <2>1. CASE i \in DOMAIN q /\ j \in DOMAIN q /\ s[i] = q[i] /\ s[j] = q[j]
    BY <1>6, <2>1 DEF Alone
  <2>2. CASE i - n \in DOMAIN r /\ j - n \in DOMAIN r /\ s[i] = r[i - n] /\ s[j] = r[j - n]
    <3>1. i - n = j - n
      BY <1>6, <2>2 DEF Alone
    <3>2. QED
      BY <1>1, <1>4, <3>1
  <2>3. QED
    BY <1>3, <1>5, <1>6, <2>1, <2>2
<1>7. QED
  BY <1>6 DEF Alone, s

-----------------------------------------------------------------------------
(* Plans.                                                                   *)

LEMMA PlanIs ==
    ASSUME TypeOK
    PROVE  IsPlan(plan) /\ interleaving \in Interleavings /\ MaxItems \in Nat
BY RunsAssumption DEF TypeOK

LEMMA NodeIs ==
    ASSUME IsPlan(plan), NEW n \in DOMAIN plan
    PROVE  /\ plan[n] \in Node /\ DOMAIN plan = 1..Len(plan) /\ Len(plan) \in Nat /\ n \in Nat
           /\ n > 1 => plan[n].parent \in DOMAIN plan /\ plan[n].parent < n
           /\ plan[n].limit \in Nat
<1>1. plan \in Seq(Node) /\ DOMAIN plan = 1..Len(plan) /\ Len(plan) \in Nat
  BY DEF IsPlan
<1>2. plan[n] \in Node /\ n \in 1..Len(plan)
  BY <1>1
<1>3. plan[n].limit \in Nat
  <2>1. plan[n].limit \in 0..NoRetry
    BY <1>2 DEF Node
  <2>2. \A k \in 0..NoRetry : k \in Nat
    BY DEF NoRetry
  <2>3. QED
    BY <2>1, <2>2
<1>4. n > 1 => plan[n].parent \in 1..(n - 1)
  BY DEF IsPlan
<1>5. QED
  BY <1>1, <1>2, <1>3, <1>4

LEMMA ChildIs ==
    ASSUME IsPlan(plan), NEW n \in DOMAIN plan, NEW k \in DOMAIN plan[n].children
    PROVE  LET c == plan[n].children[k]
           IN  c \in DOMAIN plan /\ plan[c].parent = n /\ c # 1 /\ c # n
<1> DEFINE c == plan[n].children[k]
<1>1. c \in {plan[n].children[j] : j \in DOMAIN plan[n].children}
  OBVIOUS
<1>2. {plan[n].children[j] : j \in DOMAIN plan[n].children} = {d \in DOMAIN plan : plan[d].parent = n}
  BY DEF IsPlan
<1>3. c \in DOMAIN plan /\ plan[c].parent = n
  BY <1>1, <1>2
<1>4. plan[1].parent = 0 /\ n # 0 /\ n \in Nat
  BY NodeIs DEF IsPlan
<1> HIDE DEF c
<1>5. c # 1
  BY <1>3, <1>4
<1>6. c # n
  <2>1. c \in Nat /\ c > 0 /\ (c > 1 => plan[c].parent < c)
    BY <1>3, NodeIs
  <2>2. QED
    BY <1>3, <1>4, <1>5, <2>1
<1>7. QED
  BY <1>3, <1>5, <1>6 DEF c

LEMMA SelectedIs ==
    ASSUME IsPlan(plan), NEW n \in DOMAIN plan, NEW pick
    PROVE  LET s == Selected(n, pick)
           IN  /\ s \in Seq(DOMAIN plan)
               /\ \A j, k \in DOMAIN s : s[j] = s[k] => j = k
               /\ \A k \in DOMAIN s : plan[s[k]].parent = n /\ s[k] # 1 /\ s[k] # n
<1> DEFINE all == plan[n].children
           kept == {k \in DOMAIN all : CASE plan[all[k]].block = "if" -> pick[all[k]] = "then"
                                     [] plan[all[k]].block = "else" -> pick[all[k - 1]] = "else"
                                     [] OTHER -> TRUE}
           order == InOrder(kept)
           s == [k \in DOMAIN order |-> all[order[k]]]
<1>1. Selected(n, pick) = s
  BY DEF Selected
<1>2. all \in Seq(Nat) /\ DOMAIN all = 1..Len(all) /\ Len(all) \in Nat
  BY NodeIs DEF Node
<1>3. kept \subseteq DOMAIN all
  OBVIOUS
<1>4. \A j, k \in DOMAIN all : all[j] = all[k] => j = k
  BY DEF IsPlan
<1>5. \A k \in DOMAIN all :
         all[k] \in DOMAIN plan /\ plan[all[k]].parent = n /\ all[k] # 1 /\ all[k] # n
  BY ChildIs
<1> HIDE DEF kept, all
<1>6. kept \in SUBSET Nat /\ IsFiniteSet(kept)
  <2>1. IsFiniteSet(1..Len(all))
    BY <1>2, FS_Interval
  <2>2. IsFiniteSet(kept)
    BY <1>2, <1>3, <2>1, FS_Subset
  <2>3. QED
    BY <1>2, <1>3, <2>2
<1>7. /\ order \in [1..Cardinality(kept) -> kept] /\ Cardinality(kept) \in Nat
      /\ \A j, k \in DOMAIN order : order[j] = order[k] => j = k
  BY <1>6, InOrderIs
<1> DEFINE m == Cardinality(kept)
<1>8. m \in Nat /\ order \in [1..m -> kept]
  BY <1>7
<1> HIDE DEF m, order
<1>9. \A k \in 1..m : order[k] \in DOMAIN all /\ s[k] = all[order[k]]
  BY <1>3, <1>8
<1>10. DOMAIN s = 1..m /\ DOMAIN order = 1..m
  BY <1>8
<1>11. s \in [1..m -> DOMAIN plan]
  BY <1>5, <1>8, <1>9
<1>12. s \in Seq(DOMAIN plan)
  BY <1>8, <1>11, SeqDef
<1> HIDE DEF s
<1>13. \A j, k \in DOMAIN s : s[j] = s[k] => j = k
  BY <1>4, <1>7, <1>9, <1>10
<1>14. \A k \in DOMAIN s : plan[s[k]].parent = n /\ s[k] # 1 /\ s[k] # n
  BY <1>5, <1>9, <1>10
<1>15. QED
  BY <1>1, <1>12, <1>13, <1>14

LEMMA EntersIs ==
    ASSUME IsPlan(plan), MaxItems \in Nat, NEW n \in DOMAIN plan, NEW pick, NEW it \in Seq(Nat)
    PROVE  LET batch == Enters(Selected(n, pick), it)
           IN  /\ batch \in Seq(StepSet) /\ Alone(batch)
               /\ \A s \in StepsOf(batch) :
                     /\ s.op = "enter" /\ s.iteration = it /\ s.node \in DOMAIN plan
                     /\ s.node # 1 /\ s.node # n /\ plan[s.node].parent = n
<1> DEFINE c == Selected(n, pick)
           batch == Enters(c, it)
<1>1. /\ c \in Seq(DOMAIN plan)
      /\ \A j, k \in DOMAIN c : c[j] = c[k] => j = k
      /\ \A k \in DOMAIN c : plan[c[k]].parent = n /\ c[k] # 1 /\ c[k] # n
  BY SelectedIs
<1> HIDE DEF c
<1>2. DOMAIN c = 1..Len(c) /\ Len(c) \in Nat /\ \A k \in DOMAIN c : c[k] \in DOMAIN plan
  BY <1>1
<1>3. \A m \in DOMAIN plan : /\ EnterStep(m, it) \in StepSet /\ EnterStep(m, it).op = "enter"
                             /\ EnterStep(m, it).node = m /\ EnterStep(m, it).iteration = it
  BY DEF EnterStep, StepSet
<1>4. DOMAIN batch = DOMAIN c /\ \A k \in DOMAIN c : batch[k] = EnterStep(c[k], it)
  BY DEF Enters
<1>5. batch \in [1..Len(c) -> StepSet]
  BY <1>2, <1>3 DEF Enters
<1>6. batch \in Seq(StepSet)
  BY <1>2, <1>5, SeqDef
<1> HIDE DEF batch
<1>7. Alone(batch)
  BY <1>1, <1>2, <1>3, <1>4 DEF Alone, SameStep
<1>8. \A s \in StepsOf(batch) :
         /\ s.op = "enter" /\ s.iteration = it /\ s.node \in DOMAIN plan
         /\ s.node # 1 /\ s.node # n /\ plan[s.node].parent = n
  BY <1>1, <1>2, <1>3, <1>4 DEF StepsOf
<1>9. QED
  BY <1>6, <1>7, <1>8 DEF batch, c

LEMMA OrderedIs ==
    ASSUME interleaving \in Interleavings, NEW S, NEW batch \in Seq(S), Alone(batch)
    PROVE  LET s == Ordered(batch)
           IN  s \in Seq(S) /\ Alone(s) /\ StepsOf(s) \subseteq StepsOf(batch)
<1> DEFINE n == Len(batch)
           half == n \div 2
           s == Ordered(batch)
<1>1. n \in Nat /\ DOMAIN batch = 1..n /\ half \in Nat /\ 2 * half <= n /\ n <= 2 * half + 1
      /\ batch \in [1..n -> S]
  OBVIOUS
<1>2. \/ s = batch
      \/ s = [k \in 1..n |-> batch[n + 1 - k]]
      \/ s = [k \in 1..n |-> IF k <= half THEN batch[2 * k] ELSE batch[2 * (k - half) - 1]]
  BY DEF Ordered, Interleavings
<1>3. ASSUME NEW w \in [1..n -> 1..n], \A j, k \in 1..n : w[j] = w[k] => j = k,
             s = [k \in 1..n |-> batch[w[k]]]
      PROVE  s \in Seq(S) /\ Alone(s) /\ StepsOf(s) \subseteq StepsOf(batch)
  <2> HIDE DEF n, s, half
  <2>1. s \in [1..n -> S]
    BY <1>1, <1>3
  <2>2. s \in Seq(S)
    BY <1>1, <2>1, SeqDef
  <2>3. DOMAIN s = 1..n /\ \A k \in 1..n : s[k] = batch[w[k]] /\ w[k] \in DOMAIN batch
    BY <1>1, <1>3
  <2>4. Alone(s)
    BY <1>3, <2>3 DEF Alone
  <2>5. StepsOf(s) \subseteq StepsOf(batch)
    BY <2>3 DEF StepsOf
  <2>6. QED
    BY <2>2, <2>4, <2>5
<1>4. CASE s = batch
  BY <1>4
<1>5. CASE s = [k \in 1..n |-> batch[n + 1 - k]]
  <2> DEFINE w == [k \in 1..n |-> n + 1 - k]
  <2>1. w \in [1..n -> 1..n] /\ \A j, k \in 1..n : w[j] = w[k] => j = k
    BY <1>1
  <2>2. s = [k \in 1..n |-> batch[w[k]]]
    BY <1>5
  <2> HIDE DEF w, s, n
  <2>3. s \in Seq(S) /\ Alone(s) /\ StepsOf(s) \subseteq StepsOf(batch)
    BY <1>3, <2>1, <2>2
  <2>4. QED
    BY <2>3 DEF s
<1>6. CASE s = [k \in 1..n |-> IF k <= half THEN batch[2 * k] ELSE batch[2 * (k - half) - 1]]
  <2> DEFINE w == [k \in 1..n |-> IF k <= half THEN 2 * k ELSE 2 * (k - half) - 1]
  <2>1. w \in [1..n -> 1..n] /\ \A j, k \in 1..n : w[j] = w[k] => j = k
    <3> HIDE DEF n, half
    <3>1. \A k \in 1..n : /\ k \in Nat /\ w[k] = IF k <= half THEN 2 * k ELSE 2 * (k - half) - 1
                          /\ w[k] \in 1..n
      BY <1>1
    <3>2. w \in [1..n -> 1..n]
      BY <3>1
    <3> HIDE DEF w
    <3>3. ASSUME NEW j \in 1..n, NEW k \in 1..n, w[j] = w[k] PROVE j = k
      <4>1. CASE j <= half /\ k <= half
        BY <1>1, <3>1, <3>3, <4>1
      <4>2. CASE ~(j <= half) /\ ~(k <= half)
        BY <1>1, <3>1, <3>3, <4>2
      <4>3. CASE j <= half /\ ~(k <= half)
        BY <1>1, <3>1, <3>3, <4>3
      <4>4. CASE ~(j <= half) /\ k <= half
        BY <1>1, <3>1, <3>3, <4>4
      <4>5. QED
        BY <4>1, <4>2, <4>3, <4>4
    <3>4. QED
      BY <3>2, <3>3
  <2>2. s = [k \in 1..n |-> batch[w[k]]]
    BY <1>6
  <2> HIDE DEF w, s, n, half
  <2>3. s \in Seq(S) /\ Alone(s) /\ StepsOf(s) \subseteq StepsOf(batch)
    BY <1>3, <2>1, <2>2
  <2>4. QED
    BY <2>3 DEF s
<1>7. QED
  BY <1>2, <1>4, <1>5, <1>6

-----------------------------------------------------------------------------
(* The queue, and those set aside.                                          *)

LEMMA SameStepIsSame ==
    /\ \A s, t : SameStep(s, t) => SameStep(t, s)
    /\ \A s, t, u : SameStep(s, t) /\ SameStep(t, u) => SameStep(s, u)
BY DEF SameStep

\* The step taken gives way to others.
LEMMA QueueStep ==
    ASSUME queue \in Seq(StepSet), StepsOnce, queue # <<>>,
           NEW new \in Seq(StepSet), Alone(new),
           \A s \in StepsOf(new), t \in AllSteps : SameStep(s, t) => SameStep(t, Head(queue)),
           queue' = new \o Tail(queue), calls' = calls
    PROVE  /\ queue' \in Seq(StepSet) /\ StepsOnce'
           /\ \A t \in AllSteps' : t \in StepsOf(new) \/ (t \in AllSteps /\ ~SameStep(t, Head(queue)))
           /\ StepsOf(new) \subseteq AllSteps'
<1> DEFINE rest == Tail(queue)
           head == Head(queue)
<1>1. /\ rest \in Seq(StepSet) /\ head \in StepsOf(queue)
      /\ StepsOf(queue) = {head} \cup StepsOf(rest)
  BY TailSteps
<1>2. Alone(rest) /\ \A t \in StepsOf(rest) : ~SameStep(t, head)
  BY TailAlone DEF StepsOnce
<1> HIDE DEF rest, head
<1>3. queue' \in Seq(StepSet) /\ StepsOf(queue)' = StepsOf(new) \cup StepsOf(rest)
  <2>1. new \o rest \in Seq(StepSet) /\ StepsOf(new \o rest) = StepsOf(new) \cup StepsOf(rest)
    BY <1>1, JoinedSteps
  <2>2. queue' = new \o rest
    BY DEF rest
  <2>3. StepsOf(queue)' = StepsOf(new \o rest)
    BY <2>2 DEF StepsOf
  <2>4. QED
    BY <2>1, <2>2, <2>3
<1>4. \A s \in StepsOf(new), t \in AllSteps : SameStep(s, t) => SameStep(t, head)
  BY DEF head
<1>5. Apart(StepsOf(new), StepsOf(rest))
  BY <1>1, <1>2, <1>4 DEF Apart, AllSteps
<1>6. Alone(queue)'
  <2>1. Alone(new \o rest)
    BY <1>1, <1>2, <1>5, JoinedAlone
  <2>2. QED
    BY <2>1 DEF Alone, rest
<1>7. ASSUME NEW c \in DOMAIN calls
      PROVE  /\ Apart(StepsOf(new), StepsOf(calls[c].outer))
             /\ Apart(StepsOf(rest), StepsOf(calls[c].outer))
             /\ \A t \in StepsOf(calls[c].outer) : t \in AllSteps /\ ~SameStep(t, head)
  <2>1. Apart(StepsOf(queue), StepsOf(calls[c].outer))
    BY DEF StepsOnce
  <2>2. \A t \in StepsOf(calls[c].outer) : t \in AllSteps
    BY DEF AllSteps
  <2>3. \A t \in StepsOf(calls[c].outer) : ~SameStep(t, head)
    BY <1>1, <2>1, SameStepIsSame DEF Apart
  <2>4. QED
    BY <1>1, <1>4, <2>1, <2>2, <2>3 DEF Apart
<1>8. StepsOnce'
  <2>1. \A c \in DOMAIN calls : /\ Alone(calls[c].outer)
                                /\ Apart(StepsOf(new) \cup StepsOf(rest), StepsOf(calls[c].outer))
    BY <1>7 DEF StepsOnce, Apart
  <2>2. ASSUME NEW c \in DOMAIN calls
        PROVE  Alone(calls[c].outer)' /\ Apart(StepsOf(queue), StepsOf(calls[c].outer))'
    <3>1. StepsOf(calls[c].outer)' = StepsOf(calls[c].outer)
      BY DEF StepsOf
    <3>2. QED
      BY <1>3, <2>1, <3>1 DEF Alone, Apart, SameStep
  <2>3. \A c, d \in DOMAIN calls : c # d => Apart(StepsOf(calls[c].outer), StepsOf(calls[d].outer))'
    BY DEF StepsOnce, Apart, SameStep, StepsOf
  <2>4. QED
    BY <1>6, <2>2, <2>3 DEF StepsOnce
<1>9. \A t \in AllSteps' : t \in StepsOf(new) \/ (t \in AllSteps /\ ~SameStep(t, head))
  <2>1. \A t \in AllSteps' : \/ t \in StepsOf(new) \cup StepsOf(rest)
                             \/ \E c \in DOMAIN calls : t \in StepsOf(calls[c].outer)
    <3>1. AllSteps' = StepsOf(queue)' \cup UNION {StepsOf(calls[k].outer) : k \in DOMAIN calls}
      BY DEF AllSteps, StepsOf
    <3>2. QED
      BY <1>3, <3>1
  <2>2. \A t \in StepsOf(rest) : t \in AllSteps /\ ~SameStep(t, head)
    BY <1>1, <1>2 DEF AllSteps
  <2>3. \A c \in DOMAIN calls : \A t \in StepsOf(calls[c].outer) : t \in AllSteps /\ ~SameStep(t, head)
    BY <1>7
  <2>4. QED
    BY <2>1, <2>2, <2>3
<1>10. StepsOf(new) \subseteq AllSteps'
  BY <1>3 DEF AllSteps
<1>11. QED
  BY <1>3, <1>8, <1>9, <1>10 DEF head

\* The step taken gives way to none.
LEMMA QueueShrinks ==
    ASSUME queue \in Seq(StepSet), StepsOnce, queue # <<>>,
           queue' = Tail(queue), calls' = calls
    PROVE  /\ queue' \in Seq(StepSet) /\ StepsOnce'
           /\ \A t \in AllSteps' : t \in AllSteps /\ ~SameStep(t, Head(queue))
<1>1. <<>> \in Seq(StepSet) /\ StepsOf(<<>>) = {} /\ Alone(<<>>)
  BY DEF StepsOf, Alone
<1>2. queue' = <<>> \o Tail(queue)
  BY TailSteps, ConcatEmptySeq
<1>3. QED
  BY <1>1, <1>2, QueueStep

\* The queue is set aside for a delegation.
LEMMA QueueAside ==
    ASSUME queue \in Seq(StepSet), calls \in Seq(CallSet), StepsOnce,
           NEW s \in StepSet, \A t \in AllSteps : ~SameStep(s, t),
           NEW row \in InvocationIds, NEW before \in SUBSET InvocationIds,
           queue' = <<s>>,
           calls' = <<[row |-> row, outer |-> queue, before |-> before]>> \o calls, plan' = plan
    PROVE  /\ queue' \in Seq(StepSet) /\ calls' \in Seq(CallSet) /\ StepsOnce'
           /\ AllSteps' = {s} \cup AllSteps
           /\ DOMAIN calls' = 1..(Len(calls) + 1) /\ DOMAIN calls = 1..Len(calls) /\ Len(calls) \in Nat
           /\ calls'[1] = [row |-> row, outer |-> queue, before |-> before]
           /\ \A c \in DOMAIN calls : calls'[c + 1] = calls[c]
<1> DEFINE call == [row |-> row, outer |-> queue, before |-> before]
<1>1. call \in CallSet /\ call.outer = queue
  BY DEF CallSet
<1> HIDE DEF call
<1>2. <<call>> \in Seq(CallSet) /\ Len(<<call>>) = 1 /\ <<call>>[1] = call
  BY <1>1
<1>3. /\ calls' \in Seq(CallSet) /\ Len(calls') = 1 + Len(calls) /\ Len(calls) \in Nat
      /\ \A i \in 1..(1 + Len(calls)) : calls'[i] = IF i <= 1 THEN <<call>>[i] ELSE calls[i - 1]
  <2>1. calls' = <<call>> \o calls
    BY DEF call
  <2>2. QED
    BY <1>2, <2>1, ConcatProperties
<1>4. DOMAIN calls' = 1..(Len(calls) + 1) /\ DOMAIN calls = 1..Len(calls)
  BY <1>3
<1>5. calls'[1] = call
  <2>1. 1 \in 1..(1 + Len(calls)) /\ 1 <= 1
    BY <1>3
  <2>2. QED
    BY <1>2, <1>3, <2>1
<1>6. \A c \in DOMAIN calls : c \in Nat /\ c + 1 \in DOMAIN calls' /\ c + 1 # 1 /\ calls'[c + 1] = calls[c]
  BY <1>3, <1>4
<1>7. \A c \in DOMAIN calls' : c # 1 => c - 1 \in DOMAIN calls /\ calls'[c] = calls[c - 1] /\ c \in Nat
  <2> SUFFICES ASSUME NEW c \in DOMAIN calls', c # 1
               PROVE  c - 1 \in DOMAIN calls /\ calls'[c] = calls[c - 1] /\ c \in Nat
    OBVIOUS
  <2>1. c \in 1..(1 + Len(calls)) /\ c \in Nat /\ ~(c <= 1) /\ c - 1 \in 1..Len(calls)
    <3>1. c \in 1..(Len(calls) + 1)
      BY <1>4
    <3>2. QED
      BY <1>3, <3>1
  <2>2. QED
    BY <1>3, <1>4, <2>1
<1>8. queue' \in Seq(StepSet) /\ StepsOf(queue)' = {s} /\ Alone(queue)'
  <2>1. queue' \in Seq(StepSet) /\ DOMAIN queue' = {1} /\ queue'[1] = s
    OBVIOUS
  <2>2. QED
    BY <2>1 DEF StepsOf, Alone
<1>9. AllSteps' = {s} \cup AllSteps
  <2>1. AllSteps' = StepsOf(queue)' \cup UNION {StepsOf(calls'[k].outer) : k \in DOMAIN calls'}
    BY DEF AllSteps, StepsOf
  <2>2. ASSUME NEW t \in UNION {StepsOf(calls'[k].outer) : k \in DOMAIN calls'} PROVE t \in AllSteps
    <3>1. PICK k \in DOMAIN calls' : t \in StepsOf(calls'[k].outer)
      OBVIOUS
    <3>2. QED
      BY <1>1, <1>5, <1>7, <3>1 DEF AllSteps
  <2>3. ASSUME NEW t \in AllSteps
        PROVE  t \in UNION {StepsOf(calls'[k].outer) : k \in DOMAIN calls'}
    <3>1. CASE t \in StepsOf(queue)
      <4>1. 1 \in DOMAIN calls' /\ calls'[1].outer = queue
        BY <1>1, <1>3, <1>4, <1>5
      <4>2. QED
        BY <3>1, <4>1
    <3>2. CASE \E k \in DOMAIN calls : t \in StepsOf(calls[k].outer)
      BY <1>6, <3>2
    <3>3. QED
      BY <3>1, <3>2 DEF AllSteps
  <2>4. QED
    BY <1>8, <2>1, <2>2, <2>3
<1>10. \A c \in DOMAIN calls' : StepsOf(calls'[c].outer) \subseteq AllSteps
  BY <1>1, <1>5, <1>7 DEF AllSteps
<1>11. \A c \in DOMAIN calls' : Alone(calls'[c].outer) /\ Apart({s}, StepsOf(calls'[c].outer))
  <2>1. \A c \in DOMAIN calls' : Alone(calls'[c].outer)
    BY <1>1, <1>5, <1>7 DEF StepsOnce
  <2>2. QED
    BY <1>10, <2>1 DEF Apart
<1>12. ASSUME NEW c \in DOMAIN calls', NEW d \in DOMAIN calls', c # d
       PROVE  Apart(StepsOf(calls'[c].outer), StepsOf(calls'[d].outer))
  <2>1. CASE c = 1
    <3>1. d - 1 \in DOMAIN calls /\ calls'[d] = calls[d - 1] /\ calls'[c].outer = queue
      BY <1>1, <1>5, <1>7, <1>12, <2>1
    <3>2. QED
      BY <3>1 DEF StepsOnce
  <2>2. CASE d = 1
    <3>1. c - 1 \in DOMAIN calls /\ calls'[c] = calls[c - 1] /\ calls'[d].outer = queue
      BY <1>1, <1>5, <1>7, <1>12, <2>2
    <3>2. Apart(StepsOf(queue), StepsOf(calls[c - 1].outer))
      BY <3>1 DEF StepsOnce
    <3>3. QED
      BY <3>1, <3>2, SameStepIsSame DEF Apart
  <2>3. CASE c # 1 /\ d # 1
    <3>1. /\ c - 1 \in DOMAIN calls /\ calls'[c] = calls[c - 1] /\ c \in Nat
          /\ d - 1 \in DOMAIN calls /\ calls'[d] = calls[d - 1] /\ d \in Nat
      BY <1>7, <2>3
    <3>2. c - 1 # d - 1
      BY <1>12, <3>1
    <3>3. QED
      BY <3>1, <3>2 DEF StepsOnce
  <2>4. QED
    BY <2>1, <2>2, <2>3
<1>13. StepsOnce'
  <2>1. \A c \in DOMAIN calls' : Alone(calls[c].outer)' /\ Apart(StepsOf(queue), StepsOf(calls[c].outer))'
    <3>1. \A c \in DOMAIN calls' : Alone(calls[c].outer)'
      BY <1>11 DEF Alone, SameStep
    <3>2. \A c \in DOMAIN calls' : Apart(StepsOf(queue), StepsOf(calls[c].outer))'
      BY <1>8, <1>11 DEF Apart, SameStep, StepsOf
    <3>3. QED
      BY <3>1, <3>2
  <2>2. \A c, d \in DOMAIN calls' : c # d => Apart(StepsOf(calls[c].outer), StepsOf(calls[d].outer))'
    BY <1>12 DEF Apart, SameStep, StepsOf
  <2>3. QED
    BY <1>8, <2>1, <2>2 DEF StepsOnce
<1>14. QED
  BY <1>3, <1>4, <1>5, <1>6, <1>8, <1>9, <1>13 DEF call

\* It is taken up again.
LEMMA QueueBack ==
    ASSUME calls \in Seq(CallSet), calls # <<>>, StepsOnce, queue = <<>>,
           queue' = Head(calls).outer, calls' = Tail(calls), plan' = plan
    PROVE  /\ queue' \in Seq(StepSet) /\ calls' \in Seq(CallSet) /\ StepsOnce'
           /\ AllSteps' = AllSteps
           /\ DOMAIN calls' = 1..(Len(calls) - 1) /\ DOMAIN calls = 1..Len(calls) /\ Len(calls) \in Nat
           /\ Len(calls) > 0 /\ Head(calls) = calls[1]
           /\ \A c \in DOMAIN calls' : calls'[c] = calls[c + 1]
<1>1. /\ calls' \in Seq(CallSet) /\ Len(calls') = Len(calls) - 1 /\ Len(calls) \in Nat
      /\ Len(calls) > 0 /\ Head(calls) = calls[1] /\ Head(calls) \in CallSet
      /\ \A i \in 1..(Len(calls) - 1) : calls'[i] = calls[i + 1]
  BY HeadTailProperties
<1>2. DOMAIN calls' = 1..(Len(calls) - 1) /\ DOMAIN calls = 1..Len(calls) /\ 1 \in DOMAIN calls
  BY <1>1
<1>3. \A c \in DOMAIN calls' : /\ calls'[c] = calls[c + 1] /\ c + 1 \in DOMAIN calls
                               /\ c \in Nat /\ c + 1 # 1
  BY <1>1, <1>2
<1>4. \A c \in DOMAIN calls : c # 1 => c - 1 \in DOMAIN calls' /\ calls'[c - 1] = calls[c]
  <2> SUFFICES ASSUME NEW c \in DOMAIN calls, c # 1
               PROVE  c - 1 \in DOMAIN calls' /\ calls'[c - 1] = calls[c]
    OBVIOUS
  <2>1. c \in Nat /\ c - 1 \in 1..(Len(calls) - 1) /\ (c - 1) + 1 = c
    <3>1. c \in 1..Len(calls)
      BY <1>2
    <3>2. QED
      BY <1>1, <3>1
  <2>2. QED
    BY <1>2, <1>3, <2>1
<1>5. queue' = calls[1].outer /\ queue' \in Seq(StepSet)
  BY <1>1 DEF CallSet
<1>6. StepsOf(queue)' = StepsOf(calls[1].outer)
  BY <1>5 DEF StepsOf
<1>7. AllSteps' = AllSteps
  <2>1. AllSteps' = StepsOf(queue)' \cup UNION {StepsOf(calls'[k].outer) : k \in DOMAIN calls'}
    BY DEF AllSteps, StepsOf
  <2>2. AllSteps = UNION {StepsOf(calls[k].outer) : k \in DOMAIN calls}
    BY DEF AllSteps, StepsOf
  <2>3. \A k \in DOMAIN calls' : StepsOf(calls'[k].outer) \subseteq AllSteps
    BY <1>3, <2>2
  <2>4. \A k \in DOMAIN calls : StepsOf(calls[k].outer) \subseteq AllSteps'
    <3> SUFFICES ASSUME NEW k \in DOMAIN calls PROVE StepsOf(calls[k].outer) \subseteq AllSteps'
      OBVIOUS
    <3>1. CASE k = 1
      BY <1>6, <2>1, <3>1
    <3>2. CASE k # 1
      BY <1>4, <2>1, <3>2
    <3>3. QED
      BY <3>1, <3>2
  <2>5. StepsOf(queue)' \subseteq AllSteps
    BY <1>2, <1>6, <2>2
  <2>6. QED
    BY <2>1, <2>2, <2>3, <2>4, <2>5
<1>8. StepsOnce'
  <2>1. Alone(queue)'
    BY <1>2, <1>5 DEF StepsOnce, Alone
  <2>2. ASSUME NEW c \in DOMAIN calls'
        PROVE  Alone(calls[c].outer)' /\ Apart(StepsOf(queue), StepsOf(calls[c].outer))'
    <3>1. Alone(calls[c + 1].outer) /\ Apart(StepsOf(calls[1].outer), StepsOf(calls[c + 1].outer))
      BY <1>2, <1>3 DEF StepsOnce
    <3>2. calls'[c] = calls[c + 1]
      BY <1>3
    <3>3. StepsOf(calls[c].outer)' = StepsOf(calls[c + 1].outer)
      BY <3>2 DEF StepsOf
    <3>4. QED
      BY <1>6, <3>1, <3>2, <3>3 DEF Alone, Apart, SameStep
  <2>3. ASSUME NEW c \in DOMAIN calls', NEW d \in DOMAIN calls', c # d
        PROVE  Apart(StepsOf(calls[c].outer), StepsOf(calls[d].outer))'
    <3>1. c + 1 # d + 1
      BY <1>3, <2>3
    <3>2. Apart(StepsOf(calls[c + 1].outer), StepsOf(calls[d + 1].outer))
      BY <1>3, <3>1 DEF StepsOnce
    <3>3. calls'[c] = calls[c + 1] /\ calls'[d] = calls[d + 1]
      BY <1>3
    <3>4. StepsOf(calls[c].outer)' = StepsOf(calls[c + 1].outer)
          /\ StepsOf(calls[d].outer)' = StepsOf(calls[d + 1].outer)
      BY <3>3 DEF StepsOf
    <3>5. QED
      BY <3>2, <3>4 DEF Apart, SameStep
  <2>4. QED
    BY <2>1, <2>2, <2>3 DEF StepsOnce
<1>9. QED
  BY <1>1, <1>2, <1>3, <1>5, <1>7, <1>8

-----------------------------------------------------------------------------
(* What has come.                                                           *)

LEMMA StepsTyped ==
    ASSUME TypeOK
    PROVE  /\ AllSteps \subseteq StepSet /\ Rows \subseteq InvocationIds
           /\ queue \in Seq(StepSet) /\ calls \in Seq(CallSet) /\ DOMAIN records \subseteq InvocationIds
           /\ DOMAIN calls = 1..Len(calls) /\ Len(calls) \in Nat
<1>1. queue \in Seq(StepSet) /\ calls \in Seq(CallSet) /\ DOMAIN records \subseteq InvocationIds
  BY DEF TypeOK
<1>2. \A c \in DOMAIN calls : calls[c].row \in InvocationIds /\ calls[c].outer \in Seq(StepSet)
  <2>1. \A c \in DOMAIN calls : calls[c] \in CallSet
    BY <1>1
  <2>2. QED
    BY <2>1 DEF CallSet
<1>3. \A q \in Seq(StepSet) : StepsOf(q) \subseteq StepSet
  BY DEF StepsOf
<1>4. AllSteps \subseteq StepSet
  BY <1>1, <1>2, <1>3 DEF AllSteps
<1>5. QED
  BY <1>1, <1>2, <1>4 DEF Rows

LEMMA StepIs ==
    ASSUME NEW s \in StepSet, MaxItems \in Nat
    PROVE  /\ s.op \in {"enter", "leave", "iterate"} /\ s.node \in DOMAIN plan
           /\ s.iteration \in Seq(Nat) /\ s.index \in Nat /\ s.of \in Nat /\ s.index <= MaxItems
           /\ First(s.node, s.iteration) \in InvocationIds
           /\ First(s.node, s.iteration).attempt = 0
           /\ First(s.node, s.iteration).node = s.node
           /\ First(s.node, s.iteration).iteration = s.iteration
BY DEF StepSet, First, Id, InvocationIds

LEMMA FirstIs ==
    \A n, it, m, jt : First(n, it) = First(m, jt) => n = m /\ it = jt
BY DEF First, Id

\* What has come once has come for good.
LEMMA CameKeeps ==
    ASSUME NEW n, NEW it, Came(n, it), plan' = plan, MaxItems \in Nat,
           DOMAIN records \subseteq DOMAIN records',
           DOMAIN records \cup Rows \subseteq (DOMAIN records \cup Rows)',
           AllSteps \subseteq StepSet, AllSteps' \subseteq StepSet,
           \A s \in AllSteps' : s.op = "iterate" =>
              \/ First(s.node, s.iteration) \notin DOMAIN records
              \/ \E t \in AllSteps : /\ t.op = "iterate" /\ t.node = s.node
                                     /\ t.iteration = s.iteration /\ t.index <= s.index
    PROVE  Came(n, it)'
<1> DEFINE p == plan[n].parent
<1>1. n # 1 /\ plan[p].block \in {"unit", "if", "else"} => First(p, it) \in DOMAIN records'
  BY DEF Came
<1>2. ASSUME n # 1, plan[p].block = "loop"
      PROVE  \E h \in Seq(Nat), k \in Nat :
                /\ it = Append(h, k) /\ First(p, h) \in DOMAIN records'
                /\ \A s \in AllSteps' :
                      s.op = "iterate" /\ s.node = p /\ s.iteration = h => k < s.index
  <2>1. PICK h \in Seq(Nat), k \in Nat :
            /\ it = Append(h, k) /\ First(p, h) \in DOMAIN records
            /\ \A s \in AllSteps : s.op = "iterate" /\ s.node = p /\ s.iteration = h => k < s.index
    BY <1>2 DEF Came
  <2>2. ASSUME NEW s \in AllSteps', s.op = "iterate", s.node = p, s.iteration = h PROVE k < s.index
    <3>1. PICK t \in AllSteps : /\ t.op = "iterate" /\ t.node = s.node
                                /\ t.iteration = s.iteration /\ t.index <= s.index
      BY <2>1, <2>2
    <3>2. k < t.index
      BY <2>1, <2>2, <3>1
    <3>3. s.index \in Nat /\ t.index \in Nat
      BY StepIs
    <3>4. QED
      BY <3>1, <3>2, <3>3
  <2>3. QED
    BY <2>1, <2>2
<1>3. ASSUME n # 1, plan[p].block = "action"
      PROVE  \E h \in Seq(Nat), k \in Nat :
                it = Append(h, k) /\ Id(p, h, k) \in (DOMAIN records \cup Rows)'
  BY <1>3 DEF Came
<1>4. \A q, h, k : First(q, h)' = First(q, h) /\ Id(q, h, k)' = Id(q, h, k)
  BY DEF First, Id
<1>5. p' = p
  OBVIOUS
<1> HIDE DEF p
<1>6. /\ n # 1 /\ plan'[p].block \in {"unit", "if", "else"} => First(p, it) \in DOMAIN records'
      /\ n # 1 /\ plan'[p].block = "loop" =>
            \E h \in Seq(Nat), k \in Nat :
               /\ it = Append(h, k) /\ First(p, h) \in DOMAIN records'
               /\ \A s \in AllSteps' :
                     s.op = "iterate" /\ s.node = p /\ s.iteration = h => k < s.index
      /\ n # 1 /\ plan'[p].block = "action" =>
            \E h \in Seq(Nat), k \in Nat : it = Append(h, k) /\ Id(p, h, k) \in (DOMAIN records \cup Rows)'
  BY <1>1, <1>2, <1>3
<1>7. QED
  BY <1>4, <1>5, <1>6, ZenonT(30) DEF Came, p

\* The step at the head of the queue is taken: what it enters has not come, and
\* what it leaves behind fits.
LEMMA StepKeeps ==
    ASSUME TypeOK, Placed, at = "step", queue # <<>>,
           NEW new \in Seq(StepSet), Alone(new),
           queue' = new \o Tail(queue), calls' = calls, plan' = plan,
           DOMAIN records \subseteq DOMAIN records',
           DOMAIN records' \subseteq DOMAIN records \cup {Here}, Active' \subseteq Rows \cup {Here},
           Head(queue).op # "enter" => DOMAIN records' \subseteq DOMAIN records /\ Active' \subseteq Rows,
           \A s \in StepsOf(new), t \in AllSteps : SameStep(s, t) => SameStep(t, Head(queue)),
           \A s \in StepsOf(new) :
              /\ s.op = "enter" => First(s.node, s.iteration) \notin Begun' /\ Came(s.node, s.iteration)'
              /\ s.op # "enter" => First(s.node, s.iteration) \in DOMAIN records'
              /\ s.op = "iterate" => /\ plan[s.node].block = "loop" /\ s.index <= s.of
                                     /\ \/ First(s.node, s.iteration) \notin DOMAIN records
                                        \/ SameStep(s, Head(queue)) /\ Head(queue).index <= s.index
    PROVE  queue' \in Seq(StepSet) /\ StepsOnce' /\ RowsOnce' /\ StepsFit' /\ AllCame'
<1> DEFINE head == Head(queue)
<1>1. /\ AllSteps \subseteq StepSet /\ Rows \subseteq InvocationIds
      /\ queue \in Seq(StepSet) /\ DOMAIN records \subseteq InvocationIds /\ MaxItems \in Nat
  BY StepsTyped, PlanIs
<1>2. /\ queue' \in Seq(StepSet) /\ StepsOnce'
      /\ \A t \in AllSteps' : t \in StepsOf(new) \/ (t \in AllSteps /\ ~SameStep(t, head))
  BY <1>1, QueueStep DEF Placed
<1>3. head \in StepSet /\ head \in AllSteps
  BY <1>1, TailSteps DEF AllSteps
<1>4. Here = First(head.node, head.iteration) /\ Here \in InvocationIds
  BY <1>1, <1>3, StepIs DEF Here, First, Id
<1>5. Rows' = Rows /\ Active = Rows /\ Begun = DOMAIN records \cup Rows
  BY DEF Rows, Active, Begun
<1>6. head.op = "enter" => Here \notin Begun
  BY <1>3, <1>4 DEF Placed, StepsFit
<1>7. Begun' \subseteq Begun \cup {Here} /\ (head.op # "enter" => Begun' \subseteq Begun)
  BY <1>5 DEF Begun
<1>8. RowsOnce'
  <2>1. \A c \in DOMAIN calls : calls[c].row \in Rows /\ calls[c].row \notin DOMAIN records
    BY DEF Placed, RowsOnce, Rows
  <2>2. \A c \in DOMAIN calls : calls[c].row \notin DOMAIN records'
    BY <1>5, <1>6, <2>1
  <2>3. QED
    BY <2>2 DEF Placed, RowsOnce
<1>9. ASSUME NEW t \in AllSteps, ~SameStep(t, head)
      PROVE  /\ t.op = "enter" => First(t.node, t.iteration) \notin Begun'
             /\ t.op # "enter" => First(t.node, t.iteration) \in DOMAIN records'
             /\ t.op = "iterate" => plan[t.node].block = "loop" /\ t.index <= t.of
  <2>1. /\ t.op = "enter" => First(t.node, t.iteration) \notin Begun
        /\ t.op # "enter" => First(t.node, t.iteration) \in DOMAIN records
        /\ t.op = "iterate" => plan[t.node].block = "loop" /\ t.index <= t.of
    BY DEF Placed, StepsFit
  <2>2. head.op = "enter" /\ t.op = "enter" => First(t.node, t.iteration) # Here
    BY <1>4, <1>9, FirstIs DEF SameStep
  <2>3. QED
    BY <1>7, <2>1, <2>2
<1>10. StepsFit'
  BY <1>2, <1>9 DEF StepsFit, First, Id
<1>11. AllSteps' \subseteq StepSet
  <2>1. StepsOf(new) \subseteq StepSet
    BY DEF StepsOf
  <2>2. QED
    BY <1>1, <1>2, <2>1
<1>12. ASSUME NEW n, NEW it, Came(n, it) PROVE Came(n, it)'
  <2>1. ASSUME NEW s \in AllSteps', s.op = "iterate"
        PROVE  \/ First(s.node, s.iteration) \notin DOMAIN records
               \/ \E t \in AllSteps : /\ t.op = "iterate" /\ t.node = s.node
                                      /\ t.iteration = s.iteration /\ t.index <= s.index
    <3>1. CASE s \in AllSteps
      <4>1. s.index <= s.index
        BY <1>1, <3>1, StepIs
      <4>2. QED
        BY <2>1, <3>1, <4>1
    <3>2. CASE s \in StepsOf(new)
      <4>1. SameStep(s, head) => head.op = "iterate" /\ head.node = s.node /\ head.iteration = s.iteration
        BY <2>1 DEF SameStep
      <4>2. QED
        BY <1>3, <2>1, <3>2, <4>1
    <3>3. QED
      BY <1>2, <3>1, <3>2
  <2>2. DOMAIN records \cup Rows \subseteq (DOMAIN records \cup Rows)'
    BY <1>5
  <2>3. QED
    BY <1>1, <1>11, <1>12, <2>1, <2>2, CameKeeps
<1>13. AllCame'
  <2>1. \A s \in AllSteps : s.op = "enter" => Came(s.node, s.iteration)
    <3>1. \A s \in AllSteps : s.op = "enter" =>
             /\ First(s.node, s.iteration) \in Due /\ First(s.node, s.iteration).node = s.node
             /\ First(s.node, s.iteration).iteration = s.iteration
      BY <1>1, StepIs DEF Due, EnterSteps
    <3>2. QED
      BY <3>1 DEF Placed, AllCame
  <2>2. \A i \in Begun : Came(i.node, i.iteration)
    BY DEF Placed, AllCame
  <2>3. \A s \in AllSteps' : s.op = "enter" => Came(s.node, s.iteration)'
    BY <1>2, <1>12, <2>1
  <2>4. ASSUME NEW i \in Begun' PROVE Came(i.node, i.iteration)'
    <3>1. CASE i \in Begun
      BY <1>12, <2>2, <3>1
    <3>2. CASE i = Here /\ head.op = "enter"
      <4>1. Came(head.node, head.iteration) /\ i.node = head.node /\ i.iteration = head.iteration
        BY <1>1, <1>3, <1>4, <2>1, <3>2, StepIs
      <4>2. QED
        BY <1>12, <4>1
    <3>3. QED
      BY <1>7, <3>1, <3>2
  <2>5. ASSUME NEW i \in Due' PROVE Came(i.node, i.iteration)'
    <3>1. PICK s \in AllSteps' : s.op = "enter" /\ i = First(s.node, s.iteration)
      BY DEF Due, EnterSteps, First, Id
    <3>2. i.node = s.node /\ i.iteration = s.iteration
      BY <1>1, <1>11, <3>1, StepIs
    <3>3. QED
      BY <2>3, <3>1, <3>2
  <2>6. QED
    BY <2>4, <2>5 DEF AllCame
<1>14. QED
  BY <1>2, <1>8, <1>10, <1>13

-----------------------------------------------------------------------------
(* Attempts.                                                                *)

LEMMA IdIs ==
    ASSUME NEW i \in InvocationIds
    PROVE  /\ i.node \in DOMAIN plan /\ i.iteration \in Seq(Nat) /\ i.attempt \in Nat
           /\ i = Id(i.node, i.iteration, i.attempt)
           /\ \A k \in Nat : /\ Attempt(i, k) \in InvocationIds /\ Attempt(i, k).attempt = k
                             /\ Attempt(i, k).node = i.node /\ Attempt(i, k).iteration = i.iteration
           /\ i.attempt > 0 => /\ Before(i) = Attempt(i, i.attempt - 1) /\ i.attempt - 1 \in Nat
                               /\ \A k \in Nat : Attempt(Before(i), k) = Attempt(i, k)
           /\ Attempt(i, i.attempt) = i
           /\ Again(i) \in InvocationIds /\ Again(i).attempt = i.attempt + 1 /\ Again(i) # i
           /\ Again(i).node = i.node /\ Again(i).iteration = i.iteration
           /\ Before(Again(i)) = i /\ Attempt(Again(i), i.attempt) = i
<1>1. /\ i.node \in DOMAIN plan /\ i.iteration \in Seq(Nat) /\ i.attempt \in Nat
      /\ i = Id(i.node, i.iteration, i.attempt)
  BY DEF InvocationIds, Id
<1>2. \A k : Attempt(i, k) = Id(i.node, i.iteration, k)
  BY DEF InvocationIds, Id, Attempt
<1>3. \A k \in Nat : Id(i.node, i.iteration, k) \in InvocationIds
  BY <1>1 DEF InvocationIds, Id
<1>4. \A k : /\ Id(i.node, i.iteration, k).attempt = k /\ Id(i.node, i.iteration, k).node = i.node
             /\ Id(i.node, i.iteration, k).iteration = i.iteration
             /\ \A j : Attempt(Id(i.node, i.iteration, k), j) = Id(i.node, i.iteration, j)
  BY DEF Id, Attempt
<1>5. \A k : /\ Again(Id(i.node, i.iteration, k)) = Id(i.node, i.iteration, k + 1)
             /\ Before(Id(i.node, i.iteration, k)) = Id(i.node, i.iteration, k - 1)
  BY DEF Id, Again, Before
<1>6. Again(i) = Id(i.node, i.iteration, i.attempt + 1) /\ Before(i) = Id(i.node, i.iteration, i.attempt - 1)
  BY <1>1, <1>5
<1>7. i.attempt + 1 \in Nat /\ i.attempt + 1 # i.attempt /\ (i.attempt + 1) - 1 = i.attempt
      /\ (i.attempt > 0 => i.attempt - 1 \in Nat)
  BY <1>1
<1>8. Again(i) \in InvocationIds /\ Again(i).attempt = i.attempt + 1 /\ Again(i) # i
      /\ Again(i).node = i.node /\ Again(i).iteration = i.iteration
  BY <1>1, <1>3, <1>4, <1>6, <1>7
<1>9. Before(Again(i)) = i /\ Attempt(Again(i), i.attempt) = i
  <2>1. Before(Again(i)) = Id(i.node, i.iteration, (i.attempt + 1) - 1)
    BY <1>5, <1>6
  <2>2. Attempt(Again(i), i.attempt) = Id(i.node, i.iteration, i.attempt)
    BY <1>4, <1>6
  <2>3. QED
    BY <1>1, <1>7, <2>1, <2>2
<1>10. \A k \in Nat : /\ Attempt(i, k) \in InvocationIds /\ Attempt(i, k).attempt = k
                      /\ Attempt(i, k).node = i.node /\ Attempt(i, k).iteration = i.iteration
  BY <1>2, <1>3, <1>4
<1>11. i.attempt > 0 => /\ Before(i) = Attempt(i, i.attempt - 1) /\ i.attempt - 1 \in Nat
                        /\ \A k \in Nat : Attempt(Before(i), k) = Attempt(i, k)
  BY <1>2, <1>4, <1>6, <1>7
<1>12. Attempt(i, i.attempt) = i
  BY <1>1, <1>2
<1>13. QED
  BY <1>1, <1>8, <1>9, <1>10, <1>11, <1>12

LEMMA BegunTyped ==
    ASSUME TypeOK PROVE Begun \subseteq InvocationIds /\ unit \in InvocationIds
BY StepsTyped DEF TypeOK, Begun, Active

\* Records of failed attempts and their proofs stay as they are, and what is begun
\* is a first attempt or one whose turn it is.
LEMMA TriedKeeps ==
    ASSUME TypeOK, Tried, plan' = plan, Begun' \subseteq InvocationIds,
           \A i \in exhausted' :
              \/ i \in exhausted
              \/ /\ i.attempt = plan[i.node].limit
                 /\ \A k \in Nat : k <= i.attempt =>
                       Attempt(i, k) \in DOMAIN records' /\ records'[Attempt(i, k)].status = "failed",
           \A i \in DOMAIN records :
              /\ i \in DOMAIN records' /\ records'[i].sent = records[i].sent
              /\ records[i].status = "failed" => records'[i] = records[i],
           \A i \in DOMAIN proofs :
              /\ i \in DOMAIN proofs'
              /\ i \in DOMAIN records /\ records[i].status = "failed" => proofs'[i] = proofs[i],
           \A i \in DOMAIN records' :
              i \in DOMAIN records \/ records'[i].sent # "changed" \/ Before(i) \notin DOMAIN proofs,
           \A i \in Begun' :
              \/ i \in Begun
              \/ i.attempt = 0
              \/ /\ i.attempt > 0 /\ i.attempt <= plan[i.node].limit /\ Before(i) \in Begun
                 /\ Before(i) \in DOMAIN records' /\ records'[Before(i)].status = "failed"
                 /\ Excused(i)'
    PROVE  Tried'
<1> DEFINE Failed(i) == i \in DOMAIN records /\ records[i].status = "failed"
           FailsNow(i) == i \in DOMAIN records' /\ records'[i].status = "failed"
<1>1. Begun \subseteq InvocationIds
  BY BegunTyped
<1>2. \A i : Failed(i) => FailsNow(i) /\ records'[i] = records[i]
  OBVIOUS
<1>3. \A i \in Begun : \A k \in Nat : k < i.attempt => Failed(Attempt(i, k))
  BY DEF Tried, EarlierFailed
<1>4. \A i \in Begun : i.attempt > 0 => Failed(Before(i))
  <2> SUFFICES ASSUME NEW i \in Begun, i.attempt > 0 PROVE Failed(Before(i))
    OBVIOUS
  <2>1. i.attempt - 1 \in Nat /\ i.attempt - 1 < i.attempt /\ Before(i) = Attempt(i, i.attempt - 1)
    BY <1>1, IdIs
  <2> HIDE DEF Failed
  <2>2. QED
    BY <1>3, <2>1
<1>5. EarlierFailed'
  <2> SUFFICES ASSUME NEW i \in Begun', NEW k \in Nat, k < i.attempt PROVE FailsNow(Attempt(i, k))
    BY DEF EarlierFailed, Attempt
  <2> HIDE DEF Failed, FailsNow
  <2>1. CASE i \in Begun
    BY <1>2, <1>3, <2>1
  <2>2. CASE i.attempt = 0
    BY <2>2
  <2>3. CASE i.attempt > 0 /\ Before(i) \in Begun /\ FailsNow(Before(i))
    <3>1. /\ i.attempt \in Nat /\ Before(i) = Attempt(i, i.attempt - 1) /\ i.attempt - 1 \in Nat
          /\ Before(i).attempt = i.attempt - 1 /\ Attempt(Before(i), k) = Attempt(i, k)
      BY <2>3, IdIs
    <3>2. CASE k = i.attempt - 1
      BY <2>3, <3>1, <3>2
    <3>3. CASE k < i.attempt - 1
      BY <1>2, <1>3, <2>3, <3>1, <3>3
    <3>4. QED
      BY <3>1, <3>2, <3>3
  <2>4. QED
    BY <2>1, <2>2, <2>3 DEF FailsNow
<1>6. WithinBudget'
  <2> SUFFICES ASSUME NEW i \in Begun', i.attempt > 0 PROVE i.attempt <= plan[i.node].limit
    BY DEF WithinBudget
  <2>1. QED
    BY DEF Tried, WithinBudget
<1>7. AllExcused'
  <2> SUFFICES ASSUME NEW i \in Begun', i.attempt > 0 PROVE Excused(i)'
    BY DEF AllExcused, Excused, Before
  <2>1. CASE i \in Begun
    <3>1. Before(i) \in DOMAIN records /\ records[Before(i)].status = "failed"
          /\ records'[Before(i)] = records[Before(i)]
      BY <1>4, <2>1
    <3>2. Excused(i)
      BY <2>1 DEF Tried, AllExcused
    <3>3. Before(i)' = Before(i)
      BY DEF Before
    <3>4. \A r : Uncertain(r)' = Uncertain(r)
      BY DEF Uncertain
    <3> DEFINE b == Before(i)
               was == records[b]
    <3>5. CASE was.effect = "none" /\ was.phase = "pre"
      BY <3>1, <3>3, <3>5 DEF Excused
    <3>6. CASE /\ b \in DOMAIN proofs /\ (i \in DOMAIN records => records[i].sent # "changed")
               /\ Uncertain(was) => proofs[b].method = "reconcile"
      <4>1. b \in DOMAIN proofs' /\ proofs'[b] = proofs[b]
        BY <3>1, <3>6
      <4>2. i \in DOMAIN records' => records'[i].sent # "changed"
        BY <3>6
      <4> HIDE DEF b
      <4>3. records'[b] = was /\ b' = b
        BY <3>1, <3>3 DEF b
      <4>4. Uncertain(records'[b]) => proofs'[b].method = "reconcile"
        BY <3>6, <4>1, <4>3
      <4>5. QED
        BY <3>4, <4>1, <4>2, <4>3, <4>4 DEF Excused, b, Uncertain
    <3>7. QED
      BY <3>2, <3>5, <3>6 DEF Excused
  <2>2. QED
    BY <2>1, <1>1
<1>8. ExhaustedFits'
  <2>1. \A i \in exhausted' : i.attempt = plan[i.node].limit
    BY DEF Tried, ExhaustedFits
  <2>2. \A i \in exhausted' : \A k \in Nat : k <= i.attempt => FailsNow(Attempt(i, k))
    BY <1>2 DEF Tried, ExhaustedFits
  <2>3. QED
    BY <2>1, <2>2 DEF ExhaustedFits, Attempt
<1>9. QED
  BY <1>5, <1>6, <1>7, <1>8 DEF Tried

\* The attempt under way goes on, ends, or is followed by another; the queues stay.
LEMMA UnitKeeps ==
    ASSUME TypeOK, Placed, Tried, at # "step", queue' = queue, calls' = calls, plan' = plan,
           DOMAIN records' = DOMAIN records \cup {unit},
           \/ at' = "step"
           \/ /\ at' = "handle" /\ unit' = unit
              /\ records'[unit].status = "running" /\ records'[unit].phase # "none"
           \/ at' = "attempt" /\ unit' = Again(unit) /\ at = "handle"
    PROVE  /\ Placed' /\ Begun \subseteq Begun'
           /\ Begun' \subseteq Begun \cup (IF at' = "attempt" THEN {Again(unit)} ELSE {})
<1>1. /\ AllSteps \subseteq StepSet /\ Rows \subseteq InvocationIds
      /\ DOMAIN records \subseteq InvocationIds /\ MaxItems \in Nat /\ unit \in InvocationIds
  BY StepsTyped, PlanIs, BegunTyped
<1>2. AllSteps' = AllSteps /\ Rows' = Rows
  BY DEF AllSteps, StepsOf, Rows
<1>3. Begun = DOMAIN records \cup Rows \cup {unit} /\ unit \in Active
  BY DEF Begun, Active
<1>4. Begun' = DOMAIN records \cup Rows \cup {unit} \cup (IF at' = "attempt" THEN {Again(unit)} ELSE {})
  BY <1>2 DEF Begun, Active
<1>5. unit \notin Rows
  <2>1. \A c \in DOMAIN calls : calls[c].row \notin DOMAIN records
    BY DEF Placed, RowsOnce
  <2>2. at = "attempt" \/ at = "handle"
    BY DEF TypeOK
  <2>3. QED
    BY <2>1, <2>2 DEF Placed, UnitFits, Rows
<1>6. StepsOnce'
  <2>1. \A c \in DOMAIN calls : StepsOf(calls[c].outer)' = StepsOf(calls[c].outer)
    BY DEF StepsOf
  <2>2. StepsOf(queue)' = StepsOf(queue)
    BY DEF StepsOf
  <2>3. QED
    BY <2>1, <2>2 DEF Placed, StepsOnce, Alone, Apart, SameStep
<1>7. RowsOnce'
  <2>1. \A c \in DOMAIN calls : calls[c].row \in Rows
    BY DEF Rows
  <2>2. QED
    BY <1>5, <2>1 DEF Placed, RowsOnce
<1>8. StepsFit'
  <2>1. \A s \in AllSteps : First(s.node, s.iteration) # Again(unit)
    <3>1. Again(unit).attempt = unit.attempt + 1 /\ unit.attempt \in Nat
      BY <1>1, IdIs
    <3>2. \A s \in AllSteps : First(s.node, s.iteration).attempt = 0
      BY <1>1, StepIs
    <3>3. QED
      BY <3>1, <3>2
  <2>2. \A s \in AllSteps : s.op = "enter" => First(s.node, s.iteration) \notin Begun'
    BY <1>3, <1>4, <2>1 DEF Placed, StepsFit
  <2>3. QED
    BY <1>2, <2>2 DEF Placed, StepsFit, First, Id
<1>9. UnitFits'
  <2>1. \A i \in Active' : plan[i.node].block = "action"
    <3>1. \A i \in Rows \cup {unit} : plan[i.node].block = "action"
      BY <1>3 DEF Placed, UnitFits, Active
    <3>2. Again(unit).node = unit.node
      BY <1>1, IdIs
    <3>3. Active' \subseteq Rows \cup {unit, Again(unit)}
      BY <1>2 DEF Active
    <3>4. QED
      BY <3>1, <3>2, <3>3
  <2>2. ASSUME at' = "attempt" PROVE unit' \notin DOMAIN records' \cup Rows'
    <3>1. at = "handle" /\ unit' = Again(unit)
      BY <2>2
    <3>2. records[unit].status = "running"
      BY <3>1 DEF Placed, UnitFits
    <3>3. Again(unit) \notin Begun
      <4> SUFFICES ASSUME Again(unit) \in Begun PROVE FALSE
        OBVIOUS
      <4>1. /\ unit.attempt \in Nat /\ unit.attempt < Again(unit).attempt
            /\ Attempt(Again(unit), unit.attempt) = unit
        BY <1>1, IdIs
      <4>2. records[unit].status = "failed"
        BY <4>1 DEF Tried, EarlierFailed
      <4>3. QED
        BY <3>2, <4>2
    <3>4. QED
      BY <1>2, <1>3, <3>1, <3>3
  <2>3. QED
    BY <2>1, <2>2 DEF UnitFits
<1>10. AllCame'
  <2>1. ASSUME NEW n, NEW it, Came(n, it) PROVE Came(n, it)'
    <3>1. \A s \in AllSteps' : s.op = "iterate" =>
             \E t \in AllSteps : /\ t.op = "iterate" /\ t.node = s.node
                                 /\ t.iteration = s.iteration /\ t.index <= s.index
      BY <1>1, <1>2, StepIs
    <3>2. DOMAIN records \cup Rows \subseteq (DOMAIN records \cup Rows)'
      BY <1>2
    <3>3. AllSteps' \subseteq StepSet
      BY <1>1, <1>2
    <3>4. QED
      BY <1>1, <2>1, <3>1, <3>2, <3>3, CameKeeps
  <2>2. Again(unit).node = unit.node /\ Again(unit).iteration = unit.iteration
    BY <1>1, IdIs
  <2>3. \A i \in Due \cup Begun : Came(i.node, i.iteration)
    BY DEF Placed, AllCame
  <2>4. Due' = Due
    BY <1>2 DEF Due, EnterSteps, First, Id
  <2>5. \A i \in Due \cup Begun \cup {Again(unit)} : Came(i.node, i.iteration)'
    BY <1>3, <2>1, <2>2, <2>3
  <2>6. QED
    BY <1>3, <1>4, <2>4, <2>5 DEF AllCame
<1>11. QED
  BY <1>3, <1>4, <1>6, <1>7, <1>8, <1>9, <1>10 DEF Placed

-----------------------------------------------------------------------------
(* Types.                                                                   *)

LEMMA TypeKeeps ==
    ASSUME TypeOK, SamePlan, queue' \in Seq(StepSet), calls' \in Seq(CallSet),
           \A c \in DOMAIN calls' : calls'[c].before \subseteq DOMAIN records',
           at' \in {"step", "attempt", "handle"}, unit' \in InvocationIds,
           DOMAIN records' \subseteq InvocationIds,
           \A i \in DOMAIN records' : records'[i] \in RecordSet,
           \A i \in DOMAIN events' : i \in InvocationIds /\ events'[i] \in Dispositions,
           \A i \in DOMAIN proofs' : i \in DOMAIN records' /\ proofs'[i] \in Proofs,
           exhausted' \subseteq DOMAIN records', abandoned' \subseteq DOMAIN plan, halted' \in BOOLEAN
    PROVE  TypeOK'
<1>1. plan' = plan /\ interleaving' = interleaving
  BY DEF SamePlan
<1>2. InvocationIds' = InvocationIds /\ StepSet' = StepSet
  BY <1>1 DEF InvocationIds, StepSet
<1>3. CallSet' = CallSet
  BY <1>2 DEF CallSet
<1>4. RecordSet' = RecordSet /\ Proofs' = Proofs
  BY DEF RecordSet, Proofs
<1>5. DOMAIN events' \subseteq InvocationIds /\ DOMAIN proofs' \subseteq DOMAIN records'
  OBVIOUS
<1>6. (\E r \in Runs : plan = r.plan /\ interleaving = r.interleaving)'
  BY <1>1 DEF TypeOK
<1>7. QED
  BY <1>1, <1>2, <1>3, <1>4, <1>5, <1>6 DEF TypeOK

LEMMA BareIs ==
    ASSUME NEW status \in Statuses
    PROVE  /\ Bare(status) \in RecordSet /\ Bare(status).sent = "no" /\ Bare(status).status = status
BY DEF Bare, Result, RecordSet, Phases, EffectStates

LEMMA PutAllIs ==
    ASSUME NEW f, NEW K, NEW v
    PROVE  /\ DOMAIN PutAll(f, K, v) = DOMAIN f \cup K
           /\ \A x \in K : PutAll(f, K, v)[x] = v
           /\ \A x \in DOMAIN f : x \notin K => PutAll(f, K, v)[x] = f[x]
BY DEF PutAll

LEMMA PutIs ==
    ASSUME NEW f, NEW k, NEW v
    PROVE  /\ DOMAIN Put(f, k, v) = DOMAIN f \cup {k} /\ Put(f, k, v)[k] = v
           /\ \A x \in DOMAIN f : x # k => Put(f, k, v)[x] = f[x]
<1> DEFINE g == [x \in DOMAIN f \cup {k} |-> IF x \in {k} THEN v ELSE f[x]]
<1>1. Put(f, k, v) = g
  BY DEF Put, PutAll
<1>2. /\ DOMAIN g = DOMAIN f \cup {k} /\ g[k] = v
      /\ \A x \in DOMAIN f : x # k => g[x] = f[x]
  OBVIOUS
<1> HIDE DEF g
<1>3. QED
  BY <1>1, <1>2

LEMMA RaisedTyped ==
    ASSUME TypeOK, NEW K \in SUBSET InvocationIds
    PROVE  \A e \in {events, PutAll(events, K, "pending")} : \A i \in DOMAIN e :
              i \in InvocationIds /\ e[i] \in Dispositions
<1>1. "pending" \in Dispositions
  BY DEF Dispositions
<1>2. \A i \in DOMAIN events : i \in InvocationIds /\ events[i] \in Dispositions
  BY DEF TypeOK
<1> DEFINE e == PutAll(events, K, "pending")
<1>3. /\ DOMAIN e = DOMAIN events \cup K
      /\ \A i \in DOMAIN e : e[i] = IF i \in K THEN "pending" ELSE events[i]
  BY DEF PutAll
<1> HIDE DEF e
<1>4. \A i \in DOMAIN e : i \in InvocationIds /\ e[i] \in Dispositions
  BY <1>1, <1>2, <1>3
<1>5. QED
  BY <1>2, <1>4 DEF e

-----------------------------------------------------------------------------
(* Steps that enter.                                                        *)

LEMMA HereIs ==
    ASSUME TypeOK, Placed, at = "step", queue # <<>>
    PROVE  /\ Head(queue) \in AllSteps /\ Head(queue) \in StepSet
           /\ Here \in InvocationIds /\ Here.attempt = 0
           /\ Here.node = Head(queue).node /\ Here.iteration = Head(queue).iteration
           /\ Here = First(Here.node, Here.iteration)
           /\ Here.node \in DOMAIN plan /\ Here.iteration \in Seq(Nat)
           /\ Head(queue).op = "enter" => Here \notin Begun
           /\ Head(queue).op # "enter" => Here \in DOMAIN records
<1>1. Head(queue) \in AllSteps /\ Head(queue) \in StepSet /\ MaxItems \in Nat
  BY StepsTyped, TailSteps, PlanIs DEF AllSteps
<1>2. Here = First(Head(queue).node, Head(queue).iteration)
  BY DEF Here
<1>3. /\ Here \in InvocationIds /\ Here.attempt = 0 /\ Here.node = Head(queue).node
      /\ Here.iteration = Head(queue).iteration /\ Here.node \in DOMAIN plan
      /\ Here.iteration \in Seq(Nat)
  BY <1>1, <1>2, StepIs
<1>4. QED
  BY <1>1, <1>2, <1>3 DEF Placed, StepsFit

LEMMA DueCame ==
    ASSUME AllCame, NEW s \in StepSet, MaxItems \in Nat, First(s.node, s.iteration) \in Due \cup Begun
    PROVE  Came(s.node, s.iteration)
BY StepIs DEF AllCame

LEMMA EnterKeeps ==
    ASSUME ExecInv, Taking("enter"), NEW status \in Statuses, NEW new \in Seq(StepSet), Alone(new),
           records' = Put(records, Here, Bare(status)), queue' = new \o Tail(queue),
           UNCHANGED <<at, unit>>, SameRun, SamePlan, abandoned' \subseteq DOMAIN plan,
           \A i \in DOMAIN events' : i \in InvocationIds /\ events'[i] \in Dispositions,
           \A s \in StepsOf(new) :
              /\ s.op = "enter" => /\ First(s.node, s.iteration) \notin Due \cup Begun \cup {Here}
                                   /\ Came(s.node, s.iteration)'
              /\ s.op # "enter" => First(s.node, s.iteration) = Here
              /\ s.op = "iterate" => plan[s.node].block = "loop" /\ s.index <= s.of
    PROVE  ExecInv'
<1>1. /\ at = "step" /\ queue # <<>> /\ Head(queue).op = "enter" /\ TypeOK /\ Placed /\ Tried
      /\ plan' = plan /\ calls' = calls /\ proofs' = proofs /\ exhausted' = exhausted
      /\ halted' = halted /\ at' = at /\ unit' = unit
  BY DEF Taking, ExecInv, SameRun, SamePlan
<1>2. Here \in InvocationIds /\ Here.attempt = 0 /\ Here \notin Begun
  BY <1>1, HereIs
<1>3. Rows' = Rows /\ Active = Rows /\ Active' = Rows /\ Begun = DOMAIN records \cup Rows
  BY <1>1 DEF Rows, Active, Begun
<1>4. /\ DOMAIN records' = DOMAIN records \cup {Here} /\ records'[Here] = Bare(status)
      /\ \A i \in DOMAIN records : i # Here => records'[i] = records[i]
  <2> DEFINE b == Bare(status)
  <2>1. records' = Put(records, Here, b)
    OBVIOUS
  <2> HIDE DEF b
  <2>2. /\ DOMAIN records' = DOMAIN records \cup {Here} /\ records'[Here] = b
        /\ \A i \in DOMAIN records : i # Here => records'[i] = records[i]
    BY <2>1 DEF Put, PutAll
  <2>3. QED
    BY <2>2 DEF b
<1>5. Here \notin DOMAIN records /\ \A i \in DOMAIN records : records'[i] = records[i]
  BY <1>2, <1>3, <1>4
<1>6. Begun' = Begun \cup {Here}
  BY <1>3, <1>4 DEF Begun
<1>7. \A s \in StepsOf(new), t \in AllSteps : ~SameStep(s, t)
  <2> SUFFICES ASSUME NEW s \in StepsOf(new), NEW t \in AllSteps, SameStep(s, t) PROVE FALSE
    OBVIOUS
  <2>1. s.op = t.op /\ First(s.node, s.iteration) = First(t.node, t.iteration)
    BY DEF SameStep
  <2>2. t.op = "enter" => First(t.node, t.iteration) \in Due
    BY DEF Due, EnterSteps
  <2>3. t.op # "enter" => First(t.node, t.iteration) \in DOMAIN records
    BY <1>1 DEF Placed, StepsFit
  <2>4. QED
    BY <1>5, <2>1, <2>2, <2>3
<1>8. queue' \in Seq(StepSet) /\ StepsOnce' /\ RowsOnce' /\ StepsFit' /\ AllCame'
  <2>1. \A s \in StepsOf(new) :
           /\ s.op = "enter" => First(s.node, s.iteration) \notin Begun' /\ Came(s.node, s.iteration)'
           /\ s.op # "enter" => First(s.node, s.iteration) \in DOMAIN records'
           /\ s.op = "iterate" =>
                 /\ plan[s.node].block = "loop" /\ s.index <= s.of
                 /\ \/ First(s.node, s.iteration) \notin DOMAIN records
                    \/ SameStep(s, Head(queue)) /\ Head(queue).index <= s.index
    BY <1>4, <1>5, <1>6
  <2>2. \A s \in StepsOf(new), t \in AllSteps : SameStep(s, t) => SameStep(t, Head(queue))
    BY <1>7
  <2>3. /\ DOMAIN records \subseteq DOMAIN records' /\ DOMAIN records' \subseteq DOMAIN records \cup {Here}
        /\ Active' \subseteq Rows \cup {Here}
    BY <1>3, <1>4
  <2>4. QED
    BY <1>1, <2>1, <2>2, <2>3, StepKeeps
<1>9. UnitFits'
  BY <1>1, <1>3 DEF Placed, UnitFits
<1>10. Tried'
  <2>1. \A i \in Begun' : i \in Begun \/ i.attempt = 0
    BY <1>2, <1>6
  <2>2. Begun' \subseteq InvocationIds
    BY <1>1, <1>2, <1>6, BegunTyped
  <2>3. \A i \in DOMAIN records' :
           i \in DOMAIN records \/ records'[i].sent # "changed" \/ Before(i) \notin DOMAIN proofs
    BY <1>4, BareIs
  <2>4. QED
    BY <1>1, <1>4, <1>5, <2>1, <2>2, <2>3, TriedKeeps
<1>11. TypeOK'
  <2>1. \A i \in DOMAIN records' : i \in InvocationIds /\ records'[i] \in RecordSet
    BY <1>1, <1>2, <1>4, <1>5, BareIs DEF TypeOK
  <2>2. \A i \in DOMAIN proofs' : i \in DOMAIN records' /\ proofs'[i] \in Proofs
    BY <1>1, <1>4 DEF TypeOK
  <2>3. /\ exhausted' \subseteq DOMAIN records' /\ halted' \in BOOLEAN /\ at' \in {"step", "attempt", "handle"}
        /\ unit' \in InvocationIds /\ calls' \in Seq(CallSet)
    BY <1>1, <1>4 DEF TypeOK
  <2>4. \A c \in DOMAIN calls' : calls'[c].before \subseteq DOMAIN records'
    BY <1>1, <1>4 DEF TypeOK
  <2>5. QED
    BY <1>1, <1>8, <2>1, <2>2, <2>3, <2>4, TypeKeeps
<1>12. QED
  BY <1>8, <1>9, <1>10, <1>11 DEF ExecInv, Placed

\* A unit that is skipped or fails at once leaves nothing to do.
LEMMA LeftOutKeeps ==
    ASSUME ExecInv, Skip \/ FaultWhen \/ FaultLoop PROVE ExecInv'
<1>1. /\ Taking("enter") /\ UNCHANGED <<at, unit>> /\ SameRun /\ SamePlan /\ queue' = Tail(queue)
      /\ abandoned' = abandoned \cup {Here.node}
      /\ events' \in {events, Put(events, Here, "pending")}
      /\ \E status \in Statuses : records' = Put(records, Here, Bare(status))
  BY DEF Skip, FaultWhen, FaultLoop, Entering, Statuses
<1>2. TypeOK /\ Placed /\ at = "step" /\ queue # <<>>
  BY <1>1 DEF ExecInv, Taking
<1>3. Here \in InvocationIds /\ Here.node \in DOMAIN plan
  BY <1>2, HereIs
<1>4. \A i \in DOMAIN events' : i \in InvocationIds /\ events'[i] \in Dispositions
  BY <1>1, <1>2, <1>3, RaisedTyped DEF Put
<1>5. abandoned' \subseteq DOMAIN plan
  BY <1>1, <1>2, <1>3 DEF TypeOK
<1>6. queue' = <<>> \o Tail(queue)
  BY <1>1, <1>2, StepsTyped, TailSteps, ConcatEmptySeq
<1>7. <<>> \in Seq(StepSet) /\ Alone(<<>>) /\ StepsOf(<<>>) = {}
  BY DEF Alone, StepsOf
<1>8. QED
  BY <1>1, <1>4, <1>5, <1>6, <1>7, EnterKeeps

LEMMA EnterStepIs ==
    ASSUME MaxItems \in Nat, NEW n \in DOMAIN plan, NEW it \in Seq(Nat)
    PROVE  /\ LeaveStep(n, it) \in StepSet /\ LeaveStep(n, it).op = "leave"
           /\ First(LeaveStep(n, it).node, LeaveStep(n, it).iteration) = First(n, it)
           /\ \A m, k \in 0..MaxItems :
                 /\ IterateStep(n, it, m, k) \in StepSet /\ IterateStep(n, it, m, k).op = "iterate"
                 /\ First(IterateStep(n, it, m, k).node, IterateStep(n, it, m, k).iteration) = First(n, it)
                 /\ IterateStep(n, it, m, k).node = n
                 /\ IterateStep(n, it, m, k).index = k /\ IterateStep(n, it, m, k).of = m
<1>1. LeaveStep(n, it) = [op |-> "leave", node |-> n, iteration |-> it, of |-> 0, index |-> 0]
  BY DEF LeaveStep, EnterStep
<1>2. \A m, k : IterateStep(n, it, m, k) =
                    [op |-> "iterate", node |-> n, iteration |-> it, of |-> m, index |-> k]
  BY DEF IterateStep
<1>3. 0 \in 0..MaxItems
  OBVIOUS
<1>4. /\ LeaveStep(n, it) \in StepSet /\ LeaveStep(n, it).op = "leave"
      /\ LeaveStep(n, it).node = n /\ LeaveStep(n, it).iteration = it
  BY <1>1, <1>3 DEF StepSet
<1>5. ASSUME NEW m \in 0..MaxItems, NEW k \in 0..MaxItems
      PROVE  /\ IterateStep(n, it, m, k) \in StepSet /\ IterateStep(n, it, m, k).op = "iterate"
             /\ IterateStep(n, it, m, k).node = n /\ IterateStep(n, it, m, k).iteration = it
             /\ IterateStep(n, it, m, k).index = k /\ IterateStep(n, it, m, k).of = m
  BY <1>2 DEF StepSet
<1>6. QED
  BY <1>4, <1>5

LEMMA SingleIs ==
    ASSUME NEW S, NEW s \in S
    PROVE  <<s>> \in Seq(S) /\ StepsOf(<<s>>) = {s} /\ Alone(<<s>>)
BY DEF StepsOf, Alone

LEMMA FaultedTyped ==
    ASSUME NEW n, NEW it \in Seq(Nat), NEW pick PROVE Faulted(n, it, pick) \in SUBSET InvocationIds
<1>1. \A c \in DOMAIN plan : First(c, it) \in InvocationIds
  BY DEF First, Id, InvocationIds
<1>2. Ifs(n) \subseteq DOMAIN plan
  BY DEF Ifs
<1>3. QED
  BY <1>1, <1>2 DEF Faulted

LEMMA EnterContainerKeeps ==
    ASSUME ExecInv, EnterContainer PROVE ExecInv'
<1>1. /\ Taking("enter") /\ UNCHANGED <<at, unit, abandoned>> /\ SameRun /\ SamePlan
      /\ plan[Here.node].block \in {"unit", "if", "else"}
      /\ records' = Put(records, Here, Bare("running")) /\ plan' = plan
  BY DEF EnterContainer, Entering, SamePlan
<1>2. TypeOK /\ Placed /\ at = "step" /\ queue # <<>> /\ IsPlan(plan) /\ MaxItems \in Nat
      /\ interleaving \in Interleavings /\ queue \in Seq(StepSet)
  BY <1>1, PlanIs, StepsTyped DEF ExecInv, Taking
<1> DEFINE n == Here.node
           it == Here.iteration
           last == <<LeaveStep(n, it)>>
<1>3. /\ Here \in InvocationIds /\ n \in DOMAIN plan /\ it \in Seq(Nat) /\ Here = First(n, it)
      /\ Here \notin Begun
  BY <1>1, <1>2, HereIs DEF Taking
<1> HIDE DEF n, it
<1>4. PICK pick \in Picks(n) :
         LET batch == Enters(Selected(n, pick), it)
         IN  /\ queue' = (IF plan[n].parallel THEN Ordered(batch) ELSE batch) \o last \o Tail(queue)
             /\ events' \in {events, PutAll(events, Faulted(n, it, pick), "pending")}
  BY DEF EnterContainer, n, it
<1> DEFINE batch == Enters(Selected(n, pick), it)
           first == IF plan[n].parallel THEN Ordered(batch) ELSE batch
           new == first \o last
<1>5. /\ batch \in Seq(StepSet) /\ Alone(batch)
      /\ \A s \in StepsOf(batch) :
            /\ s.op = "enter" /\ s.iteration = it /\ s.node \in DOMAIN plan
            /\ s.node # 1 /\ s.node # n /\ plan[s.node].parent = n
  BY <1>2, <1>3, EntersIs
<1> HIDE DEF batch
<1>6. first \in Seq(StepSet) /\ Alone(first) /\ StepsOf(first) \subseteq StepsOf(batch)
  BY <1>2, <1>5, OrderedIs
<1>7. /\ last \in Seq(StepSet) /\ StepsOf(last) = {LeaveStep(n, it)} /\ Alone(last)
      /\ LeaveStep(n, it).op = "leave"
      /\ First(LeaveStep(n, it).node, LeaveStep(n, it).iteration) = Here
  BY <1>2, <1>3, EnterStepIs, SingleIs
<1> HIDE DEF first, last
<1>8. new \in Seq(StepSet) /\ StepsOf(new) = StepsOf(first) \cup StepsOf(last) /\ Alone(new)
  <2>1. Apart(StepsOf(first), StepsOf(last))
    BY <1>5, <1>6, <1>7 DEF Apart, SameStep
  <2>2. first \in Seq(StepSet) /\ last \in Seq(StepSet) /\ Alone(first) /\ Alone(last)
    BY <1>6, <1>7
  <2>3. new \in Seq(StepSet) /\ StepsOf(new) = StepsOf(first) \cup StepsOf(last)
    BY <2>2, JoinedSteps
  <2>4. Alone(new)
    BY <2>1, <2>2, JoinedAlone
  <2>5. QED
    BY <2>3, <2>4
<1>9. queue' = new \o Tail(queue)
  BY <1>4 DEF first, batch
<1>10. \A i \in DOMAIN events' : i \in InvocationIds /\ events'[i] \in Dispositions
  BY <1>2, <1>3, <1>4, FaultedTyped, RaisedTyped
<1>11. ASSUME NEW s \in StepsOf(first)
       PROVE  /\ s.op = "enter" /\ Came(s.node, s.iteration)'
              /\ First(s.node, s.iteration) \notin Due \cup Begun \cup {Here}
  <2>1. /\ s.op = "enter" /\ s.iteration = it /\ s.node \in DOMAIN plan
        /\ s.node # 1 /\ s.node # n /\ plan[s.node].parent = n /\ s \in StepSet
    BY <1>5, <1>6 DEF StepsOf
  <2>2. First(s.node, s.iteration) # Here
    BY <1>3, <2>1, FirstIs
  <2>3. First(s.node, s.iteration) \notin Due \cup Begun
    <3> SUFFICES ASSUME First(s.node, s.iteration) \in Due \cup Begun PROVE FALSE
      OBVIOUS
    <3>1. Came(s.node, s.iteration)
      BY <1>2, <2>1, DueCame DEF Placed
    <3>2. First(n, it) \in DOMAIN records
      BY <1>1, <2>1, <3>1 DEF Came, n
    <3>3. QED
      BY <1>3, <3>2 DEF Begun
  <2>4. Came(s.node, s.iteration)'
    <3>1. First(n, it) \in DOMAIN records'
      BY <1>1, <1>3 DEF Put, PutAll
    <3>2. plan'[n].block \in {"unit", "if", "else"} /\ plan'[s.node].parent = n
      BY <1>1, <2>1 DEF n
    <3>3. First(n, it)' = First(n', it')
      BY DEF First, Id
    <3>4. QED
      BY <2>1, <3>1, <3>2 DEF Came, First, Id
  <2>5. QED
    BY <2>1, <2>2, <2>3, <2>4
<1>12. \A s \in StepsOf(new) :
          /\ s.op = "enter" => /\ First(s.node, s.iteration) \notin Due \cup Begun \cup {Here}
                               /\ Came(s.node, s.iteration)'
          /\ s.op # "enter" => First(s.node, s.iteration) = Here
          /\ s.op = "iterate" => plan[s.node].block = "loop" /\ s.index <= s.of
  BY <1>7, <1>8, <1>11
<1>13. abandoned' \subseteq DOMAIN plan /\ "running" \in Statuses
  BY <1>1, <1>2 DEF TypeOK, Statuses
<1> HIDE DEF new
<1>14. QED
  BY <1>1, <1>8, <1>9, <1>10, <1>12, <1>13, EnterKeeps

LEMMA EnterLoopKeeps ==
    ASSUME ExecInv, EnterLoop PROVE ExecInv'
<1>1. /\ Taking("enter") /\ UNCHANGED <<at, unit, events, abandoned>> /\ SameRun /\ SamePlan
      /\ plan[Here.node].block = "loop" /\ records' = Put(records, Here, Bare("running"))
  BY DEF EnterLoop, Entering
<1>2. TypeOK /\ Placed /\ at = "step" /\ queue # <<>> /\ MaxItems \in Nat /\ queue \in Seq(StepSet)
  BY <1>1, PlanIs, StepsTyped DEF ExecInv, Taking
<1> DEFINE n == Here.node
           it == Here.iteration
<1>3. /\ Here \in InvocationIds /\ n \in DOMAIN plan /\ it \in Seq(Nat) /\ Here = First(n, it)
  BY <1>1, <1>2, HereIs
<1>4. PICK m \in 0..MaxItems : queue' = <<IterateStep(n, it, m, 0), LeaveStep(n, it)>> \o Tail(queue)
  BY DEF EnterLoop
<1> HIDE DEF n, it
<1> DEFINE a == IterateStep(n, it, m, 0)
           b == LeaveStep(n, it)
           new == <<a, b>>
<1>5. /\ a \in StepSet /\ a.op = "iterate" /\ First(a.node, a.iteration) = Here /\ a.node = n
      /\ a.index <= a.of /\ b \in StepSet /\ b.op = "leave" /\ First(b.node, b.iteration) = Here
  <2>1. 0 \in 0..MaxItems /\ 0 <= m
    BY <1>2
  <2>2. QED
    BY <1>2, <1>3, <2>1, EnterStepIs
<1> HIDE DEF a, b
<1>6. new \in Seq(StepSet) /\ StepsOf(new) = {a, b} /\ Alone(new)
  <2>1. new \in Seq(StepSet) /\ DOMAIN new = {1, 2} /\ new[1] = a /\ new[2] = b
    BY <1>5
  <2> HIDE DEF new
  <2>2. QED
    BY <1>5, <2>1 DEF StepsOf, Alone, SameStep
<1>7. queue' = new \o Tail(queue)
  BY <1>4 DEF a, b
<1>8. \A s \in StepsOf(new) :
          /\ s.op = "enter" => /\ First(s.node, s.iteration) \notin Due \cup Begun \cup {Here}
                               /\ Came(s.node, s.iteration)'
          /\ s.op # "enter" => First(s.node, s.iteration) = Here
          /\ s.op = "iterate" => plan[s.node].block = "loop" /\ s.index <= s.of
  BY <1>1, <1>5, <1>6 DEF n
<1>9. /\ \A i \in DOMAIN events' : i \in InvocationIds /\ events'[i] \in Dispositions
      /\ abandoned' \subseteq DOMAIN plan /\ "running" \in Statuses
  BY <1>1, <1>2 DEF TypeOK, Statuses
<1> HIDE DEF new
<1>10. QED
  BY <1>1, <1>6, <1>7, <1>8, <1>9, EnterKeeps

-----------------------------------------------------------------------------
(* Steps that enter nothing new.                                            *)

\* A record that is still active may change its status; nothing else about it does.
LEMMA StatusIs ==
    ASSUME TypeOK, NEW st \in Statuses, NEW x, NEW m,
           m = [records EXCEPT ![x].status = st],
           x \in DOMAIN records => records[x].status = "running"
    PROVE  /\ DOMAIN m = DOMAIN records
           /\ \A i \in DOMAIN records :
                 /\ m[i] \in RecordSet /\ m[i].sent = records[i].sent
                 /\ records[i].status = "failed" => m[i] = records[i]
                 /\ i # x => m[i] = records[i]
           /\ x \in DOMAIN records => /\ m[x].status = st /\ m[x].phase = records[x].phase
                                      /\ m[x].effect = records[x].effect
<1>1. DOMAIN m = DOMAIN records /\ \A i \in DOMAIN records : i # x => m[i] = records[i]
  OBVIOUS
<1>2. \A i \in DOMAIN records : records[i] \in RecordSet
  BY DEF TypeOK
<1>3. ASSUME x \in DOMAIN records
      PROVE  /\ m[x] \in RecordSet /\ m[x].sent = records[x].sent
             /\ m[x].status = st /\ m[x].phase = records[x].phase
             /\ m[x].effect = records[x].effect
  <2>1. m[x] = [records[x] EXCEPT !.status = st]
    BY <1>3
  <2>2. records[x] \in RecordSet
    BY <1>2, <1>3
  <2>3. QED
    BY <2>1, <2>2 DEF RecordSet
<1>4. "running" # "failed"
  OBVIOUS
<1>5. QED
  BY <1>1, <1>2, <1>3, <1>4

\* A step that enters no unit: it may end a container and queue what comes next.
LEMMA PassKeeps ==
    ASSUME ExecInv, at = "step", queue # <<>>, NEW new \in Seq(StepSet), Alone(new),
           queue' = new \o Tail(queue), UNCHANGED <<at, unit>>, SameRun, SamePlan,
           DOMAIN records' = DOMAIN records, abandoned' \subseteq DOMAIN plan,
           \A i \in DOMAIN records :
              /\ records'[i] \in RecordSet /\ records'[i].sent = records[i].sent
              /\ records[i].status = "failed" => records'[i] = records[i],
           \A i \in DOMAIN events' : i \in InvocationIds /\ events'[i] \in Dispositions,
           \A s \in StepsOf(new), t \in AllSteps : SameStep(s, t) => SameStep(t, Head(queue)),
           \A s \in StepsOf(new) :
              /\ s.op = "enter" => First(s.node, s.iteration) \notin Begun /\ Came(s.node, s.iteration)'
              /\ s.op # "enter" => SameStep(s, Head(queue)) /\ Head(queue).index <= s.index
              /\ s.op = "iterate" => plan[s.node].block = "loop" /\ s.index <= s.of
    PROVE  ExecInv'
<1>1. /\ TypeOK /\ Placed /\ Tried
      /\ plan' = plan /\ calls' = calls /\ proofs' = proofs /\ exhausted' = exhausted
      /\ halted' = halted /\ at' = at /\ unit' = unit
  BY DEF ExecInv, SameRun, SamePlan
<1>2. Rows' = Rows /\ Active = Rows /\ Active' = Rows
  BY <1>1 DEF Rows, Active
<1>3. Begun' = Begun
  BY <1>2 DEF Begun
<1>4. /\ Head(queue) \in AllSteps
      /\ Head(queue).op # "enter" => First(Head(queue).node, Head(queue).iteration) \in DOMAIN records
  BY <1>1, HereIs DEF Placed, StepsFit
<1>5. queue' \in Seq(StepSet) /\ StepsOnce' /\ RowsOnce' /\ StepsFit' /\ AllCame'
  <2>1. \A s \in StepsOf(new) :
           /\ s.op = "enter" => First(s.node, s.iteration) \notin Begun' /\ Came(s.node, s.iteration)'
           /\ s.op # "enter" => First(s.node, s.iteration) \in DOMAIN records'
           /\ s.op = "iterate" =>
                 /\ plan[s.node].block = "loop" /\ s.index <= s.of
                 /\ \/ First(s.node, s.iteration) \notin DOMAIN records
                    \/ SameStep(s, Head(queue)) /\ Head(queue).index <= s.index
    BY <1>3, <1>4 DEF SameStep
  <2>2. /\ DOMAIN records \subseteq DOMAIN records' /\ DOMAIN records' \subseteq DOMAIN records \cup {Here}
        /\ Active' \subseteq Rows \cup {Here} /\ DOMAIN records' \subseteq DOMAIN records /\ Active' \subseteq Rows
    BY <1>2
  <2>3. QED
    BY <1>1, <2>1, <2>2, StepKeeps
<1>6. UnitFits'
  BY <1>1, <1>2 DEF Placed, UnitFits
<1>7. Tried'
  <2>1. Begun' \subseteq InvocationIds /\ \A i \in Begun' : i \in Begun
    BY <1>1, <1>3, BegunTyped
  <2>2. QED
    BY <1>1, <2>1, TriedKeeps
<1>8. TypeOK'
  <2>1. \A i \in DOMAIN records' : i \in InvocationIds /\ records'[i] \in RecordSet
    BY <1>1 DEF TypeOK
  <2>2. \A i \in DOMAIN proofs' : i \in DOMAIN records' /\ proofs'[i] \in Proofs
    BY <1>1 DEF TypeOK
  <2>3. /\ exhausted' \subseteq DOMAIN records' /\ halted' \in BOOLEAN /\ at' \in {"step", "attempt", "handle"}
        /\ unit' \in InvocationIds /\ calls' \in Seq(CallSet)
    BY <1>1 DEF TypeOK
  <2>4. \A c \in DOMAIN calls' : calls'[c].before \subseteq DOMAIN records'
    BY <1>1 DEF TypeOK
  <2>5. QED
    BY <1>1, <1>5, <2>1, <2>2, <2>3, <2>4, TypeKeeps
<1>9. QED
  BY <1>5, <1>6, <1>7, <1>8 DEF ExecInv, Placed

\* Taking a step and queueing nothing.
LEMMA TakenKeeps ==
    ASSUME ExecInv, Pass \/ LeaveContainer PROVE ExecInv'
<1>1. /\ at = "step" /\ queue # <<>> /\ queue' = Tail(queue) /\ UNCHANGED <<at, unit, events, abandoned>>
      /\ SameRun /\ SamePlan
      /\ \/ records' = records
         \/ records' = [records EXCEPT ![Here].status = "succeeded"] /\ records[Here].status = "running"
  BY DEF Pass, LeaveContainer, Taking
<1>2. TypeOK
  BY DEF ExecInv
<1>3. /\ DOMAIN records' = DOMAIN records
      /\ \A i \in DOMAIN records :
            /\ records'[i] \in RecordSet /\ records'[i].sent = records[i].sent
            /\ records[i].status = "failed" => records'[i] = records[i]
  <2>1. CASE records' = records
    BY <1>2, <2>1 DEF TypeOK
  <2>2. CASE records' = [records EXCEPT ![Here].status = "succeeded"] /\ records[Here].status = "running"
    <3>1. "succeeded" \in Statuses
      BY DEF Statuses
    <3> DEFINE x == Here
    <3>2. records' = [records EXCEPT ![x].status = "succeeded"] /\ records[x].status = "running"
      BY <2>2
    <3> HIDE DEF x
    <3>3. QED
      BY <1>2, <3>1, <3>2, StatusIs
  <2>3. QED
    BY <1>1, <2>1, <2>2
<1>4. /\ \A i \in DOMAIN events' : i \in InvocationIds /\ events'[i] \in Dispositions
      /\ abandoned' \subseteq DOMAIN plan
  BY <1>1, <1>2 DEF TypeOK
<1>5. queue' = <<>> \o Tail(queue)
  BY <1>1, <1>2, StepsTyped, TailSteps, ConcatEmptySeq
<1>6. <<>> \in Seq(StepSet) /\ Alone(<<>>) /\ StepsOf(<<>>) = {}
  BY DEF Alone, StepsOf
<1>7. QED
  BY <1>1, <1>3, <1>4, <1>5, <1>6, PassKeeps

\* Two sequences that end alike after one more element are alike.
LEMMA AppendedIs ==
    ASSUME NEW h \in Seq(Nat), NEW j \in Seq(Nat), NEW k \in Nat, NEW m \in Nat,
           Append(h, k) = Append(j, m)
    PROVE  h = j /\ k = m
BY AppendInjective

\* An instance of a loop is entered once: the next index is above every one before.
LEMMA IterateKeeps ==
    ASSUME ExecInv, Iterate PROVE ExecInv'
<1> DEFINE step == Head(queue)
           n == step.node
           h == step.iteration
           k == step.index
<1>1. /\ Taking("iterate") /\ UNCHANGED <<at, unit, records, abandoned>> /\ SameRun /\ SamePlan
      /\ at = "step" /\ queue # <<>> /\ step.op = "iterate" /\ calls' = calls /\ plan' = plan
  BY DEF Iterate, Taking, SameRun, SamePlan
<1>2. /\ TypeOK /\ Placed /\ IsPlan(plan) /\ MaxItems \in Nat /\ queue \in Seq(StepSet)
      /\ AllSteps \subseteq StepSet
  BY PlanIs, StepsTyped DEF ExecInv
<1>3. /\ step \in AllSteps /\ step \in StepSet /\ n \in DOMAIN plan /\ h \in Seq(Nat) /\ k \in Nat
      /\ First(n, h) \in DOMAIN records
  BY <1>1, <1>2, HereIs, StepIs DEF Here
<1>4. plan[n].block = "loop" /\ step.index <= step.of
  BY <1>1, <1>2, <1>3 DEF Placed, StepsFit
<1>5. /\ DOMAIN records' = DOMAIN records
      /\ \A i \in DOMAIN records :
            /\ records'[i] \in RecordSet /\ records'[i].sent = records[i].sent
            /\ records[i].status = "failed" => records'[i] = records[i]
      /\ abandoned' \subseteq DOMAIN plan
  BY <1>1, <1>2 DEF TypeOK
<1>6. CASE step.index = step.of
  <2>1. queue' = Tail(queue) /\ events' = events
    BY <1>6 DEF Iterate
  <2>2. queue' = <<>> \o Tail(queue)
    BY <1>1, <1>2, <2>1, TailSteps, ConcatEmptySeq
  <2>3. <<>> \in Seq(StepSet) /\ Alone(<<>>) /\ StepsOf(<<>>) = {}
    BY DEF Alone, StepsOf
  <2>4. \A i \in DOMAIN events' : i \in InvocationIds /\ events'[i] \in Dispositions
    BY <1>2, <2>1 DEF TypeOK
  <2>5. QED
    BY <1>1, <1>5, <2>2, <2>3, <2>4, PassKeeps
<1>7. CASE step.index # step.of
  <2> DEFINE inside == Append(h, k)
             next == [step EXCEPT !.index = @ + 1]
             last == <<next>>
  <2>1. PICK pick \in Picks(n) :
           /\ queue' = Enters(Selected(n, pick), inside) \o last \o Tail(queue)
           /\ events' \in {events, PutAll(events, Faulted(n, inside, pick), "pending")}
    BY <1>7 DEF Iterate
  <2> DEFINE batch == Enters(Selected(n, pick), inside)
             new == batch \o last
  <2>2. inside \in Seq(Nat)
    BY <1>3
  <2>3. /\ next \in StepSet /\ next.op = "iterate" /\ next.node = n /\ next.iteration = h
        /\ next.index = k + 1 /\ next.of = step.of /\ k + 1 <= step.of /\ k <= k + 1
    <3>1. step.of \in 0..MaxItems /\ k + 1 <= step.of /\ k + 1 \in 0..MaxItems /\ k <= k + 1
      <4>1. step.of \in 0..MaxItems /\ k \in 0..MaxItems
        BY <1>3 DEF StepSet
      <4>2. QED
        BY <1>2, <1>4, <1>7, <4>1
    <3>2. step \in StepSet
      BY <1>3
    <3>3. QED
      BY <1>1, <3>1, <3>2 DEF StepSet
  <2>4. /\ batch \in Seq(StepSet) /\ Alone(batch)
        /\ \A s \in StepsOf(batch) :
              /\ s.op = "enter" /\ s.iteration = inside /\ s.node \in DOMAIN plan
              /\ s.node # 1 /\ s.node # n /\ plan[s.node].parent = n
    <3> HIDE DEF n, h, k, inside
    <3>1. QED
      BY <1>2, <1>3, <2>2, EntersIs
  <2>5. last \in Seq(StepSet) /\ StepsOf(last) = {next} /\ Alone(last)
    BY <2>3, SingleIs
  <2>6. SameStep(next, step)
    BY <1>1, <2>3 DEF SameStep
  <2> HIDE DEF batch, last, next
  <2>7. new \in Seq(StepSet) /\ StepsOf(new) = StepsOf(batch) \cup {next} /\ Alone(new)
    <3>1. Apart(StepsOf(batch), StepsOf(last))
      BY <2>3, <2>4, <2>5 DEF Apart, SameStep
    <3>2. new \in Seq(StepSet) /\ StepsOf(new) = StepsOf(batch) \cup StepsOf(last)
      BY <2>4, <2>5, JoinedSteps
    <3>3. Alone(new)
      BY <2>4, <2>5, <3>1, JoinedAlone
    <3>4. QED
      BY <2>5, <3>2, <3>3
  <2>8. queue' = new \o Tail(queue)
    BY <2>1 DEF batch
  <2>9. \A i \in DOMAIN events' : i \in InvocationIds /\ events'[i] \in Dispositions
    BY <1>2, <2>1, <2>2, FaultedTyped, RaisedTyped
  <2>10. ASSUME NEW s \in StepsOf(batch)
         PROVE  First(s.node, s.iteration) \notin Due \cup Begun /\ s \in StepSet
    <3>1. s \in StepSet
      BY <2>4 DEF StepsOf
    <3>2. ASSUME First(s.node, s.iteration) \in Due \cup Begun PROVE FALSE
      <4>1. Came(s.node, inside) /\ s.node # 1 /\ plan[s.node].parent = n
        BY <1>2, <2>4, <3>1, <3>2, DueCame DEF Placed
      <4>2. PICK g \in Seq(Nat), m \in Nat :
               /\ inside = Append(g, m)
               /\ \A t \in AllSteps : t.op = "iterate" /\ t.node = n /\ t.iteration = g => m < t.index
        BY <1>4, <4>1 DEF Came
      <4>3. g = h /\ m = k
        BY <1>3, <4>2, AppendedIs
      <4>4. k < k
        BY <1>1, <1>3, <4>2, <4>3
      <4>5. QED
        BY <1>3, <4>4
    <3>3. QED
      BY <3>1, <3>2
  <2>11. \A s \in StepsOf(new), t \in AllSteps : SameStep(s, t) => SameStep(t, step)
    <3>1. ASSUME NEW s \in StepsOf(batch), NEW t \in AllSteps, SameStep(s, t) PROVE FALSE
      <4>1. t.op = "enter" /\ First(s.node, s.iteration) = First(t.node, t.iteration)
        BY <2>4, <3>1 DEF SameStep
      <4>2. First(t.node, t.iteration) \in Due
        BY <4>1 DEF Due, EnterSteps
      <4>3. QED
        BY <2>10, <4>1, <4>2
    <3>2. \A t : SameStep(next, t) => SameStep(t, step)
      BY <2>6, SameStepIsSame
    <3>3. QED
      BY <2>7, <3>1, <3>2
  <2>12. \A t \in AllSteps' : t.op = "iterate" /\ t.node = n /\ t.iteration = h => k < t.index
    <3>1. \A t \in AllSteps' : t \in StepsOf(new) \/ (t \in AllSteps /\ ~SameStep(t, step))
      BY <1>1, <1>2, <2>7, <2>8, <2>11, QueueStep DEF Placed
    <3>2. \A t : t.op = "iterate" /\ t.node = n /\ t.iteration = h => SameStep(t, step)
      BY <1>1 DEF SameStep
    <3>3. k < k + 1
      BY <1>3
    <3>4. QED
      BY <2>3, <2>4, <2>7, <3>1, <3>2, <3>3
  <2>13. ASSUME NEW s \in StepsOf(batch) PROVE Came(s.node, s.iteration)'
    <3>1. \E g \in Seq(Nat), m \in Nat :
             /\ inside = Append(g, m) /\ First(n, g) \in DOMAIN records'
             /\ \A t \in AllSteps' : t.op = "iterate" /\ t.node = n /\ t.iteration = g => m < t.index
      BY <1>1, <1>3, <2>12
    <3>2. plan'[n].block = "loop" /\ plan'[s.node].parent = n /\ s.iteration = inside
      BY <1>1, <1>4, <2>4
    <3>3. \A g : First(n, g)' = First(n', g)
      BY DEF First, Id
    <3> HIDE DEF n, h, k, inside
    <3>4. QED
      BY <3>1, <3>2 DEF Came, First, Id
  <2>14. \A s \in StepsOf(new) :
            /\ s.op = "enter" => First(s.node, s.iteration) \notin Begun /\ Came(s.node, s.iteration)'
            /\ s.op # "enter" => SameStep(s, step) /\ step.index <= s.index
            /\ s.op = "iterate" => plan[s.node].block = "loop" /\ s.index <= s.of
    BY <1>4, <2>3, <2>4, <2>6, <2>7, <2>10, <2>13
  <2> HIDE DEF new
  <2>15. QED
    BY <1>1, <1>5, <2>7, <2>8, <2>9, <2>11, <2>14, PassKeeps
<1>8. QED
  BY <1>6, <1>7

\* The first attempt of an ACTION begins.
LEMMA BeginActionKeeps ==
    ASSUME ExecInv, BeginAction PROVE ExecInv'
<1>1. /\ Taking("enter") /\ plan[Here.node].block = "action" /\ queue' = Tail(queue)
      /\ at' = "attempt" /\ unit' = Here /\ UNCHANGED <<records, events, abandoned>>
      /\ SameRun /\ SamePlan
  BY DEF BeginAction, Entering
<1>2. /\ TypeOK /\ Placed /\ Tried /\ at = "step" /\ queue # <<>> /\ Head(queue).op = "enter"
      /\ plan' = plan /\ calls' = calls /\ proofs' = proofs /\ exhausted' = exhausted /\ halted' = halted
      /\ records' = records /\ events' = events /\ abandoned' = abandoned
  BY <1>1 DEF ExecInv, Taking, SameRun, SamePlan
<1>3. Here \in InvocationIds /\ Here.attempt = 0 /\ Here \notin Begun
  BY <1>2, HereIs
<1>4. Rows' = Rows /\ Active = Rows /\ Active' = Rows \cup {Here} /\ Begun = DOMAIN records \cup Rows
  BY <1>1, <1>2 DEF Rows, Active, Begun
<1>5. Begun' = Begun \cup {Here}
  BY <1>2, <1>4 DEF Begun
<1>6. queue' = <<>> \o Tail(queue)
  BY <1>1, <1>2, StepsTyped, TailSteps, ConcatEmptySeq
<1>7. <<>> \in Seq(StepSet) /\ Alone(<<>>) /\ StepsOf(<<>>) = {}
  BY DEF Alone, StepsOf
<1>8. queue' \in Seq(StepSet) /\ StepsOnce' /\ RowsOnce' /\ StepsFit' /\ AllCame'
  <2> DEFINE new == <<>>
  <2>1. new \in Seq(StepSet) /\ Alone(new) /\ queue' = new \o Tail(queue) /\ \A s \in StepsOf(new) : FALSE
    BY <1>6, <1>7
  <2>2. Active' \subseteq Rows \cup {Here}
    BY <1>4
  <2> HIDE DEF new
  <2>3. QED
    BY <1>2, <2>1, <2>2, StepKeeps
<1>9. UnitFits'
  <2>1. \A i \in Active' : plan[i.node].block = "action"
    BY <1>1, <1>2, <1>4 DEF Placed, UnitFits
  <2>2. unit' \notin DOMAIN records' \cup Rows'
    BY <1>1, <1>2, <1>3, <1>4
  <2>3. QED
    BY <1>1, <1>2, <2>1, <2>2 DEF UnitFits
<1>10. Tried'
  <2>1. \A i \in Begun' : i \in Begun \/ i.attempt = 0
    BY <1>3, <1>5
  <2>2. Begun' \subseteq InvocationIds
    BY <1>2, <1>3, <1>5, BegunTyped
  <2>3. QED
    BY <1>2, <2>1, <2>2, TriedKeeps
<1>11. TypeOK'
  <2>1. at' \in {"step", "attempt", "handle"} /\ unit' \in InvocationIds
    BY <1>1, <1>3
  <2>2. QED
    BY <1>1, <1>2, <1>8, <2>1, TypeKeeps DEF TypeOK
<1>12. QED
  BY <1>8, <1>9, <1>10, <1>11 DEF ExecInv, Placed

-----------------------------------------------------------------------------
(* Attempts and their outcomes.                                             *)

LEMMA ResultIs ==
    ASSUME NEW status \in Statuses, NEW phase \in Phases, NEW effect \in EffectStates,
           NEW sent \in {"no", "same", "changed"}
    PROVE  LET r == Result(status, phase, effect, sent)
           IN  /\ r \in RecordSet /\ r.status = status /\ r.phase = phase /\ r.effect = effect
               /\ r.sent = sent
BY DEF Result, RecordSet

LEMMA RecoveringTyped ==
    ASSUME TypeOK, NEW i
    PROVE  LET e == Recovering(i) IN \A x \in DOMAIN e : x \in InvocationIds /\ e[x] \in Dispositions
<1>1. \A x \in DOMAIN events : x \in InvocationIds /\ events[x] \in Dispositions
  BY DEF TypeOK
<1>2. "recovered" \in Dispositions
  BY DEF Dispositions
<1>3. QED
  BY <1>1, <1>2 DEF Recovering

\* How an attempt can end: it succeeded, or it is to be handled, and its result
\* is in the record.
LEMMA SucceedsIs ==
    ASSUME TypeOK, NEW i \in InvocationIds, NEW effect \in EffectStates,
           NEW sent \in {"no", "same", "changed"}, Succeeds(i, effect, sent)
    PROVE  /\ DOMAIN records' = DOMAIN records \cup {i}
           /\ records'[i] \in RecordSet /\ records'[i].sent = sent
           /\ \A x \in DOMAIN records : x # i => records'[x] = records[x]
           /\ at' = "step"
           /\ \A x \in DOMAIN events' : x \in InvocationIds /\ events'[x] \in Dispositions
<1> DEFINE r == Result("succeeded", "none", effect, sent)
<1>1. r \in RecordSet /\ r.sent = sent
  <2>1. "succeeded" \in Statuses /\ "none" \in Phases
    BY DEF Statuses, Phases
  <2>2. QED
    BY <2>1, ResultIs
<1>2. records' = Put(records, i, r) /\ events' = Recovering(i) /\ at' = "step"
  BY DEF Succeeds
<1> HIDE DEF r
<1>3. /\ DOMAIN records' = DOMAIN records \cup {i} /\ records'[i] = r
      /\ \A x \in DOMAIN records : x # i => records'[x] = records[x]
  BY <1>2 DEF Put, PutAll
<1>4. QED
  BY <1>1, <1>2, <1>3, RecoveringTyped

\* Whether the failure raised an event does not matter to what is proved of it.
HasFailed(i, phase, effect, sent) ==
    \E raised \in BOOLEAN : Fails(i, phase, effect, sent, raised)

LEMMA FailsIs ==
    ASSUME TypeOK, NEW i \in InvocationIds, NEW phase \in Phases, NEW effect \in EffectStates,
           NEW sent \in {"no", "same", "changed"}, HasFailed(i, phase, effect, sent)
    PROVE  /\ DOMAIN records' = DOMAIN records \cup {i}
           /\ records'[i] \in RecordSet /\ records'[i].sent = sent
           /\ \A x \in DOMAIN records : x # i => records'[x] = records[x]
           /\ at' = "handle" /\ records'[i].status = "running" /\ records'[i].phase = phase
           /\ \A x \in DOMAIN events' : x \in InvocationIds /\ events'[x] \in Dispositions
<1> DEFINE r == Result("running", phase, effect, sent)
<1>1. r \in RecordSet /\ r.sent = sent /\ r.status = "running" /\ r.phase = phase
  <2>1. "running" \in Statuses
    BY DEF Statuses
  <2>2. QED
    BY <2>1, ResultIs
<1>2. /\ records' = Put(records, i, r) /\ at' = "handle"
      /\ events' \in {events, PutAll(events, {i}, "pending")}
  BY DEF HasFailed, Fails, Put
<1> HIDE DEF r
<1>3. /\ DOMAIN records' = DOMAIN records \cup {i} /\ records'[i] = r
      /\ \A x \in DOMAIN records : x # i => records'[x] = records[x]
  BY <1>2 DEF Put, PutAll
<1>4. \A x \in DOMAIN events' : x \in InvocationIds /\ events'[x] \in Dispositions
  BY <1>2, RaisedTyped
<1>5. QED
  BY <1>1, <1>2, <1>3, <1>4

\* An attempt that ends, in whatever way, disturbs no other.
LEMMA AttemptKeeps ==
    ASSUME ExecInv, at = "attempt", StaysPut,
           DOMAIN records' = DOMAIN records \cup {unit},
           records'[unit] \in RecordSet,
           records'[unit].sent # "changed" \/ Before(unit) \notin DOMAIN proofs,
           \/ at' = "step"
           \/ at' = "handle" /\ records'[unit].status = "running" /\ records'[unit].phase # "none",
           \A i \in DOMAIN records :
              /\ records'[i] \in RecordSet /\ records'[i].sent = records[i].sent
              /\ records[i].status = "failed" => records'[i] = records[i],
           \A i \in DOMAIN events' : i \in InvocationIds /\ events'[i] \in Dispositions
    PROVE  ExecInv'
<1>1. /\ TypeOK /\ Placed /\ Tried /\ plan' = plan /\ calls' = calls /\ queue' = queue /\ unit' = unit
      /\ proofs' = proofs /\ exhausted' = exhausted /\ halted' = halted /\ abandoned' = abandoned
      /\ SamePlan
  BY DEF ExecInv, StaysPut, SamePlan
<1>2. unit \in InvocationIds /\ Begun \subseteq InvocationIds
  BY <1>1, BegunTyped
<1>3. Placed' /\ Begun' \subseteq Begun
  BY <1>1, UnitKeeps
<1>4. Tried'
  <2>1. \A i \in DOMAIN records' :
           i \in DOMAIN records \/ records'[i].sent # "changed" \/ Before(i) \notin DOMAIN proofs
    OBVIOUS
  <2>2. Begun' \subseteq InvocationIds /\ \A i \in Begun' : i \in Begun
    BY <1>2, <1>3
  <2>3. QED
    BY <1>1, <2>1, <2>2, TriedKeeps
<1>5. TypeOK'
  <2>1. \A i \in DOMAIN records' : i \in InvocationIds /\ records'[i] \in RecordSet
    BY <1>1, <1>2 DEF TypeOK
  <2>2. \A i \in DOMAIN proofs' : i \in DOMAIN records' /\ proofs'[i] \in Proofs
    BY <1>1 DEF TypeOK
  <2>3. /\ exhausted' \subseteq DOMAIN records' /\ halted' \in BOOLEAN /\ at' \in {"step", "attempt", "handle"}
        /\ unit' \in InvocationIds /\ calls' \in Seq(CallSet) /\ queue' \in Seq(StepSet)
        /\ abandoned' \subseteq DOMAIN plan
    BY <1>1, <1>2 DEF TypeOK
  <2>4. \A c \in DOMAIN calls' : calls'[c].before \subseteq DOMAIN records'
    BY <1>1 DEF TypeOK
  <2>5. QED
    BY <1>1, <2>1, <2>2, <2>3, <2>4, TypeKeeps
<1>6. QED
  BY <1>3, <1>4, <1>5 DEF ExecInv

LEMMA FailEarlyKeeps ==
    ASSUME ExecInv, FailEarly PROVE ExecInv'
<1>1. TypeOK /\ unit \in InvocationIds /\ at = "attempt" /\ StaysPut /\ unit \notin DOMAIN records
  BY BegunTyped DEF ExecInv, Placed, UnitFits, FailEarly
<1>2. HasFailed(unit, "pre", "none", "no")
  BY DEF FailEarly, HasFailed
<1>3. /\ "pre" \in Phases /\ "pre" # "none" /\ "none" \in EffectStates
      /\ "no" \in {"no", "same", "changed"} /\ "no" # "changed"
  BY DEF Phases, EffectStates
<1>4. /\ DOMAIN records' = DOMAIN records \cup {unit}
      /\ records'[unit] \in RecordSet /\ records'[unit].sent = "no"
      /\ \A x \in DOMAIN records : x # unit => records'[x] = records[x]
      /\ \/ at' = "step"
         \/ at' = "handle" /\ records'[unit].status = "running" /\ records'[unit].phase # "none"
      /\ \A x \in DOMAIN events' : x \in InvocationIds /\ events'[x] \in Dispositions
  BY <1>1, <1>2, <1>3, SucceedsIs, FailsIs
<1>5. \A i \in DOMAIN records : records'[i] = records[i] /\ records[i] \in RecordSet
  BY <1>1, <1>4 DEF TypeOK
<1>6. QED
  BY <1>1, <1>3, <1>4, <1>5, AttemptKeeps

\* A request that goes out again under a proof is the proved one.
LEMMA AskHostKeeps ==
    ASSUME ExecInv, CompleteInside \/ AskHost PROVE ExecInv'
<1>1. TypeOK /\ unit \in InvocationIds /\ at = "attempt" /\ StaysPut /\ unit \notin DOMAIN records
  BY BegunTyped DEF ExecInv, Placed, UnitFits, CompleteInside, AskHost, Doing
<1>2. \A seen \in EffectStates, free \in BOOLEAN :
         /\ PhaseOf(seen, free) \in Phases /\ PhaseOf(seen, free) # "none"
         /\ \A phase : EffectStateOf(seen, phase) \in EffectStates
  BY DEF PhaseOf, EffectStateOf, Phases, EffectStates
<1>3. PICK sent \in Requests \cup {"no"} :
         \/ \E effect \in {"none", "applied"} : Succeeds(unit, effect, sent)
         \/ \E seen \in EffectStates, free, raised \in BOOLEAN :
               LET phase == PhaseOf(seen, free)
               IN  Fails(unit, phase, EffectStateOf(seen, phase), sent, raised)
  BY DEF CompleteInside, AskHost, record_of
<1>4. sent \in {"no", "same", "changed"} /\ (sent # "changed" \/ Before(unit) \notin DOMAIN proofs)
  BY DEF Requests
<1>5. PICK phase \in Phases, effect \in EffectStates :
         phase # "none" /\ (Succeeds(unit, effect, sent) \/ HasFailed(unit, phase, effect, sent))
  <2>1. CASE \E effect \in {"none", "applied"} : Succeeds(unit, effect, sent)
    <3>1. {"none", "applied"} \subseteq EffectStates /\ "pre" \in Phases
      BY DEF EffectStates, Phases
    <3>2. QED
      BY <2>1, <3>1
  <2>2. CASE \E seen \in EffectStates, free, raised \in BOOLEAN :
               LET phase == PhaseOf(seen, free)
               IN  Fails(unit, phase, EffectStateOf(seen, phase), sent, raised)
    <3>1. PICK seen \in EffectStates, free \in BOOLEAN :
             HasFailed(unit, PhaseOf(seen, free), EffectStateOf(seen, PhaseOf(seen, free)), sent)
      BY <2>2 DEF HasFailed
    <3>2. QED
      BY <1>2, <3>1
  <2>3. QED
    BY <1>3, <2>1, <2>2
<1>6. /\ DOMAIN records' = DOMAIN records \cup {unit}
      /\ records'[unit] \in RecordSet /\ records'[unit].sent = sent
      /\ \A x \in DOMAIN records : x # unit => records'[x] = records[x]
      /\ \/ at' = "step"
         \/ at' = "handle" /\ records'[unit].status = "running" /\ records'[unit].phase # "none"
      /\ \A x \in DOMAIN events' : x \in InvocationIds /\ events'[x] \in Dispositions
  <2>1. CASE Succeeds(unit, effect, sent)
    BY <1>1, <1>4, <2>1, SucceedsIs
  <2>2. CASE HasFailed(unit, phase, effect, sent)
    <3>1. TypeOK /\ unit \in InvocationIds /\ sent \in {"no", "same", "changed"} /\ phase # "none"
      BY <1>1, <1>4, <1>5
    <3>2. /\ DOMAIN records' = DOMAIN records \cup {unit}
          /\ records'[unit] \in RecordSet /\ records'[unit].sent = sent
          /\ \A x \in DOMAIN records : x # unit => records'[x] = records[x]
          /\ at' = "handle" /\ records'[unit].status = "running" /\ records'[unit].phase = phase
          /\ \A x \in DOMAIN events' : x \in InvocationIds /\ events'[x] \in Dispositions
      BY <3>1, <2>2, FailsIs
    <3>3. QED
      BY <3>1, <3>2
  <2>3. QED
    BY <1>5, <2>1, <2>2
<1>7. \A i \in DOMAIN records : records'[i] = records[i] /\ records[i] \in RecordSet
  BY <1>1, <1>6 DEF TypeOK
<1>8. QED
  BY <1>1, <1>4, <1>6, <1>7, AttemptKeeps

\* Only a record that is still active is ended.
LEMMA EndUnitKeeps ==
    ASSUME ExecInv, EndUnit PROVE ExecInv'
<1>1. TypeOK /\ unit \in InvocationIds /\ at = "attempt" /\ StaysPut /\ unit \notin DOMAIN records
  BY BegunTyped DEF ExecInv, Placed, UnitFits, EndUnit
<1>2. /\ "pre" \in Phases /\ "pre" # "none" /\ "none" \in EffectStates /\ "applied" \in EffectStates
      /\ "no" \in {"no", "same", "changed"} /\ "no" # "changed" /\ FALSE \in BOOLEAN
      /\ {"succeeded", "stopped", "cancelled"} \subseteq Statuses /\ "none" \in Phases
  BY DEF Phases, EffectStates, Statuses
<1>3. CASE HasFailed(unit, "pre", "none", "no")
  <2>1. /\ DOMAIN records' = DOMAIN records \cup {unit}
        /\ records'[unit] \in RecordSet /\ records'[unit].sent = "no"
        /\ \A x \in DOMAIN records : x # unit => records'[x] = records[x]
        /\ \/ at' = "step"
           \/ at' = "handle" /\ records'[unit].status = "running" /\ records'[unit].phase # "none"
        /\ \A x \in DOMAIN events' : x \in InvocationIds /\ events'[x] \in Dispositions
    BY <1>1, <1>2, <1>3, SucceedsIs, FailsIs
  <2>2. \A i \in DOMAIN records : records'[i] = records[i] /\ records[i] \in RecordSet
    BY <1>1, <2>1 DEF TypeOK
  <2>3. QED
    BY <1>1, <1>2, <2>1, <2>2, AttemptKeeps
<1>4. CASE \E i, st : /\ records[i].status = "running" /\ st \in {"stopped", "cancelled"}
                      /\ records' = Put([records EXCEPT ![i].status = st], unit,
                                        Result("succeeded", "none", "applied", "no"))
                      /\ events' = Recovering(unit) /\ at' = "step"
  <2>1. PICK i, st : /\ records[i].status = "running" /\ st \in {"stopped", "cancelled"}
                     /\ records' = Put([records EXCEPT ![i].status = st], unit,
                                       Result("succeeded", "none", "applied", "no"))
                     /\ events' = Recovering(unit) /\ at' = "step"
    BY <1>4
  <2> DEFINE m == [records EXCEPT ![i].status = st]
             r == Result("succeeded", "none", "applied", "no")
  <2>2. /\ DOMAIN m = DOMAIN records
        /\ \A x \in DOMAIN records :
              /\ m[x] \in RecordSet /\ m[x].sent = records[x].sent
              /\ records[x].status = "failed" => m[x] = records[x]
    BY <1>1, <1>2, <2>1, StatusIs
  <2>3. r \in RecordSet /\ r.sent = "no"
    BY <1>2, ResultIs
  <2>4. records' = Put(m, unit, r)
    BY <2>1
  <2> HIDE DEF m, r
  <2>5. /\ DOMAIN records' = DOMAIN m \cup {unit} /\ records'[unit] = r
        /\ \A x \in DOMAIN m : x # unit => records'[x] = m[x]
    BY <2>4 DEF Put, PutAll
  <2>6. \A x \in DOMAIN events' : x \in InvocationIds /\ events'[x] \in Dispositions
    BY <1>1, <2>1, RecoveringTyped
  <2>7. \A x \in DOMAIN records :
           /\ records'[x] \in RecordSet /\ records'[x].sent = records[x].sent
           /\ records[x].status = "failed" => records'[x] = records[x]
    BY <1>1, <2>2, <2>5
  <2>8. /\ DOMAIN records' = DOMAIN records \cup {unit} /\ records'[unit] \in RecordSet
        /\ records'[unit].sent # "changed" /\ at' = "step"
    BY <1>2, <2>1, <2>2, <2>3, <2>5
  <2>9. QED
    BY <1>1, <2>6, <2>7, <2>8, AttemptKeeps
<1>5. QED
  BY <1>3, <1>4 DEF EndUnit, HasFailed

-----------------------------------------------------------------------------
(* Delegations.                                                             *)

\* What a delegation enters has not been entered: its row has no record yet.
LEMMA DelegateKeeps ==
    ASSUME ExecInv, Delegate PROVE ExecInv'
<1> DEFINE n == unit.node
           target == plan[n].target
           inside == Append(unit.iteration, unit.attempt)
           s == EnterStep(target, inside)
           before == DOMAIN records
<1>1. /\ at = "attempt" /\ plan[n].does \in {"execute", "test"} /\ at' = "step"
      /\ calls' = <<[row |-> unit, outer |-> queue, before |-> before]>> \o calls
      /\ queue' = <<s>> /\ unit' = unit /\ records' = records /\ events' = events /\ proofs' = proofs
      /\ exhausted' = exhausted /\ abandoned' = abandoned /\ halted' = halted /\ plan' = plan /\ SamePlan
  BY DEF Delegate, SamePlan
<1>2. /\ TypeOK /\ Placed /\ Tried /\ IsPlan(plan) /\ MaxItems \in Nat /\ queue \in Seq(StepSet)
      /\ calls \in Seq(CallSet) /\ AllSteps \subseteq StepSet /\ unit \in InvocationIds
      /\ before \subseteq InvocationIds /\ Begun \subseteq InvocationIds /\ StepsOnce
      /\ Rows \subseteq InvocationIds
  BY PlanIs, StepsTyped, BegunTyped DEF ExecInv, Placed
<1>3. /\ n \in DOMAIN plan /\ unit.iteration \in Seq(Nat) /\ unit.attempt \in Nat
      /\ unit = Id(n, unit.iteration, unit.attempt) /\ inside \in Seq(Nat)
  BY <1>2, IdIs
<1>4. unit \notin DOMAIN records \cup Rows /\ plan[n].block = "action"
  BY <1>1, <1>2 DEF Placed, UnitFits, Active
<1>5. target \in DOMAIN plan /\ plan[target].parent = n /\ target # 1
  <2>1. plan[n].children = <<target>>
    BY <1>1, <1>2, <1>3 DEF IsPlan
  <2>2. 1 \in DOMAIN plan[n].children /\ plan[n].children[1] = target
    BY <2>1
  <2> HIDE DEF n, target
  <2>3. QED
    BY <1>2, <1>3, <2>2, ChildIs
<1>6. /\ s \in StepSet /\ s.op = "enter" /\ s.node = target /\ s.iteration = inside
  <2>1. 0 \in 0..MaxItems
    BY <1>2
  <2>2. QED
    BY <1>3, <1>5, <2>1 DEF EnterStep, StepSet
<1> DEFINE id == First(target, inside)
<1>7. /\ id = First(s.node, s.iteration) /\ id \in InvocationIds /\ id.node = target
      /\ id.iteration = inside
  BY <1>2, <1>6, StepIs
<1> HIDE DEF n, target, inside, s, before, id
<1>8. id \notin Due \cup Begun
  <2> SUFFICES ASSUME id \in Due \cup Begun PROVE FALSE
    OBVIOUS
  <2>1. Came(target, inside)
    BY <1>2, <1>6, <1>7, DueCame DEF Placed
  <2>2. PICK h \in Seq(Nat), k \in Nat : inside = Append(h, k) /\ Id(n, h, k) \in DOMAIN records \cup Rows
    BY <1>4, <1>5, <2>1 DEF Came
  <2>3. h = unit.iteration /\ k = unit.attempt
    BY <1>3, <2>2, AppendedIs DEF inside
  <2>4. QED
    BY <1>3, <1>4, <2>2, <2>3
<1>9. \A t \in AllSteps : ~SameStep(s, t)
  <2> SUFFICES ASSUME NEW t \in AllSteps, SameStep(s, t) PROVE FALSE
    OBVIOUS
  <2>1. t.op = "enter" /\ id = First(t.node, t.iteration)
    BY <1>6, <1>7 DEF SameStep
  <2>2. id \in Due
    BY <2>1 DEF Due, EnterSteps
  <2>3. QED
    BY <1>8, <2>2
<1>10. /\ queue' \in Seq(StepSet) /\ calls' \in Seq(CallSet) /\ StepsOnce'
       /\ AllSteps' = {s} \cup AllSteps
       /\ DOMAIN calls' = 1..(Len(calls) + 1) /\ DOMAIN calls = 1..Len(calls) /\ Len(calls) \in Nat
       /\ calls'[1] = [row |-> unit, outer |-> queue, before |-> before]
       /\ \A c \in DOMAIN calls : calls'[c + 1] = calls[c]
  BY <1>1, <1>2, <1>6, <1>9, QueueAside
<1>11. \A c \in DOMAIN calls' : \/ c = 1 /\ calls'[c].row = unit /\ calls'[c].before = before
                                \/ /\ c # 1 /\ c - 1 \in DOMAIN calls
                                   /\ calls'[c] = calls[c - 1]
  <2> SUFFICES ASSUME NEW c \in DOMAIN calls', c # 1 PROVE c - 1 \in DOMAIN calls /\ calls'[c] = calls[c - 1]
    BY <1>10
  <2>1. c - 1 \in DOMAIN calls /\ (c - 1) + 1 = c
    BY <1>10
  <2>2. QED
    BY <1>10, <2>1
<1>12. Rows' = Rows \cup {unit}
  <2>1. Rows' \subseteq Rows \cup {unit}
    BY <1>11 DEF Rows
  <2>2. \A c \in DOMAIN calls : c + 1 \in DOMAIN calls' /\ 1 \in DOMAIN calls'
    BY <1>10
  <2>3. Rows \subseteq Rows'
    BY <1>10, <2>2 DEF Rows
  <2>4. unit \in Rows'
    <3>1. 1 \in DOMAIN calls' /\ calls'[1].row = unit
      BY <1>10
    <3>2. QED
      BY <3>1 DEF Rows
  <2>5. QED
    BY <2>1, <2>3, <2>4
<1>13. Active' = Active /\ Active = Rows \cup {unit} /\ Begun' = Begun
  BY <1>1, <1>12 DEF Active, Begun
<1>14. RowsOnce'
  <2>1. \A c \in DOMAIN calls : calls[c].row \in Rows
    BY DEF Rows
  <2>2. \A c \in DOMAIN calls' : calls'[c].row \notin DOMAIN records'
    BY <1>1, <1>2, <1>4, <1>11 DEF Placed, RowsOnce
  <2>3. ASSUME NEW c \in DOMAIN calls', NEW d \in DOMAIN calls', calls'[c].row = calls'[d].row PROVE c = d
    <3>1. CASE c = 1 \/ d = 1
      BY <1>4, <1>11, <2>1, <2>3, <3>1
    <3>2. CASE c # 1 /\ d # 1
      <4>1. c - 1 = d - 1
        BY <1>2, <1>11, <2>3, <3>2 DEF Placed, RowsOnce
      <4>2. c \in Nat /\ d \in Nat
        BY <1>10
      <4>3. QED
        BY <4>1, <4>2
    <3>3. QED
      BY <3>1, <3>2
  <2>4. QED
    BY <2>2, <2>3 DEF RowsOnce
<1>15. StepsFit'
  <2>1. \A t \in AllSteps' : t = s \/ t \in AllSteps
    BY <1>10
  <2>2. QED
    BY <1>1, <1>2, <1>6, <1>7, <1>8, <1>13, <2>1 DEF Placed, StepsFit, First, Id
<1>16. UnitFits'
  BY <1>1, <1>2, <1>13 DEF Placed, UnitFits
<1>17. AllCame'
  <2>1. AllSteps' \subseteq StepSet
    BY <1>2, <1>6, <1>10
  <2>2. ASSUME NEW m, NEW it, Came(m, it) PROVE Came(m, it)'
    <3>1. \A t \in AllSteps' : t.op = "iterate" =>
             \E u \in AllSteps : /\ u.op = "iterate" /\ u.node = t.node
                                 /\ u.iteration = t.iteration /\ u.index <= t.index
      BY <1>2, <1>6, <1>10, StepIs
    <3>2. DOMAIN records \cup Rows \subseteq (DOMAIN records \cup Rows)'
      BY <1>1, <1>12
    <3>3. QED
      BY <1>1, <1>2, <2>1, <2>2, <3>1, <3>2, CameKeeps
  <2>3. ASSUME NEW m, NEW it, m = target, it = inside PROVE Came(m, it)'
    <3>1. \E h \in Seq(Nat), k \in Nat : it = Append(h, k) /\ Id(n, h, k) \in DOMAIN records' \cup Rows'
      BY <1>3, <1>12, <2>3 DEF inside
    <3>2. plan'[n].block = "action" /\ plan'[m].parent = n
      BY <1>1, <1>4, <1>5, <2>3
    <3>3. QED
      BY <3>1, <3>2 DEF Came, Id
  <2>4. ASSUME NEW i \in Due' PROVE i \in Due \/ i = id
    <3>1. PICK t \in AllSteps' : t.op = "enter" /\ i = First(t.node, t.iteration)
      BY DEF Due, EnterSteps, First, Id
    <3>2. QED
      BY <1>7, <1>10, <3>1 DEF Due, EnterSteps
  <2>5. \A i \in Due \cup Begun : Came(i.node, i.iteration)'
    BY <1>2, <2>2 DEF Placed, AllCame
  <2>6. QED
    <3> SUFFICES ASSUME NEW i \in Due' \cup Begun' PROVE Came(i.node, i.iteration)'
      BY DEF AllCame
    <3>1. CASE i = id
      BY <1>7, <2>3, <3>1
    <3>2. CASE i \in Due \cup Begun
      BY <2>5, <3>2
    <3>3. QED
      BY <1>13, <2>4, <3>1, <3>2
<1>18. Tried'
  <2>1. Begun' \subseteq InvocationIds /\ \A i \in Begun' : i \in Begun
    BY <1>2, <1>13
  <2>2. QED
    BY <1>1, <1>2, <2>1, TriedKeeps
<1>19. TypeOK'
  <2>1. \A c \in DOMAIN calls' : calls'[c].before \subseteq DOMAIN records'
    <3>1. \A c \in DOMAIN calls : calls[c].before \subseteq DOMAIN records
      BY <1>2 DEF TypeOK
    <3>2. QED
      BY <1>1, <1>11, <3>1 DEF before
  <2>2. at' \in {"step", "attempt", "handle"}
    BY <1>1
  <2>3. QED
    BY <1>1, <1>2, <1>10, <2>1, <2>2, TypeKeeps DEF TypeOK
<1>20. QED
  BY <1>10, <1>14, <1>15, <1>16, <1>17, <1>18, <1>19 DEF ExecInv, Placed

\* The row a delegation was made for is recorded once, when it is over.
LEMMA ReturnKeeps ==
    ASSUME ExecInv, Return PROVE ExecInv'
<1> DEFINE row == Head(calls).row
<1>1. /\ at = "step" /\ queue = <<>> /\ calls # <<>> /\ queue' = Head(calls).outer /\ calls' = Tail(calls)
      /\ unit' = row /\ proofs' = proofs /\ exhausted' = exhausted /\ abandoned' = abandoned
      /\ halted' = halted /\ plan' = plan /\ SamePlan
  BY DEF Return, SamePlan
<1>2. /\ TypeOK /\ Placed /\ Tried /\ IsPlan(plan) /\ MaxItems \in Nat /\ calls \in Seq(CallSet)
      /\ AllSteps \subseteq StepSet /\ Begun \subseteq InvocationIds /\ Rows \subseteq InvocationIds /\ StepsOnce
  BY PlanIs, StepsTyped, BegunTyped DEF ExecInv, Placed
<1>3. /\ queue' \in Seq(StepSet) /\ calls' \in Seq(CallSet) /\ StepsOnce'
      /\ AllSteps' = AllSteps
      /\ DOMAIN calls' = 1..(Len(calls) - 1) /\ DOMAIN calls = 1..Len(calls) /\ Len(calls) \in Nat
      /\ Len(calls) > 0 /\ Head(calls) = calls[1]
      /\ \A c \in DOMAIN calls' : calls'[c] = calls[c + 1]
  BY <1>1, <1>2, QueueBack
<1>4. 1 \in DOMAIN calls /\ row = calls[1].row /\ row \in Rows /\ row \in InvocationIds
  <2>1. 1 \in DOMAIN calls
    BY <1>3
  <2>2. QED
    BY <1>2, <1>3, <2>1 DEF Rows
<1>5. row \notin DOMAIN records
  BY <1>2, <1>4 DEF Placed, RowsOnce
<1>6. PICK phase \in Phases, effect \in EffectStates :
         /\ phase # "none"
         /\ Succeeds(row, effect, "no") \/ HasFailed(row, phase, effect, "no")
  <2>1. /\ {"pre", "post", "indeterminate"} \subseteq Phases \ {"none"}
        /\ {"none", "applied", "indeterminate"} \subseteq EffectStates
        /\ \A effects : WorstOf(effects) \in EffectStates
    BY DEF Phases, EffectStates, WorstOf
  <2>2. \A ph, e : Fails(row, ph, e, "no", FALSE) => HasFailed(row, ph, e, "no")
    BY DEF HasFailed
  <2> DEFINE seen == GraphEffects(Head(calls))
             kind == IF seen = {} THEN "none" ELSE "applied"
  <2>3. \/ Succeeds(row, kind, "no")
        \/ Fails(row, "pre", "none", "no", FALSE)
        \/ Fails(row, "post", WorstOf(seen), "no", FALSE)
        \/ Fails(row, "indeterminate", "indeterminate", "no", FALSE)
    BY DEF Return
  <2>4. kind \in EffectStates
    BY <2>1
  <2> HIDE DEF row, seen, kind
  <2>5. QED
    BY <2>1, <2>2, <2>3, <2>4
<1> HIDE DEF row
<1>7. /\ DOMAIN records' = DOMAIN records \cup {row}
      /\ records'[row] \in RecordSet /\ records'[row].sent = "no"
      /\ \A x \in DOMAIN records : x # row => records'[x] = records[x]
      /\ \/ at' = "step"
         \/ at' = "handle" /\ records'[row].status = "running" /\ records'[row].phase # "none"
      /\ \A x \in DOMAIN events' : x \in InvocationIds /\ events'[x] \in Dispositions
  <2>1. CASE Succeeds(row, effect, "no")
    BY <1>2, <1>4, <2>1, SucceedsIs
  <2>2. CASE HasFailed(row, phase, effect, "no")
    <3>1. /\ DOMAIN records' = DOMAIN records \cup {row}
          /\ records'[row] \in RecordSet /\ records'[row].sent = "no"
          /\ \A x \in DOMAIN records : x # row => records'[x] = records[x]
          /\ at' = "handle" /\ records'[row].status = "running" /\ records'[row].phase = phase
          /\ \A x \in DOMAIN events' : x \in InvocationIds /\ events'[x] \in Dispositions
      BY <1>2, <1>4, <2>2, FailsIs
    <3>2. QED
      BY <1>6, <3>1
  <2>3. QED
    BY <1>6, <2>1, <2>2
<1>8. \A c \in DOMAIN calls' : c + 1 \in DOMAIN calls /\ c + 1 # 1 /\ c \in Nat /\ calls'[c].row # row
  <2> SUFFICES ASSUME NEW c \in DOMAIN calls'
               PROVE  c + 1 \in DOMAIN calls /\ c + 1 # 1 /\ c \in Nat /\ calls'[c].row # row
    OBVIOUS
  <2>1. c + 1 \in DOMAIN calls /\ c + 1 # 1 /\ c \in Nat
    BY <1>3
  <2>2. calls[c + 1].row # calls[1].row
    BY <1>2, <1>4, <2>1 DEF Placed, RowsOnce
  <2>3. QED
    BY <1>3, <1>4, <2>1, <2>2
<1>9. Rows = Rows' \cup {row}
  <2>1. Rows' \subseteq Rows
    BY <1>3, <1>8 DEF Rows
  <2>2. ASSUME NEW c \in DOMAIN calls PROVE calls[c].row \in Rows' \cup {row}
    <3>1. CASE c = 1
      BY <1>4, <3>1
    <3>2. CASE c # 1
      <4>1. c - 1 \in DOMAIN calls' /\ (c - 1) + 1 = c
        BY <1>3, <3>2
      <4>2. calls'[c - 1] = calls[c]
        BY <1>3, <4>1
      <4>3. QED
        BY <4>1, <4>2 DEF Rows
    <3>3. QED
      BY <3>1, <3>2
  <2>3. QED
    BY <1>4, <2>1, <2>2 DEF Rows
<1>10. Active = Rows /\ Active' \subseteq Rows /\ Begun' = Begun
  BY <1>1, <1>7, <1>9 DEF Active, Begun
<1>11. RowsOnce'
  <2>1. \A c \in DOMAIN calls' : calls'[c].row \notin DOMAIN records'
    BY <1>2, <1>3, <1>7, <1>8 DEF Placed, RowsOnce
  <2>2. ASSUME NEW c \in DOMAIN calls', NEW d \in DOMAIN calls', calls'[c].row = calls'[d].row PROVE c = d
    <3>1. c + 1 = d + 1
      BY <1>2, <1>3, <1>8, <2>2 DEF Placed, RowsOnce
    <3>2. QED
      BY <1>8, <3>1
  <2>3. QED
    BY <2>1, <2>2 DEF RowsOnce
<1>12. StepsFit'
  BY <1>1, <1>2, <1>3, <1>7, <1>10 DEF Placed, StepsFit, First, Id
<1>13. UnitFits'
  BY <1>1, <1>2, <1>7, <1>10 DEF Placed, UnitFits
<1>14. AllCame'
  <2>1. ASSUME NEW m, NEW it, Came(m, it) PROVE Came(m, it)'
    <3>1. \A t \in AllSteps' : t.op = "iterate" =>
             \E u \in AllSteps : /\ u.op = "iterate" /\ u.node = t.node
                                 /\ u.iteration = t.iteration /\ u.index <= t.index
      BY <1>2, <1>3, StepIs
    <3>2. DOMAIN records \cup Rows \subseteq (DOMAIN records \cup Rows)'
      BY <1>7, <1>9
    <3>3. AllSteps' \subseteq StepSet
      BY <1>2, <1>3
    <3>4. QED
      BY <1>1, <1>2, <1>7, <2>1, <3>1, <3>2, <3>3, CameKeeps
  <2>2. Due' = Due
    BY <1>3 DEF Due, EnterSteps, First, Id
  <2>3. QED
    BY <1>2, <1>10, <2>1, <2>2 DEF Placed, AllCame
<1>15. Tried'
  <2>1. Begun' \subseteq InvocationIds /\ \A i \in Begun' : i \in Begun
    BY <1>2, <1>10
  <2>2. \A i \in DOMAIN records' :
           i \in DOMAIN records \/ records'[i].sent # "changed" \/ Before(i) \notin DOMAIN proofs
    BY <1>7
  <2>3. \A i \in DOMAIN records : i \in DOMAIN records' /\ records'[i] = records[i]
    BY <1>5, <1>7
  <2>4. QED
    BY <1>1, <1>2, <2>1, <2>2, <2>3, TriedKeeps
<1>16. TypeOK'
  <2>1. \A c \in DOMAIN calls' : calls'[c].before \subseteq DOMAIN records'
    BY <1>2, <1>3, <1>7, <1>8 DEF TypeOK
  <2>2. \A i \in DOMAIN records' : i \in InvocationIds /\ records'[i] \in RecordSet
    BY <1>2, <1>4, <1>5, <1>7 DEF TypeOK
  <2>3. \A i \in DOMAIN proofs' : i \in DOMAIN records' /\ proofs'[i] \in Proofs
    BY <1>1, <1>2, <1>7 DEF TypeOK
  <2>4. /\ exhausted' \subseteq DOMAIN records' /\ halted' \in BOOLEAN /\ at' \in {"step", "attempt", "handle"}
        /\ unit' \in InvocationIds /\ abandoned' \subseteq DOMAIN plan
    BY <1>1, <1>2, <1>4, <1>7 DEF TypeOK
  <2>5. QED
    BY <1>1, <1>2, <1>3, <1>7, <2>1, <2>2, <2>3, <2>4, TypeKeeps
<1>17. QED
  BY <1>3, <1>11, <1>12, <1>13, <1>14, <1>15, <1>16 DEF ExecInv, Placed

-----------------------------------------------------------------------------
(* The nodes a node is inside.                                              *)

\* The recursive function Path is defined for every node, a parent being before
\* its children.
LEMMA PathExists ==
    ASSUME IsPlan(plan), NEW l \in Nat, l <= Len(plan)
    PROVE  \E f : f = [n \in 0..l |-> IF n = 0 THEN {} ELSE {n} \cup f[plan[n].parent]]
<1> DEFINE Defined(m) == \E f : f = [n \in 0..m |-> IF n = 0 THEN {} ELSE {n} \cup f[plan[n].parent]]
           T == {m \in 0..l : ~Defined(m)}
<1>1. \A n \in 1..l : plan[n].parent \in 0..(n - 1)
  <2> SUFFICES ASSUME NEW n \in 1..l PROVE plan[n].parent \in 0..(n - 1)
    OBVIOUS
  <2>1. Len(plan) \in Nat /\ DOMAIN plan = 1..Len(plan) /\ n \in DOMAIN plan /\ plan[1].parent = 0
    BY DEF IsPlan
  <2>2. n > 1 => plan[n].parent \in 1..(n - 1)
    BY <2>1 DEF IsPlan
  <2>3. QED
    BY <2>1, <2>2
<1>2. Defined(0)
  <2> DEFINE f == [n \in 0..0 |-> {}]
  <2>1. f = [n \in 0..0 |-> IF n = 0 THEN {} ELSE {n} \cup f[plan[n].parent]]
    OBVIOUS
  <2> HIDE DEF f
  <2>2. QED
    BY <2>1
<1>3. ASSUME NEW m \in 1..l, Defined(m - 1) PROVE Defined(m)
  <2>1. PICK f : f = [n \in 0..(m - 1) |-> IF n = 0 THEN {} ELSE {n} \cup f[plan[n].parent]]
    BY <1>3
  <2> DEFINE g == [n \in 0..m |-> IF n = m THEN {m} \cup f[plan[m].parent] ELSE f[n]]
             h == [n \in 0..m |-> IF n = 0 THEN {} ELSE {n} \cup g[plan[n].parent]]
  <2>2. \A n \in 0..(m - 1) : n \in 0..m /\ n # m /\ g[n] = f[n]
    OBVIOUS
  <2>3. ASSUME NEW n \in 0..m PROVE g[n] = h[n]
    <3>1. CASE n = 0
      <4>1. 0 \in 0..(m - 1)
        OBVIOUS
      <4>2. f[0] = {}
        BY <2>1, <4>1
      <4>3. QED
        BY <2>2, <3>1, <4>1, <4>2
    <3>2. CASE n # 0
      <4>1. n \in 1..l /\ plan[n].parent \in 0..(n - 1) /\ plan[n].parent \in 0..(m - 1)
        <5>1. n \in 1..l
          BY <3>2
        <5>2. plan[n].parent \in 0..(n - 1)
          BY <1>1, <5>1
        <5>3. QED
          BY <5>1, <5>2
      <4>2. g[plan[n].parent] = f[plan[n].parent]
        BY <2>2, <4>1
      <4>3. h[n] = {n} \cup f[plan[n].parent]
        BY <3>2, <4>2
      <4>4. CASE n = m
        BY <4>3, <4>4
      <4>5. CASE n # m
        <5>1. n \in 0..(m - 1)
          BY <4>5
        <5>2. f[n] = IF n = 0 THEN {} ELSE {n} \cup f[plan[n].parent]
          BY <2>1, <5>1
        <5>3. QED
          BY <2>2, <3>2, <4>3, <5>1, <5>2
      <4>6. QED
        BY <4>4, <4>5
    <3>3. QED
      BY <3>1, <3>2
  <2>4. g = h
    BY <2>3
  <2> HIDE DEF g
  <2>5. g = [n \in 0..m |-> IF n = 0 THEN {} ELSE {n} \cup g[plan[n].parent]]
    BY <2>4
  <2>6. QED
    BY <2>5
<1> HIDE DEF Defined
<1>4. T = {}
  <2> SUFFICES ASSUME T # {} PROVE FALSE
    OBVIOUS
  <2>1. PICK m \in T : \A k \in T : m <= k
    <3>1. T \subseteq Nat
      OBVIOUS
    <3> HIDE DEF T
    <3>2. QED
      BY <3>1, Least
  <2>2. m \in 1..l /\ m - 1 \in 0..l /\ ~(m <= m - 1)
    BY <1>2, <2>1
  <2>3. Defined(m - 1)
    BY <2>1, <2>2
  <2>4. QED
    BY <1>3, <2>1, <2>2, <2>3
<1>5. Defined(l)
  <2>1. l \in 0..l
    OBVIOUS
  <2>2. QED
    BY <1>4, <2>1
<1>6. QED
  BY <1>5 DEF Defined

LEMMA PathIs ==
    ASSUME IsPlan(plan)
    PROVE  \A n \in 0..Len(plan) : Path[n] = IF n = 0 THEN {} ELSE {n} \cup Path[plan[n].parent]
<1>1. Len(plan) \in Nat /\ Len(plan) <= Len(plan)
  BY DEF IsPlan
<1>2. \E f : f = [n \in 0..Len(plan) |-> IF n = 0 THEN {} ELSE {n} \cup f[plan[n].parent]]
  BY <1>1, PathExists
<1>3. Path = [n \in 0..Len(plan) |-> IF n = 0 THEN {} ELSE {n} \cup Path[plan[n].parent]]
  BY <1>2 DEF Path
<1> QED
  BY <1>3

\* What is around a node is a node, and none is after it.
LEMMA PathInside ==
    ASSUME IsPlan(plan), NEW n \in DOMAIN plan PROVE Path[n] \subseteq DOMAIN plan
<1> DEFINE T == {m \in DOMAIN plan : ~(Path[m] \subseteq DOMAIN plan)}
<1>1. Len(plan) \in Nat /\ DOMAIN plan = 1..Len(plan) /\ plan[1].parent = 0
  BY DEF IsPlan
<1>2. T = {}
  <2> SUFFICES ASSUME T # {} PROVE FALSE
    OBVIOUS
  <2>1. T \subseteq Nat
    BY <1>1
  <2>2. PICK m \in T : \A k \in T : m <= k
    BY <2>1, Least
  <2>3. m \in 1..Len(plan) /\ m \in 0..Len(plan) /\ m # 0 /\ m \in Nat
    BY <1>1
  <2>4. Path[m] = {m} \cup Path[plan[m].parent]
    BY <2>3, PathIs
  <2>5. CASE m = 1
    <3>1. 0 \in 0..Len(plan)
      BY <1>1
    <3>2. Path[0] = {}
      BY <3>1, PathIs
    <3>3. QED
      BY <1>1, <2>4, <2>5, <3>2
  <2>6. CASE m > 1
    <3>1. plan[m].parent \in DOMAIN plan /\ plan[m].parent < m
      BY <2>6, NodeIs
    <3>2. plan[m].parent \notin T
      BY <1>1, <2>2, <2>3, <3>1
    <3>3. QED
      BY <2>4, <3>1, <3>2
  <2>7. QED
    BY <2>3, <2>5, <2>6
<1>3. QED
  BY <1>2

LEMMA SuccessorsInside ==
    ASSUME IsPlan(plan), NEW n \in DOMAIN plan PROVE Successors(n) \subseteq DOMAIN plan
<1> SUFFICES ASSUME NEW a \in Path[n], a # 1, NEW x \in LaterSiblings(a) PROVE x \in DOMAIN plan
  BY DEF Successors
<1>1. a \in DOMAIN plan
  BY PathInside
<1>2. a > 1
  BY <1>1 DEF IsPlan
<1>3. plan[a].parent \in DOMAIN plan
  BY <1>1, <1>2, NodeIs
<1>4. PICK k \in DOMAIN plan[plan[a].parent].children : x = plan[plan[a].parent].children[k]
  BY DEF LaterSiblings
<1>5. QED
  BY <1>3, <1>4, ChildIs

-----------------------------------------------------------------------------
(* What becomes of a failed attempt.                                        *)

\* The attempt is final: it is recorded as it ended, and nothing follows it.
LEMMA HandledKeeps ==
    ASSUME ExecInv, Handling, NEW status \in Statuses, Finalize(status),
           at' = "step", UNCHANGED <<unit, proofs>>, halted' \in BOOLEAN, abandoned' \subseteq DOMAIN plan,
           \A i \in DOMAIN events' : i \in InvocationIds /\ events'[i] \in Dispositions,
           exhausted \subseteq exhausted',
           \A i \in exhausted' :
              \/ i \in exhausted
              \/ i = unit /\ status = "failed" /\ unit.attempt >= plan[unit.node].limit
    PROVE  ExecInv'
<1>1. /\ TypeOK /\ Placed /\ Tried /\ IsPlan(plan) /\ at = "handle" /\ SamePlan /\ plan' = plan
      /\ queue' = queue /\ calls' = calls /\ unit' = unit /\ proofs' = proofs
  BY PlanIs DEF ExecInv, Handling, SamePlan
<1>2. /\ unit \in InvocationIds /\ Begun \subseteq InvocationIds /\ unit \in DOMAIN records
      /\ records[unit].status = "running" /\ unit \in Begun
  BY <1>1, BegunTyped DEF Placed, UnitFits, Begun
<1>3. /\ DOMAIN records' = DOMAIN records
      /\ \A i \in DOMAIN records :
            /\ records'[i] \in RecordSet /\ records'[i].sent = records[i].sent
            /\ records[i].status = "failed" => records'[i] = records[i]
      /\ records'[unit].status = status
  BY <1>1, <1>2, StatusIs DEF Finalize
<1>4. Placed' /\ Begun' \subseteq Begun
  BY <1>1, <1>2, <1>3, UnitKeeps
<1>5. Tried'
  <2>1. Begun' \subseteq InvocationIds /\ \A i \in Begun' : i \in Begun
    BY <1>2, <1>4
  <2>2. ASSUME status = "failed", unit.attempt >= plan[unit.node].limit
        PROVE  /\ unit.attempt = plan[unit.node].limit
               /\ \A k \in Nat : k <= unit.attempt =>
                     Attempt(unit, k) \in DOMAIN records' /\ records'[Attempt(unit, k)].status = "failed"
    <3>1. /\ unit.attempt \in Nat /\ unit.node \in DOMAIN plan /\ plan[unit.node].limit \in Nat
          /\ Attempt(unit, unit.attempt) = unit
      BY <1>1, <1>2, IdIs, NodeIs
    <3>2. unit.attempt > 0 => unit.attempt <= plan[unit.node].limit
      BY <1>1, <1>2 DEF Tried, WithinBudget
    <3>3. \A k \in Nat : k < unit.attempt =>
             Attempt(unit, k) \in DOMAIN records /\ records[Attempt(unit, k)].status = "failed"
      BY <1>1, <1>2 DEF Tried, EarlierFailed
    <3>4. \A k \in Nat : k < unit.attempt =>
             Attempt(unit, k) \in DOMAIN records' /\ records'[Attempt(unit, k)].status = "failed"
      BY <1>3, <3>3
    <3>5. \A k \in Nat : k <= unit.attempt => k < unit.attempt \/ k = unit.attempt
      BY <3>1
    <3>6. Attempt(unit, unit.attempt) \in DOMAIN records' /\ records'[Attempt(unit, unit.attempt)].status = "failed"
      BY <1>2, <1>3, <2>2, <3>1
    <3>7. unit.attempt = plan[unit.node].limit
      BY <2>2, <3>1, <3>2
    <3>8. QED
      BY <3>4, <3>5, <3>6, <3>7
  <2>3. \A i \in exhausted' :
           \/ i \in exhausted
           \/ /\ i.attempt = plan[i.node].limit
              /\ \A k \in Nat : k <= i.attempt =>
                    Attempt(i, k) \in DOMAIN records' /\ records'[Attempt(i, k)].status = "failed"
    BY <2>2
  <2>4. QED
    BY <1>1, <1>3, <2>1, <2>3, TriedKeeps
<1>6. TypeOK'
  <2>1. \A i \in DOMAIN records' : i \in InvocationIds /\ records'[i] \in RecordSet
    BY <1>1, <1>3 DEF TypeOK
  <2>2. \A i \in DOMAIN proofs' : i \in DOMAIN records' /\ proofs'[i] \in Proofs
    BY <1>1, <1>3 DEF TypeOK
  <2>3. /\ exhausted' \subseteq DOMAIN records' /\ at' \in {"step", "attempt", "handle"}
        /\ unit' \in InvocationIds /\ calls' \in Seq(CallSet) /\ queue' \in Seq(StepSet)
    BY <1>1, <1>2, <1>3 DEF TypeOK
  <2>4. \A c \in DOMAIN calls' : calls'[c].before \subseteq DOMAIN records'
    BY <1>1, <1>3 DEF TypeOK
  <2>5. QED
    BY <1>1, <2>1, <2>2, <2>3, <2>4, TypeKeeps
<1>7. QED
  BY <1>4, <1>5, <1>6 DEF ExecInv

LEMMA DisposeTyped ==
    ASSUME TypeOK, NEW d \in Dispositions, Dispose(d)
    PROVE  \A i \in DOMAIN events' : i \in InvocationIds /\ events'[i] \in Dispositions
<1>1. \A i \in DOMAIN events : i \in InvocationIds /\ events[i] \in Dispositions
  BY DEF TypeOK
<1>2. events' = [events EXCEPT ![unit] = d]
  BY DEF Dispose
<1>3. QED
  BY <1>1, <1>2

\* What an unrecovered failure halts is in the plan.
LEMMA UnrecoveredIs ==
    ASSUME ExecInv, Unrecovered
    PROVE  /\ "failed" \in Statuses /\ Finalize("failed") /\ at' = "step" /\ UNCHANGED <<unit, proofs>>
           /\ halted' \in BOOLEAN /\ abandoned' \subseteq DOMAIN plan
<1>1. TypeOK /\ IsPlan(plan) /\ unit.node \in DOMAIN plan
  BY PlanIs, BegunTyped, IdIs DEF ExecInv
<1>2. Successors(unit.node) \subseteq DOMAIN plan
  BY <1>1, SuccessorsInside
<1>3. halted' = halted /\ halted \in BOOLEAN /\ abandoned \subseteq DOMAIN plan
  BY <1>1 DEF Unrecovered, TypeOK
<1>4. abandoned' \subseteq DOMAIN plan
  BY <1>2, <1>3 DEF Unrecovered
<1>5. QED
  BY <1>3, <1>4 DEF Unrecovered, Statuses

\* No handler, one that failed, a retry refused: the failure stands.
LEMMA UnrecoveredKeeps ==
    ASSUME ExecInv, NoEvent \/ NoMatch \/ HandlerFails \/ RetryRefused \/ RetryExhausted PROVE ExecInv'
<1>1. /\ TypeOK /\ Handling /\ Unrecovered
      /\ \/ events' = events
         \/ \E d \in {"nomatch", "unrecovered"} : Dispose(d)
      /\ \/ exhausted' = exhausted
         \/ exhausted' = exhausted \cup {unit} /\ Limit # NoRetry /\ Made >= Limit + 1
  BY DEF ExecInv, NoEvent, NoMatch, HandlerFails, RetryRefused, RetryExhausted, Retrying, Selecting
<1>2. {"nomatch", "unrecovered"} \subseteq Dispositions
  BY DEF Dispositions
<1>3. \A i \in DOMAIN events' : i \in InvocationIds /\ events'[i] \in Dispositions
  <2>1. CASE events' = events
    BY <1>1, <2>1 DEF TypeOK
  <2>2. CASE \E d \in {"nomatch", "unrecovered"} : Dispose(d)
    BY <1>1, <1>2, <2>2, DisposeTyped
  <2>3. QED
    BY <1>1, <2>1, <2>2
<1>4. \A i \in exhausted' : i \in exhausted \/ (i = unit /\ unit.attempt >= plan[unit.node].limit)
  <2>1. unit.attempt \in Nat /\ plan[unit.node].limit \in Nat
    BY <1>1, PlanIs, BegunTyped, IdIs, NodeIs
  <2>2. Made >= Limit + 1 => unit.attempt >= plan[unit.node].limit
    BY <2>1 DEF Made, Limit
  <2>3. QED
    BY <1>1, <2>2
<1>5. exhausted \subseteq exhausted'
  BY <1>1
<1>6. QED
  BY <1>1, <1>3, <1>4, <1>5, UnrecoveredIs, HandledKeeps

\* A handler recovered the failure, or stopped the run.
LEMMA RecoveredKeeps ==
    ASSUME ExecInv, HandlerRecovers \/ HandlerStops PROVE ExecInv'
<1>1. PICK status \in {"failed", "stopped", "cancelled"} :
         TypeOK /\ Handling /\ Recovered(status) /\ halted' \in {halted, TRUE}
  BY DEF ExecInv, HandlerRecovers, HandlerStops, Selecting
<1>2. /\ status \in Statuses /\ Finalize(status) /\ Dispose("recovered") /\ "recovered" \in Dispositions
      /\ at' = "step" /\ unit' = unit /\ proofs' = proofs /\ exhausted' = exhausted /\ abandoned' = abandoned
  BY <1>1 DEF Recovered, Statuses, Dispositions
<1>3. \A i \in DOMAIN events' : i \in InvocationIds /\ events'[i] \in Dispositions
  BY <1>1, <1>2, DisposeTyped
<1>4. abandoned' \subseteq DOMAIN plan /\ halted' \in BOOLEAN
  BY <1>1, <1>2 DEF TypeOK
<1>5. QED
  BY <1>1, <1>2, <1>3, <1>4, HandledKeeps

\* Another attempt is made only within the budget, after one that provably did
\* nothing or whose effects are accounted for.
LEMMA RetryKeeps ==
    ASSUME ExecInv, RetryGranted PROVE ExecInv'
<1>1. /\ Handling /\ Limit # NoRetry /\ Made < Limit + 1 /\ Authorized /\ Finalize("failed")
      /\ Dispose("unrecovered") /\ unit' = Again(unit) /\ at' = "attempt"
      /\ exhausted' = exhausted /\ abandoned' = abandoned /\ halted' = halted
  BY DEF RetryGranted, Retrying, Selecting
<1>2. /\ TypeOK /\ Placed /\ Tried /\ IsPlan(plan) /\ at = "handle" /\ SamePlan /\ plan' = plan
      /\ queue' = queue /\ calls' = calls
  BY <1>1, PlanIs DEF ExecInv, Handling, SamePlan
<1>3. /\ unit \in InvocationIds /\ Begun \subseteq InvocationIds /\ unit \in DOMAIN records
      /\ records[unit].status = "running" /\ unit \in Begun /\ records[unit].phase # "none"
  BY <1>2, BegunTyped DEF Placed, UnitFits, Begun
<1>4. /\ DOMAIN records' = DOMAIN records
      /\ \A i \in DOMAIN records :
            /\ records'[i] \in RecordSet /\ records'[i].sent = records[i].sent
            /\ records[i].status = "failed" => records'[i] = records[i]
      /\ records'[unit].status = "failed"
      /\ records'[unit].phase = records[unit].phase /\ records'[unit].effect = records[unit].effect
  <2>1. "failed" \in Statuses
    BY DEF Statuses
  <2>2. QED
    BY <1>1, <1>2, <1>3, <2>1, StatusIs DEF Finalize
<1>5. Placed' /\ Begun' \subseteq Begun \cup {Again(unit)}
  BY <1>1, <1>2, <1>3, <1>4, UnitKeeps
<1>6. /\ Again(unit) \in InvocationIds /\ Again(unit).attempt = unit.attempt + 1
      /\ Again(unit).node = unit.node /\ Before(Again(unit)) = unit /\ unit.attempt \in Nat
      /\ plan[unit.node].limit \in Nat
  BY <1>2, <1>3, IdIs, NodeIs
<1>7. unit.attempt + 1 <= plan[unit.node].limit /\ unit.attempt + 1 > 0
  BY <1>1, <1>6 DEF Made, Limit
<1>8. Again(unit) \notin DOMAIN records'
  BY <1>1, <1>5 DEF Placed, UnitFits
<1>9. \/ NoEffects(records[unit]) /\ proofs' = proofs
      \/ \E p \in Proofs : ProofMatches(records[unit], p) /\ proofs' = Put(proofs, unit, p)
  BY <1>1 DEF Authorized
<1>10. /\ \A i \in DOMAIN proofs : i \in DOMAIN proofs' /\ (i # unit => proofs'[i] = proofs[i])
       /\ \A i \in DOMAIN proofs' : i \in DOMAIN records /\ proofs'[i] \in Proofs
       /\ \/ records[unit].effect = "none" /\ records[unit].phase = "pre"
          \/ /\ unit \in DOMAIN proofs'
             /\ Uncertain(records[unit]) => proofs'[unit].method = "reconcile"
  <2>1. \A i \in DOMAIN proofs : i \in DOMAIN records /\ proofs[i] \in Proofs
    BY <1>2 DEF TypeOK
  <2>2. CASE NoEffects(records[unit]) /\ proofs' = proofs
    BY <1>3, <2>1, <2>2 DEF NoEffects
  <2>3. CASE \E p \in Proofs : ProofMatches(records[unit], p) /\ proofs' = Put(proofs, unit, p)
    <3>1. PICK p \in Proofs : ProofMatches(records[unit], p) /\ proofs' = Put(proofs, unit, p)
      BY <2>3
    <3>2. /\ DOMAIN proofs' = DOMAIN proofs \cup {unit} /\ proofs'[unit] = p
          /\ \A i \in DOMAIN proofs : i # unit => proofs'[i] = proofs[i]
      BY <3>1 DEF Put, PutAll
    <3>3. Uncertain(records[unit]) => p.method = "reconcile"
      BY <3>1 DEF ProofMatches
    <3>4. QED
      BY <1>3, <2>1, <3>2, <3>3
  <2>4. QED
    BY <1>9, <2>2, <2>3
<1>11. Tried'
  <2>1. Begun' \subseteq InvocationIds
    BY <1>3, <1>5, <1>6
  <2>2. ASSUME NEW i \in Begun', i = Again(unit) PROVE Excused(i)'
    <3>1. Before(i) = unit /\ i \notin DOMAIN records'
      BY <1>6, <1>8, <2>2
    <3>2. \A r : Uncertain(r) = ("indeterminate" \in {r.phase, r.effect})
      BY DEF Uncertain
    <3> DEFINE b == Before(i)
    <3>3. b' = b /\ b = unit
      BY <3>1 DEF Before
    <3>4. Uncertain(records'[b]) = Uncertain(records[unit])
      BY <1>4, <3>2, <3>3
    <3>5. /\ records'[b].phase = records[unit].phase /\ records'[b].effect = records[unit].effect
          /\ proofs'[b] = proofs'[unit]
      BY <1>4, <3>3
    <3> HIDE DEF b
    <3>6. \/ records'[b].effect = "none" /\ records'[b].phase = "pre"
          \/ b \in DOMAIN proofs' /\ (Uncertain(records'[b]) => proofs'[b].method = "reconcile")
      BY <1>10, <3>3, <3>4, <3>5
    <3>7. QED
      BY <3>1, <3>3, <3>6 DEF Excused, b, Uncertain
  <2>3. \A i \in Begun' :
           \/ i \in Begun
           \/ i.attempt = 0
           \/ /\ i.attempt > 0 /\ i.attempt <= plan[i.node].limit /\ Before(i) \in Begun
              /\ Before(i) \in DOMAIN records' /\ records'[Before(i)].status = "failed"
              /\ Excused(i)'
    <3> SUFFICES ASSUME NEW i \in Begun', i \notin Begun
                 PROVE  /\ i.attempt > 0 /\ i.attempt <= plan[i.node].limit /\ Before(i) \in Begun
                        /\ Before(i) \in DOMAIN records' /\ records'[Before(i)].status = "failed"
                        /\ Excused(i)'
      OBVIOUS
    <3>1. i = Again(unit)
      BY <1>5
    <3>2. /\ i.attempt > 0 /\ i.attempt <= plan[i.node].limit /\ Before(i) \in Begun
          /\ Before(i) \in DOMAIN records' /\ records'[Before(i)].status = "failed"
      BY <1>3, <1>4, <1>6, <1>7, <3>1
    <3>3. QED
      BY <2>2, <3>1, <3>2
  <2>4. \A i \in DOMAIN proofs :
           /\ i \in DOMAIN proofs'
           /\ i \in DOMAIN records /\ records[i].status = "failed" => proofs'[i] = proofs[i]
    BY <1>3, <1>10
  <2>5. QED
    BY <1>1, <1>2, <1>4, <2>1, <2>3, <2>4, TriedKeeps
<1>12. TypeOK'
  <2>1. \A i \in DOMAIN records' : i \in InvocationIds /\ records'[i] \in RecordSet
    BY <1>2, <1>4 DEF TypeOK
  <2>2. \A i \in DOMAIN proofs' : i \in DOMAIN records' /\ proofs'[i] \in Proofs
    BY <1>4, <1>10
  <2>3. /\ exhausted' \subseteq DOMAIN records' /\ at' \in {"step", "attempt", "handle"}
        /\ unit' \in InvocationIds /\ calls' \in Seq(CallSet) /\ queue' \in Seq(StepSet)
        /\ halted' \in BOOLEAN /\ abandoned' \subseteq DOMAIN plan
    BY <1>1, <1>2, <1>4, <1>6 DEF TypeOK
  <2>4. \A c \in DOMAIN calls' : calls'[c].before \subseteq DOMAIN records'
    BY <1>2, <1>4 DEF TypeOK
  <2>5. \A i \in DOMAIN events' : i \in InvocationIds /\ events'[i] \in Dispositions
    <3>1. "unrecovered" \in Dispositions
      BY DEF Dispositions
    <3>2. QED
      BY <1>1, <1>2, <3>1, DisposeTyped
  <2>6. QED
    BY <1>2, <2>1, <2>2, <2>3, <2>4, <2>5, TypeKeeps
<1>13. QED
  BY <1>5, <1>11, <1>12 DEF ExecInv

-----------------------------------------------------------------------------
(* The whole specification.                                                 *)

LEMMA ExecInit == Init => ExecInv
<1> SUFFICES ASSUME Init PROVE ExecInv
  OBVIOUS
<1> DEFINE s == EnterStep(1, <<>>)
<1>1. /\ queue = <<s>> /\ calls = <<>> /\ at = "step" /\ records = <<>> /\ unit = First(1, <<>>)
      /\ events = <<>> /\ proofs = <<>> /\ exhausted = {} /\ abandoned = {} /\ halted = FALSE
      /\ \E r \in Runs : plan = r.plan /\ interleaving = r.interleaving
  BY DEF Init
<1>2. IsPlan(plan) /\ MaxItems \in Nat
  BY <1>1, RunsAssumption
<1>3. 1 \in DOMAIN plan
  BY <1>2 DEF IsPlan
<1>4. /\ s \in StepSet /\ s.op = "enter" /\ s.node = 1 /\ s.iteration = <<>>
  <2>1. 0 \in 0..MaxItems
    BY <1>2
  <2>2. QED
    BY <1>3, <2>1 DEF EnterStep, StepSet
<1>5. unit \in InvocationIds
  BY <1>1, <1>3 DEF First, Id, InvocationIds
<1> HIDE DEF s
<1>6. queue \in Seq(StepSet) /\ StepsOf(queue) = {s} /\ Alone(queue)
  BY <1>1, <1>4, SingleIs
<1>7. DOMAIN calls = {} /\ DOMAIN records = {} /\ DOMAIN events = {} /\ DOMAIN proofs = {} /\ calls \in Seq(CallSet)
  BY <1>1
<1>8. Rows = {} /\ Active = {} /\ Begun = {} /\ AllSteps = {s}
  BY <1>1, <1>6, <1>7 DEF Rows, Active, Begun, AllSteps
<1>9. TypeOK
  BY <1>1, <1>5, <1>6, <1>7 DEF TypeOK
<1>10. StepsOnce /\ RowsOnce
  BY <1>6, <1>7 DEF StepsOnce, RowsOnce
<1>11. StepsFit /\ UnitFits
  BY <1>1, <1>4, <1>7, <1>8 DEF StepsFit, UnitFits
<1>12. AllCame
  <2>1. Due = {First(1, <<>>)}
    BY <1>4, <1>8 DEF Due, EnterSteps
  <2>2. First(1, <<>>).node = 1
    BY DEF First, Id
  <2>3. QED
    BY <1>8, <2>1, <2>2 DEF AllCame, Came
<1>13. Tried
  BY <1>1, <1>8 DEF Tried, EarlierFailed, WithinBudget, AllExcused, ExhaustedFits
<1>14. QED
  BY <1>9, <1>10, <1>11, <1>12, <1>13 DEF ExecInv, Placed

LEMMA ExecSame == ExecInv /\ UNCHANGED vars => ExecInv'
<1> SUFFICES ASSUME ExecInv, UNCHANGED vars PROVE ExecInv'
  OBVIOUS
<1>1. /\ plan' = plan /\ interleaving' = interleaving /\ queue' = queue /\ calls' = calls /\ at' = at
      /\ unit' = unit /\ records' = records /\ events' = events /\ proofs' = proofs
      /\ exhausted' = exhausted /\ abandoned' = abandoned /\ halted' = halted
  BY DEF vars
<1>2. TypeOK'
  <2>1. TypeOK /\ SamePlan
    BY <1>1 DEF ExecInv, SamePlan
  <2>2. /\ \A i \in DOMAIN records' : i \in InvocationIds /\ records'[i] \in RecordSet
        /\ \A i \in DOMAIN events' : i \in InvocationIds /\ events'[i] \in Dispositions
        /\ \A i \in DOMAIN proofs' : i \in DOMAIN records' /\ proofs'[i] \in Proofs
        /\ \A c \in DOMAIN calls' : calls'[c].before \subseteq DOMAIN records'
    BY <1>1, <2>1 DEF TypeOK
  <2>3. /\ exhausted' \subseteq DOMAIN records' /\ halted' \in BOOLEAN /\ at' \in {"step", "attempt", "handle"}
        /\ unit' \in InvocationIds /\ calls' \in Seq(CallSet) /\ queue' \in Seq(StepSet)
        /\ abandoned' \subseteq DOMAIN plan
    BY <1>1, <2>1 DEF TypeOK
  <2>4. QED
    BY <2>1, <2>2, <2>3, TypeKeeps
<1>3. AllSteps' = AllSteps /\ Rows' = Rows /\ Active' = Active /\ Begun' = Begun
  <2>1. AllSteps' = AllSteps /\ Rows' = Rows
    BY <1>1 DEF AllSteps, StepsOf, Rows
  <2>2. QED
    BY <1>1, <2>1 DEF Active, Begun
<1>4. Due' = Due
  BY <1>3 DEF Due, EnterSteps, First, Id
<1>5. StepsOnce' /\ RowsOnce'
  BY <1>1 DEF ExecInv, Placed, StepsOnce, RowsOnce, Alone, Apart, SameStep, StepsOf
<1>6. StepsFit' /\ UnitFits'
  BY <1>1, <1>3 DEF ExecInv, Placed, StepsFit, UnitFits, First, Id
<1>7. AllCame'
  <2>1. ASSUME NEW n, NEW it, Came(n, it) PROVE Came(n, it)'
    BY <1>1, <1>3, <2>1 DEF Came, First, Id
  <2>2. QED
    BY <1>3, <1>4, <2>1 DEF ExecInv, Placed, AllCame
<1>8. Tried'
  BY <1>1, <1>3 DEF ExecInv, Tried, EarlierFailed, WithinBudget, AllExcused, ExhaustedFits, Attempt,
     Excused, Before, Uncertain
<1>9. QED
  BY <1>2, <1>5, <1>6, <1>7, <1>8 DEF ExecInv, Placed

LEMMA ExecNext == ExecInv /\ [Next]_vars => ExecInv'
<1> SUFFICES ASSUME ExecInv, [Next]_vars PROVE ExecInv'
  OBVIOUS
<1>1. CASE Pass \/ LeaveContainer
  BY <1>1, TakenKeeps
<1>2. CASE Skip \/ FaultWhen \/ FaultLoop
  BY <1>2, LeftOutKeeps
<1>3. CASE EnterContainer
  BY <1>3, EnterContainerKeeps
<1>4. CASE EnterLoop
  BY <1>4, EnterLoopKeeps
<1>5. CASE Iterate
  BY <1>5, IterateKeeps
<1>6. CASE BeginAction
  BY <1>6, BeginActionKeeps
<1>7. CASE FailEarly
  BY <1>7, FailEarlyKeeps
<1>8. CASE CompleteInside \/ AskHost
  BY <1>8, AskHostKeeps
<1>9. CASE EndUnit
  BY <1>9, EndUnitKeeps
<1>10. CASE Delegate
  BY <1>10, DelegateKeeps
<1>11. CASE Return
  BY <1>11, ReturnKeeps
<1>12. CASE NoEvent \/ NoMatch \/ HandlerFails \/ RetryRefused \/ RetryExhausted
  BY <1>12, UnrecoveredKeeps
<1>13. CASE HandlerRecovers \/ HandlerStops
  BY <1>13, RecoveredKeeps
<1>14. CASE RetryGranted
  BY <1>14, RetryKeeps
<1>15. CASE UNCHANGED vars
  BY <1>15, ExecSame
<1>16. QED
  BY <1>1, <1>2, <1>3, <1>4, <1>5, <1>6, <1>7, <1>8, <1>9, <1>10, <1>11, <1>12, <1>13, <1>14, <1>15
  DEF Next

\* The inductive invariant.
THEOREM ExecSpec == Spec => []ExecInv
<1>1. QED
  BY ExecInit, ExecNext, PTL DEF Spec

\* The engine's state is always of its types: every step, record, event and proof
\* is about a node of the plan (Engine, in execute.rs).
THEOREM TypeCorrect == Spec => []TypeOK
<1>1. ExecInv => TypeOK
  BY DEF ExecInv
<1>2. QED
  BY <1>1, ExecSpec, PTL

\* A further attempt is made only after one that provably did nothing, or one whose
\* effects the host accounted for, and then with the request the account is about
\* (retry_is_safe, retry_proof_matches, the retry guard of attempt).
THEOREM RetriedSafelyHolds == Spec => []RetriedSafely
<1>1. ExecInv => RetriedSafely
  <2> SUFFICES ASSUME ExecInv, NEW i \in DOMAIN records, i.attempt > 0
               PROVE  /\ records[Before(i)].status = "failed"
                      /\ \/ records[Before(i)].effect = "none" /\ records[Before(i)].phase = "pre"
                         \/ /\ Before(i) \in DOMAIN proofs
                            /\ records[i].sent # "changed"
                            /\ Uncertain(records[Before(i)]) => proofs[Before(i)].method = "reconcile"
    BY DEF RetriedSafely
  <2>1. i \in Begun /\ i \in InvocationIds
    BY BegunTyped DEF Begun, ExecInv
  <2>2. i.attempt - 1 \in Nat /\ i.attempt - 1 < i.attempt /\ Before(i) = Attempt(i, i.attempt - 1)
    BY <2>1, IdIs
  <2>3. records[Before(i)].status = "failed"
    BY <2>1, <2>2 DEF ExecInv, Tried, EarlierFailed
  <2>4. Excused(i)
    BY <2>1 DEF ExecInv, Tried, AllExcused
  <2>5. QED
    BY <2>3, <2>4 DEF Excused
<1>2. QED
  BY <1>1, ExecSpec, PTL

\* An ACTION makes at most 1 + LIMIT attempts, and is reported exhausted only after
\* exactly so many, all of them failed (authorize_retry).
THEOREM BudgetExactHolds == Spec => []BudgetExact
<1>1. ExecInv => BudgetExact
  <2> SUFFICES ASSUME ExecInv PROVE BudgetExact
    OBVIOUS
  <2>1. \A i \in DOMAIN records : i.attempt > 0 => i.attempt <= plan[i.node].limit
    BY DEF ExecInv, Tried, WithinBudget, Begun
  <2>2. \A i \in exhausted : i.attempt = plan[i.node].limit
    BY DEF ExecInv, Tried, ExhaustedFits
  <2>3. ASSUME NEW i \in exhausted, NEW k \in 0..i.attempt
        PROVE  Attempt(i, k) \in DOMAIN records /\ records[Attempt(i, k)].status = "failed"
    <3>1. k \in Nat /\ k <= i.attempt
      <4>1. i \in InvocationIds
        BY DEF ExecInv, TypeOK
      <4>2. i.attempt \in Nat
        BY <4>1, IdIs
      <4>3. QED
        BY <4>2
    <3>2. QED
      BY <3>1 DEF ExecInv, Tried, ExhaustedFits
  <2>4. QED
    BY <2>1, <2>2, <2>3 DEF BudgetExact, Attempt
<1>2. QED
  BY <1>1, ExecSpec, PTL

-----------------------------------------------------------------------------
(* A halted run.                                                            *)

\* Only a branch raises an event without a record, so a row that returns after
\* the run was halted has none: no handler, and no retry, can answer for it.
EventsFit == \A e \in DOMAIN events : e \in DOMAIN records \/ plan[e.node].block # "action"
HaltFits == halted => at = "step" \/ (at = "handle" /\ unit \notin DOMAIN events)
HaltInv == EventsFit /\ HaltFits
BeginsNothing == halted => halted' /\ (DOMAIN records' \ DOMAIN records) \subseteq Rows

LEMMA EventsKeep ==
    ASSUME EventsFit, plan' = plan, DOMAIN records \subseteq DOMAIN records',
           \A e \in DOMAIN events' :
              e \in DOMAIN events \/ e \in DOMAIN records' \/ plan[e.node].block # "action"
    PROVE  EventsFit'
BY DEF EventsFit

LEMMA FaultedIs ==
    ASSUME NEW n, NEW it, NEW pick, NEW e, e \in {events, PutAll(events, Faulted(n, it, pick), "pending")}
    PROVE  \A x \in DOMAIN e : x \in DOMAIN events \/ plan[x.node].block # "action"
<1>1. \A c \in Ifs(n) : First(c, it).node = c /\ plan[c].block # "action"
  BY DEF Ifs, First, Id
<1>2. DOMAIN e \subseteq DOMAIN events \cup Faulted(n, it, pick)
  BY DEF PutAll
<1>3. \A x \in Faulted(n, it, pick) : plan[x.node].block # "action"
  BY <1>1 DEF Faulted
<1>4. QED
  BY <1>2, <1>3

\* A unit is entered only before the run is halted.
LEMMA HaltEntering ==
    ASSUME HaltInv, Entering, plan' = plan, halted' = halted,
           \/ /\ \E status : records' = Put(records, Here, Bare(status))
              /\ events' \in {events, Put(events, Here, "pending")}
           \/ /\ \E status : records' = Put(records, Here, Bare(status))
              /\ \E pick : events' \in {events, PutAll(events, Faulted(Here.node, Here.iteration, pick), "pending")}
           \/ records' = records /\ events' = events
    PROVE  HaltInv' /\ BeginsNothing
<1>1. ~halted /\ ~halted'
  BY DEF Entering
<1>2. DOMAIN records \subseteq DOMAIN records'
  BY DEF Put, PutAll
<1>3. \A e \in DOMAIN events' :
         e \in DOMAIN events \/ e \in DOMAIN records' \/ plan[e.node].block # "action"
  <2>1. CASE /\ \E status : records' = Put(records, Here, Bare(status))
             /\ events' \in {events, Put(events, Here, "pending")}
    BY <2>1 DEF Put, PutAll
  <2>2. CASE \E pick : events' \in {events, PutAll(events, Faulted(Here.node, Here.iteration, pick), "pending")}
    BY <2>2, FaultedIs
  <2>3. QED
    BY <2>1, <2>2
<1>4. EventsFit'
  BY <1>2, <1>3, EventsKeep DEF HaltInv
<1>5. QED
  BY <1>1, <1>4 DEF HaltInv, HaltFits, BeginsNothing

LEMMA HaltSteps ==
    ASSUME HaltInv, Skip \/ FaultWhen \/ FaultLoop \/ EnterContainer \/ EnterLoop \/ BeginAction
    PROVE  HaltInv' /\ BeginsNothing
<1>1. Entering /\ plan' = plan /\ halted' = halted
  BY DEF Skip, FaultWhen, FaultLoop, EnterContainer, EnterLoop, BeginAction, SamePlan, SameRun
<1>2. \/ /\ \E status : records' = Put(records, Here, Bare(status))
         /\ events' \in {events, Put(events, Here, "pending")}
      \/ /\ \E status : records' = Put(records, Here, Bare(status))
         /\ \E pick : events' \in {events, PutAll(events, Faulted(Here.node, Here.iteration, pick), "pending")}
      \/ records' = records /\ events' = events
  BY DEF Skip, FaultWhen, FaultLoop, EnterContainer, EnterLoop, BeginAction
<1>3. QED
  BY <1>1, <1>2, HaltEntering

LEMMA HaltPassing ==
    ASSUME HaltInv, Pass \/ Iterate \/ LeaveContainer
    PROVE  HaltInv' /\ BeginsNothing
<1>1. /\ at = "step" /\ at' = "step" /\ plan' = plan /\ halted' = halted
      /\ DOMAIN records' = DOMAIN records
      /\ \/ events' = events
         \/ \E n, it, pick : events' \in {events, PutAll(events, Faulted(n, it, pick), "pending")}
  BY DEF Pass, Iterate, LeaveContainer, Taking, SamePlan, SameRun
<1>2. \A e \in DOMAIN events' : e \in DOMAIN events \/ plan[e.node].block # "action"
  BY <1>1, FaultedIs
<1>3. EventsFit'
  BY <1>1, <1>2, EventsKeep DEF HaltInv
<1>4. QED
  BY <1>1, <1>3 DEF HaltInv, HaltFits, BeginsNothing

\* No attempt is under way once the run is halted.
LEMMA HaltAttempt ==
    ASSUME HaltInv, at = "attempt", plan' = plan, halted' = halted,
           DOMAIN records \subseteq DOMAIN records',
           \A e \in DOMAIN events' : e \in DOMAIN events \/ e \in DOMAIN records'
    PROVE  HaltInv' /\ BeginsNothing
<1>1. ~halted /\ ~halted'
  BY DEF HaltInv, HaltFits
<1>2. EventsFit'
  BY EventsKeep DEF HaltInv
<1>3. QED
  BY <1>1, <1>2 DEF HaltInv, HaltFits, BeginsNothing

LEMMA HaltOutcome ==
    ASSUME NEW i, NEW effect, NEW sent,
           Succeeds(i, effect, sent) \/ \E phase : HasFailed(i, phase, effect, sent)
    PROVE  /\ DOMAIN records' = DOMAIN records \cup {i}
           /\ \A e \in DOMAIN events' : e \in DOMAIN events \/ e \in DOMAIN records'
<1>1. CASE Succeeds(i, effect, sent)
  BY <1>1 DEF Succeeds, Put, PutAll, Recovering
<1>2. CASE \E phase : HasFailed(i, phase, effect, sent)
  <2>1. PICK phase : HasFailed(i, phase, effect, sent)
    BY <1>2
  <2>2. \E r : records' = Put(records, i, r) /\ events' \in {events, Put(events, i, "pending")}
    BY <2>1 DEF HasFailed, Fails
  <2>3. QED
    BY <2>2 DEF Put, PutAll
<1>3. QED
  BY <1>1, <1>2

LEMMA HaltAttempts ==
    ASSUME HaltInv, FailEarly \/ CompleteInside \/ AskHost \/ EndUnit \/ Delegate
    PROVE  HaltInv' /\ BeginsNothing
<1>1. at = "attempt" /\ plan' = plan /\ halted' = halted
  BY DEF FailEarly, CompleteInside, AskHost, EndUnit, Delegate, Doing, StaysPut, SamePlan
<1>2. /\ DOMAIN records \subseteq DOMAIN records'
      /\ \A e \in DOMAIN events' : e \in DOMAIN events \/ e \in DOMAIN records'
  <2>1. CASE FailEarly \/ CompleteInside \/ AskHost
    <3>1. \E effect, sent : Succeeds(unit, effect, sent) \/ \E phase : HasFailed(unit, phase, effect, sent)
      <4>1. CASE FailEarly
        BY <4>1 DEF FailEarly, HasFailed
      <4>2. CASE CompleteInside \/ AskHost
        BY <4>2 DEF CompleteInside, AskHost, record_of, HasFailed
      <4>3. QED
        BY <2>1, <4>1, <4>2
    <3>2. QED
      BY <3>1, HaltOutcome
  <2>2. CASE EndUnit
    <3>1. \/ HasFailed(unit, "pre", "none", "no")
          \/ \E i, st, r : /\ records' = Put([records EXCEPT ![i].status = st], unit, r)
                           /\ events' = Recovering(unit)
      BY <2>2 DEF EndUnit, HasFailed
    <3>2. CASE \E i, st, r : /\ records' = Put([records EXCEPT ![i].status = st], unit, r)
                             /\ events' = Recovering(unit)
      BY <3>2 DEF Put, PutAll, Recovering
    <3>3. QED
      BY <3>1, <3>2, HaltOutcome
  <2>3. CASE Delegate
    BY <2>3 DEF Delegate
  <2>4. QED
    BY <2>1, <2>2, <2>3
<1>3. QED
  BY <1>1, <1>2, HaltAttempt

\* What returns was under way; its failure raises no event of its own.
LEMMA HaltReturn ==
    ASSUME ExecInv, HaltInv, Return PROVE HaltInv' /\ BeginsNothing
<1> DEFINE row == Head(calls).row
<1>1. /\ at = "step" /\ calls # <<>> /\ unit' = row /\ plan' = plan /\ halted' = halted
  BY DEF Return, SamePlan
<1>2. \E effect :
         \/ Succeeds(row, effect, "no")
         \/ \E phase : Fails(row, phase, effect, "no", FALSE)
  BY DEF Return
<1>3. row \in Rows /\ row \notin DOMAIN records /\ plan[row.node].block = "action"
  <2>1. calls \in Seq(CallSet) /\ calls # <<>>
    BY <1>1, StepsTyped DEF ExecInv
  <2>2. 1 \in DOMAIN calls /\ Head(calls) = calls[1]
    BY <2>1
  <2>3. row \in Rows /\ row = calls[1].row
    BY <2>2 DEF Rows
  <2>4. QED
    BY <2>2, <2>3 DEF ExecInv, Placed, RowsOnce, UnitFits, Active
<1> HIDE DEF row
<1>4. /\ DOMAIN records' = DOMAIN records \cup {row} /\ DOMAIN events' = DOMAIN events
      /\ at' \in {"step", "handle"}
  BY <1>2 DEF Succeeds, Fails, Put, PutAll, Recovering
<1>5. row \notin DOMAIN events
  BY <1>3 DEF HaltInv, EventsFit
<1>6. EventsFit'
  BY <1>1, <1>4, EventsKeep DEF HaltInv
<1>7. QED
  BY <1>1, <1>3, <1>4, <1>5, <1>6 DEF HaltInv, HaltFits, BeginsNothing

LEMMA HaltHandling ==
    ASSUME HaltInv, \/ NoEvent \/ NoMatch \/ HandlerRecovers \/ HandlerStops \/ HandlerFails
                    \/ RetryRefused \/ RetryExhausted \/ RetryGranted
    PROVE  HaltInv' /\ BeginsNothing
<1>1. /\ at = "handle" /\ plan' = plan /\ DOMAIN records' = DOMAIN records /\ DOMAIN events' = DOMAIN events
      /\ at' = "step" \/ (at' = "attempt" /\ unit \in DOMAIN events /\ halted' = halted)
      /\ halted' = halted \/ halted'
  <2>1. CASE NoEvent \/ NoMatch \/ HandlerFails \/ RetryRefused \/ RetryExhausted
    BY <2>1 DEF NoEvent, NoMatch, HandlerFails, RetryRefused, RetryExhausted, Retrying, Selecting, Handling,
       SamePlan, Unrecovered, Finalize, Dispose
  <2>2. CASE HandlerRecovers \/ HandlerStops
    BY <2>2 DEF HandlerRecovers, HandlerStops, Selecting, Handling, SamePlan, Recovered, Finalize, Dispose
  <2>3. CASE RetryGranted
    BY <2>3 DEF RetryGranted, Retrying, Selecting, Handling, SamePlan, Finalize, Dispose
  <2>4. QED
    BY <2>1, <2>2, <2>3
<1>2. EventsFit'
  BY <1>1, EventsKeep DEF HaltInv
<1>3. HaltFits'
  BY <1>1 DEF HaltInv, HaltFits
<1>4. BeginsNothing
  BY <1>1 DEF BeginsNothing
<1>5. QED
  BY <1>2, <1>3, <1>4 DEF HaltInv

LEMMA HaltNext == ExecInv /\ HaltInv /\ [Next]_vars => HaltInv' /\ (BeginsNothing \/ UNCHANGED vars)
<1> SUFFICES ASSUME ExecInv, HaltInv, [Next]_vars PROVE HaltInv' /\ (BeginsNothing \/ UNCHANGED vars)
  OBVIOUS
<1>1. CASE UNCHANGED vars
  BY <1>1 DEF vars, HaltInv, EventsFit, HaltFits
<1>2. CASE Next
  BY <1>2, HaltSteps, HaltPassing, HaltAttempts, HaltReturn, HaltHandling DEF Next
<1>3. QED
  BY <1>1, <1>2

LEMMA HaltInit == Init => HaltInv
BY DEF Init, HaltInv, EventsFit, HaltFits

\* Once a handler stopped the run no unit begins: the only records still added are
\* those of the rows that were delegating (Engine.halted).
THEOREM HaltedBeginsNothingHolds == Spec => HaltedBeginsNothing
<1>1. ExecInv /\ HaltInv /\ [Next]_vars => [BeginsNothing]_vars
  BY HaltNext
<1>2. ExecInv /\ ExecInv' /\ HaltInv /\ [Next]_vars => HaltInv'
  BY HaltNext
<1>3. Spec => [][BeginsNothing]_vars
  BY <1>1, <1>2, ExecSpec, HaltInit, PTL DEF Spec
<1>4. QED
  BY <1>3, PTL DEF HaltedBeginsNothing, BeginsNothing

-----------------------------------------------------------------------------
(* The order in which what is pending is taken.                            *)
(*                                                                         *)
(* FinishesLast, NothingAfterFailureHere, ParallelAllEntered and           *)
(* RowReportsUnit say what may still happen after something is recorded,   *)
(* so what they need is an invariant of everything that is still to        *)
(* happen: the steps of the queue in use and of those set aside, and the   *)
(* rows under way.  They are taken one at a time, the innermost queue      *)
(* first; each stands in a place, and x above y means x is taken first.    *)

\* What is pending, by its place: the level of its queue (0 is the outermost) and its
\* height in it.  A row stands on the queue that was set aside for it.
StepItem(l, h, s) ==
    [level |-> l, height |-> h, op |-> s.op, node |-> s.node, iteration |-> s.iteration, attempt |-> 0]
RowItem(l, h, i) ==
    [level |-> l, height |-> h, op |-> "row", node |-> i.node, iteration |-> i.iteration,
     attempt |-> i.attempt]
StepItems(l, q) == {StepItem(l, Len(q) + 1 - k, q[k]) : k \in DOMAIN q}
CallItems(l, c) == StepItems(l, c.outer) \cup {RowItem(l, Len(c.outer) + 1, c.row)}
Aside(cs) == UNION {CallItems(Len(cs) - k, cs[k]) : k \in DOMAIN cs}
Performed == IF at = "step" THEN {} ELSE {RowItem(Len(calls), Len(queue) + 1, unit)}
Pending == Aside(calls) \cup StepItems(Len(calls), queue) \cup Performed
Higher(x, y) == x.level > y.level \/ (x.level = y.level /\ x.height > y.height)

\* j is part of what the row i delegates to.
Within(i, j) ==
    /\ i.node \in Path[j.node] \ {j.node}
    /\ IsPrefixOf(Append(i.iteration, i.attempt), j.iteration)

\* j comes later than i in a sequential group, in an instance i is in.
Later(j, i) == Follows(j.node, i.node) /\ IsPrefixOf(j.iteration, i.iteration)

\* x may be taken before y: it is not around y (but the next instance of a loop comes before
\* the end of the loop), it is none of what comes after y, and if y is a row it is part of
\* what the row delegates to.
InOrderOf(x, y) ==
    /\ Around(x, y) => /\ x.op = "iterate" /\ y.op = "leave"
                       /\ x.node = y.node /\ x.iteration = y.iteration
    /\ ~Later(x, y)
    /\ y.op = "row" => Within(y, x)

\* All that is pending is in that order, ...
Nested == \A x, y \in Pending : Higher(x, y) => InOrderOf(x, y)

\* ... the root is entered once, ...
RootFits == \A i \in Due \cup Begun : i.node = 1 => i.iteration = <<>>

\* ... nothing inside a row is pending once the row is recorded, ...
RowsClosed == \A i \in DOMAIN records, x \in Pending : plan[i.node].block = "action" => ~Within(i, x)

\* ... nor anything in or under a container that has succeeded, ...
Finished ==
    \A i \in DOMAIN records, x \in Pending :
        plan[i.node].block # "action" /\ records[i].status = "succeeded" => ~Around(i, x)

\* ... and nothing has begun that comes after what is pending.
NotBegun == \A x \in Pending, j \in Begun : ~Later(j, x)

Sequenced == RootFits /\ Nested /\ RowsClosed /\ Finished /\ NotBegun

-----------------------------------------------------------------------------
(* The tree, and paths of indexes that begin alike.                         *)

LEMMA PathOf ==
    ASSUME IsPlan(plan), NEW n \in DOMAIN plan
    PROVE  /\ n \in Path[n] /\ Path[n] \subseteq DOMAIN plan /\ n \in Nat
           /\ n = 1 => Path[n] = {1}
           /\ n # 1 => /\ plan[n].parent \in DOMAIN plan /\ plan[n].parent < n
                       /\ Path[n] = {n} \cup Path[plan[n].parent]
<1>1. Len(plan) \in Nat /\ DOMAIN plan = 1..Len(plan) /\ plan[1].parent = 0
  BY DEF IsPlan
<1>2. n \in 0..Len(plan) /\ n # 0 /\ n \in Nat /\ 0 \in 0..Len(plan) /\ (n # 1 => n > 1)
  BY <1>1
<1>3. Path[n] = {n} \cup Path[plan[n].parent] /\ Path[0] = {}
  BY <1>2, PathIs
<1>4. n # 1 => plan[n].parent \in DOMAIN plan /\ plan[n].parent < n
  BY <1>2, NodeIs
<1>5. Path[n] \subseteq DOMAIN plan
  BY PathInside
<1>6. QED
  BY <1>1, <1>2, <1>3, <1>4, <1>5

\* Nothing is inside a node that comes after it.
LEMMA PathBelow ==
    ASSUME IsPlan(plan), NEW n \in DOMAIN plan, NEW a \in Path[n]
    PROVE  a \in DOMAIN plan /\ a <= n /\ a \in Nat
<1> DEFINE T == {m \in DOMAIN plan : \E b \in Path[m] : ~(b <= m)}
<1>1. DOMAIN plan \subseteq Nat
  BY PathOf
<1>2. T = {}
  <2> SUFFICES ASSUME T # {} PROVE FALSE
    OBVIOUS
  <2>1. T \subseteq Nat
    BY <1>1
  <2>2. PICK m \in T : \A k \in T : m <= k
    BY <2>1, Least
  <2>3. PICK b \in Path[m] : ~(b <= m)
    BY <2>2
  <2>4. m \in DOMAIN plan /\ b \in DOMAIN plan /\ m \in Nat /\ b \in Nat
    BY <1>1, <2>2, <2>3, PathOf
  <2>5. m # 1 /\ b # m
    BY <2>3, <2>4, PathOf
  <2> DEFINE p == plan[m].parent
  <2>6. p \in DOMAIN plan /\ p < m /\ b \in Path[p] /\ p \in Nat
    BY <1>1, <2>3, <2>4, <2>5, PathOf
  <2> HIDE DEF p
  <2>7. p \notin T
    BY <1>1, <2>2, <2>4, <2>6
  <2>8. b <= p
    BY <2>6, <2>7
  <2>9. QED
    BY <2>3, <2>4, <2>6, <2>8
<1>3. QED
  BY <1>1, <1>2, PathOf

LEMMA PathThrough ==
    ASSUME IsPlan(plan), NEW n \in DOMAIN plan, NEW b \in Path[n]
    PROVE  Path[b] \subseteq Path[n]
<1> DEFINE T == {m \in DOMAIN plan : \E c \in Path[m] : ~(Path[c] \subseteq Path[m])}
<1>1. DOMAIN plan \subseteq Nat
  BY PathOf
<1>2. T = {}
  <2> SUFFICES ASSUME T # {} PROVE FALSE
    OBVIOUS
  <2>1. T \subseteq Nat
    BY <1>1
  <2>2. PICK m \in T : \A k \in T : m <= k
    BY <2>1, Least
  <2>3. PICK c \in Path[m] : ~(Path[c] \subseteq Path[m])
    BY <2>2
  <2>4. m \in DOMAIN plan /\ m \in Nat
    BY <1>1, <2>2
  <2>5. c # m
    BY <2>3
  <2>6. m # 1
    BY <2>3, <2>4, <2>5, PathOf
  <2> DEFINE p == plan[m].parent
  <2>7. p \in DOMAIN plan /\ p < m /\ c \in Path[p] /\ Path[p] \subseteq Path[m] /\ p \in Nat
    BY <1>1, <2>3, <2>4, <2>5, <2>6, PathOf
  <2> HIDE DEF p
  <2>8. p \notin T
    BY <1>1, <2>2, <2>4, <2>7
  <2>9. Path[c] \subseteq Path[p]
    BY <2>7, <2>8
  <2>10. QED
    BY <2>3, <2>7, <2>9
<1>3. QED
  BY <1>2

\* A child is around nothing its parent is in, and what is around it is itself or around
\* its parent.
LEMMA ChildPath ==
    ASSUME IsPlan(plan), NEW c \in DOMAIN plan, c # 1, NEW n, n = plan[c].parent
    PROVE  /\ n \in DOMAIN plan /\ Path[c] = {c} \cup Path[n] /\ c \notin Path[n] /\ n \in Path[c]
           /\ \A m \in DOMAIN plan : c \in Path[m] => n \in Path[m] /\ n # m
<1>1. /\ n \in DOMAIN plan /\ n < c /\ Path[c] = {c} \cup Path[n] /\ n \in Nat /\ c \in Nat
      /\ n \in Path[n]
  BY PathOf
<1>2. c \notin Path[n]
  BY <1>1, PathBelow
<1>3. ASSUME NEW m \in DOMAIN plan, c \in Path[m] PROVE n \in Path[m] /\ n # m
  BY <1>1, <1>2, <1>3, PathThrough
<1>4. QED
  BY <1>1, <1>2, <1>3

\* Siblings.
LEMMA SiblingIs ==
    ASSUME IsPlan(plan), NEW a \in DOMAIN plan, a # 1, NEW m \in LaterSiblings(a)
    PROVE  m \in DOMAIN plan /\ m # 1 /\ plan[m].parent = plan[a].parent /\ m # a
<1> DEFINE p == plan[a].parent
           all == plan[p].children
<1>1. p \in DOMAIN plan
  BY PathOf
<1>2. {all[k] : k \in DOMAIN all} = {c \in DOMAIN plan : plan[c].parent = p}
  BY <1>1 DEF IsPlan
<1>3. \A j, k \in DOMAIN all : all[j] = all[k] => j = k
  BY <1>1 DEF IsPlan
<1>4. all \in Seq(Nat)
  BY <1>1, NodeIs DEF Node
<1>5. Position(a) \in DOMAIN all /\ all[Position(a)] = a
  <2>1. \E k \in DOMAIN all : all[k] = a
    BY <1>2
  <2>2. QED
    BY <2>1 DEF Position
<1>6. PICK j \in DOMAIN all : m = all[j] /\ j > Position(a)
  BY DEF LaterSiblings
<1>7. DOMAIN all \subseteq Nat
  BY <1>4
<1>8. m # a
  BY <1>3, <1>5, <1>6, <1>7
<1>9. m \in DOMAIN plan /\ m # 1
  BY <1>1, <1>6, ChildIs
<1>10. QED
  BY <1>1, <1>6, <1>8, <1>9, ChildIs

\* A later sibling of what n is in: not n, not n's parent, not a child of n.
LEMMA FollowsIs ==
    ASSUME IsPlan(plan), NEW n \in DOMAIN plan, NEW m, Follows(m, n)
    PROVE  /\ m \in DOMAIN plan /\ m # 1 /\ m \notin Path[n]
           /\ plan[m].parent \in Path[n] \ {n}
           /\ ~plan[plan[m].parent].parallel /\ m \in Successors(n)
           /\ m \in LaterSiblings(n) \/ (n # 1 /\ Follows(m, plan[n].parent))
<1>1. PICK a \in Path[n] \ {1} : m \in LaterSiblings(a) /\ ~plan[plan[a].parent].parallel
  BY DEF Follows
<1>2. a \in DOMAIN plan
  BY <1>1, PathOf
<1>3. m \in DOMAIN plan /\ m # 1 /\ plan[m].parent = plan[a].parent /\ m # a
  BY <1>1, <1>2, SiblingIs
<1> DEFINE p == plan[a].parent
<1>4. p \in DOMAIN plan /\ Path[a] = {a} \cup Path[p] /\ m \notin Path[p] /\ p \in Path[n] /\ p # n
  BY <1>1, <1>2, <1>3, ChildPath
<1>5. m \notin Path[n]
  <2> SUFFICES ASSUME m \in Path[n] PROVE FALSE
    OBVIOUS
  <2> DEFINE T == {k \in DOMAIN plan : m \in Path[k] /\ a \in Path[k]}
  <2>1. n \in T /\ T \subseteq Nat
    BY <1>1, PathOf
  <2>2. PICK k \in T : \A l \in T : k <= l
    BY <2>1, Least
  <2>3. k # m /\ k # a
    <3>1. a \notin Path[m]
      BY <1>2, <1>3, ChildPath
    <3>2. m \notin Path[a]
      BY <1>3, <1>4
    <3>3. QED
      BY <2>2, <3>1, <3>2
  <2>4. k \in DOMAIN plan /\ k # 1
    BY <1>3, <2>2, PathOf
  <2>5. plan[k].parent \in T /\ plan[k].parent < k /\ k \in Nat /\ plan[k].parent \in Nat
    BY <2>2, <2>3, <2>4, PathOf
  <2>6. QED
    BY <2>2, <2>5
<1>6. m \in Successors(n)
  BY <1>1 DEF Successors
<1>7. m \in LaterSiblings(n) \/ (n # 1 /\ Follows(m, plan[n].parent))
  <2>1. CASE a = n
    BY <1>1, <2>1
  <2>2. CASE a # n
    <3>1. n # 1 /\ a \in Path[plan[n].parent]
      BY <1>1, <2>2, PathOf
    <3>2. QED
      BY <1>1, <3>1 DEF Follows
  <2>3. QED
    BY <2>1, <2>2
<1>8. QED
  BY <1>1, <1>3, <1>4, <1>5, <1>6, <1>7

LEMMA PrefixIs ==
    ASSUME NEW s \in Seq(Nat), NEW t \in Seq(Nat)
    PROVE  IsPrefixOf(s, t) <=> Len(s) <= Len(t) /\ \A k \in 1..Len(s) : s[k] = t[k]
<1>1. Len(s) \in Nat /\ Len(t) \in Nat
  BY LenProperties
<1>2. ASSUME Len(s) <= Len(t)
      PROVE  SubSeq(t, 1, Len(s)) = s <=> \A k \in 1..Len(s) : s[k] = t[k]
  <2> DEFINE u == SubSeq(t, 1, Len(s))
  <2>1. 1 \in Int /\ Len(s) \in Int /\ \A i \in 1..Len(s) : t[i] \in Nat
    BY <1>1, <1>2, ElementOfSeq
  <2>2. u \in Seq(Nat) /\ Len(u) = (IF 1 <= Len(s) THEN Len(s) - 1 + 1 ELSE 0)
        /\ \A i \in 1..(Len(s) - 1 + 1) : u[i] = t[1 + i - 1]
    BY <2>1, SubSeqProperties
  <2>3. Len(u) = Len(s) /\ \A i \in 1..Len(s) : u[i] = t[i]
    BY <1>1, <2>2
  <2> HIDE DEF u
  <2>4. u = s <=> \A k \in 1..Len(s) : s[k] = u[k]
    BY <2>2, <2>3, SeqEqual
  <2>5. QED
    BY <2>3, <2>4 DEF u
<1>3. QED
  BY <1>2 DEF IsPrefixOf

LEMMA PrefixFacts ==
    ASSUME NEW s \in Seq(Nat), NEW t \in Seq(Nat)
    PROVE  /\ IsPrefixOf(s, s)
           /\ \A u \in Seq(Nat) : IsPrefixOf(s, t) /\ IsPrefixOf(t, u) => IsPrefixOf(s, u)
           /\ IsPrefixOf(s, t) => Len(s) <= Len(t)
           /\ IsPrefixOf(s, t) /\ Len(t) <= Len(s) => s = t
           /\ \A u \in Seq(Nat) : IsPrefixOf(s, u) /\ IsPrefixOf(t, u) /\ Len(s) <= Len(t) => IsPrefixOf(s, t)
           /\ Len(s) \in Nat
<1>1. Len(s) \in Nat /\ Len(t) \in Nat
  BY LenProperties
<1>2. IsPrefixOf(s, s)
  BY <1>1, PrefixIs
<1>3. ASSUME NEW u \in Seq(Nat), IsPrefixOf(s, t), IsPrefixOf(t, u) PROVE IsPrefixOf(s, u)
  <2>1. /\ Len(s) <= Len(t) /\ \A k \in 1..Len(s) : s[k] = t[k]
        /\ Len(t) <= Len(u) /\ \A k \in 1..Len(t) : t[k] = u[k] /\ Len(u) \in Nat
    BY <1>3, PrefixIs, LenProperties
  <2>2. Len(s) <= Len(u) /\ \A k \in 1..Len(s) : s[k] = u[k]
    BY <1>1, <2>1
  <2>3. QED
    BY <2>2, PrefixIs
<1>4. ASSUME IsPrefixOf(s, t), Len(t) <= Len(s) PROVE s = t
  <2>1. Len(s) <= Len(t) /\ \A k \in 1..Len(s) : s[k] = t[k]
    BY <1>4, PrefixIs
  <2>2. Len(s) = Len(t)
    BY <1>1, <1>4, <2>1
  <2>3. QED
    BY <2>1, <2>2, SeqEqual
<1>5. ASSUME NEW u \in Seq(Nat), IsPrefixOf(s, u), IsPrefixOf(t, u), Len(s) <= Len(t)
      PROVE  IsPrefixOf(s, t)
  <2>1. /\ \A k \in 1..Len(s) : s[k] = u[k]
        /\ \A k \in 1..Len(t) : t[k] = u[k]
    BY <1>5, PrefixIs
  <2>2. \A k \in 1..Len(s) : s[k] = t[k]
    BY <1>1, <1>5, <2>1
  <2>3. QED
    BY <1>5, <2>2, PrefixIs
<1>6. IsPrefixOf(s, t) => Len(s) <= Len(t)
  BY PrefixIs
<1>7. QED
  BY <1>1, <1>2, <1>3, <1>4, <1>5, <1>6

LEMMA AppendFacts ==
    ASSUME NEW h \in Seq(Nat), NEW k \in Nat
    PROVE  /\ Append(h, k) \in Seq(Nat) /\ Len(Append(h, k)) = Len(h) + 1 /\ IsPrefixOf(h, Append(h, k))
           /\ \A s \in Seq(Nat) : IsPrefixOf(s, Append(h, k)) /\ Len(s) <= Len(h) => IsPrefixOf(s, h)
<1>1. /\ Append(h, k) \in Seq(Nat) /\ Len(Append(h, k)) = Len(h) + 1 /\ Len(h) \in Nat
      /\ \A i \in 1..Len(h) : Append(h, k)[i] = h[i]
  BY AppendProperties, LenProperties
<1>2. IsPrefixOf(h, Append(h, k))
  <2> DEFINE t == Append(h, k)
  <2>1. t \in Seq(Nat) /\ Len(h) <= Len(t) /\ \A i \in 1..Len(h) : h[i] = t[i]
    BY <1>1
  <2> HIDE DEF t
  <2>2. IsPrefixOf(h, t)
    BY <2>1, PrefixIs
  <2>3. QED
    BY <2>2 DEF t
<1>3. ASSUME NEW s \in Seq(Nat), IsPrefixOf(s, Append(h, k)), Len(s) <= Len(h) PROVE IsPrefixOf(s, h)
  BY <1>1, <1>2, <1>3, PrefixFacts
<1>4. QED
  BY <1>1, <1>2, <1>3

-----------------------------------------------------------------------------
(* How many indexes the path of a node has, and where an invocation is.     *)

DeepBlocks == {"loop", "action"}
DeepAround(n) == {a \in Path[n] \ {n} : plan[a].block \in DeepBlocks}
Depth(n) == Cardinality(DeepAround(n))

LEMMA DepthIs ==
    ASSUME IsPlan(plan), NEW n \in DOMAIN plan
    PROVE  /\ Depth(n) \in Nat
           /\ n = 1 => Depth(n) = 0
           /\ n # 1 => Depth(n) = (IF plan[plan[n].parent].block \in DeepBlocks
                                     THEN Depth(plan[n].parent) + 1 ELSE Depth(plan[n].parent))
           /\ \A a \in Path[n] : Depth(a) \in Nat /\ Depth(a) <= Depth(n)
           /\ \A a \in Path[n] \ {n} : plan[a].block \in DeepBlocks => Depth(a) + 1 <= Depth(n)
<1>1. \A m \in DOMAIN plan : IsFiniteSet(DeepAround(m)) /\ Depth(m) \in Nat
  <2> SUFFICES ASSUME NEW m \in DOMAIN plan PROVE IsFiniteSet(DeepAround(m)) /\ Depth(m) \in Nat
    OBVIOUS
  <2>1. DOMAIN plan = 1..Len(plan) /\ Len(plan) \in Nat /\ 1 \in Int /\ Len(plan) \in Int
    BY DEF IsPlan
  <2>2. IsFiniteSet(1..Len(plan))
    BY <2>1, FS_Interval
  <2>3. DeepAround(m) \in SUBSET (1..Len(plan))
    BY <2>1, PathOf DEF DeepAround
  <2>4. IsFiniteSet(DeepAround(m))
    BY <2>2, <2>3, FS_Subset
  <2>5. QED
    BY <2>4, FS_CardinalityType DEF Depth
<1>2. n = 1 => Depth(n) = 0
  <2>1. n = 1 => DeepAround(n) = {}
    BY PathOf DEF DeepAround
  <2>2. QED
    BY <2>1, FS_EmptySet DEF Depth
<1>3. ASSUME n # 1
      PROVE  Depth(n) = (IF plan[plan[n].parent].block \in DeepBlocks
                           THEN Depth(plan[n].parent) + 1 ELSE Depth(plan[n].parent))
  <2> DEFINE p == plan[n].parent
  <2>1. p \in DOMAIN plan /\ Path[n] = {n} \cup Path[p] /\ n \notin Path[p] /\ p \in Path[p]
    BY <1>3, ChildPath, PathOf
  <2>2. p \notin DeepAround(p)
    BY DEF DeepAround
  <2>3. DeepAround(n) = (IF plan[p].block \in DeepBlocks THEN DeepAround(p) \cup {p} ELSE DeepAround(p))
    BY <2>1 DEF DeepAround
  <2> HIDE DEF p
  <2>4. Cardinality(DeepAround(p) \cup {p}) = Cardinality(DeepAround(p)) + 1
    BY <1>1, <2>1, <2>2, FS_AddElement
  <2>5. Depth(n) = (IF plan[p].block \in DeepBlocks THEN Depth(p) + 1 ELSE Depth(p))
    BY <2>3, <2>4 DEF Depth
  <2>6. QED
    BY <2>5 DEF p
<1>4. ASSUME NEW a \in Path[n], a # n
      PROVE  /\ Depth(a) \in Nat /\ Depth(a) <= Depth(n)
             /\ plan[a].block \in DeepBlocks => Depth(a) + 1 <= Depth(n)
  <2>1. a \in DOMAIN plan /\ Path[a] \subseteq Path[n] /\ a < n /\ n \in Nat
    BY <1>4, PathOf, PathBelow, PathThrough
  <2>2. n \notin Path[a]
    BY <2>1, PathBelow
  <2>3. DeepAround(a) \in SUBSET DeepAround(n)
    BY <2>1, <2>2 DEF DeepAround
  <2>4. Depth(a) <= Depth(n)
    BY <1>1, <2>3, FS_Subset DEF Depth
  <2>5. ASSUME plan[a].block \in DeepBlocks PROVE Depth(a) + 1 <= Depth(n)
    <3>1. DeepAround(a) \cup {a} \in SUBSET DeepAround(n) /\ a \notin DeepAround(a)
      BY <1>4, <2>3, <2>5 DEF DeepAround
    <3>2. Cardinality(DeepAround(a) \cup {a}) = Cardinality(DeepAround(a)) + 1
      BY <1>1, <2>1, <3>1, FS_AddElement
    <3>3. Cardinality(DeepAround(a) \cup {a}) <= Cardinality(DeepAround(n))
      BY <1>1, <3>1, FS_Subset
    <3>4. QED
      BY <3>2, <3>3 DEF Depth
  <2>6. QED
    BY <1>1, <2>1, <2>4, <2>5
<1>5. Depth(n) \in Nat /\ Depth(n) <= Depth(n)
  BY <1>1
<1>6. QED
  BY <1>2, <1>3, <1>4, <1>5

\* The instance of a that something at iteration it is in has begun.
Entry(i) == IF plan[i.node].block = "action" THEN Append(i.iteration, i.attempt) ELSE i.iteration
Origin(a, it) ==
    \E i \in DOMAIN records \cup Rows : i.node = a /\ IsPrefixOf(Entry(i), it)
Rooted(n) ==
    \A j \in Due \cup Begun : j.node = n =>
        /\ Len(j.iteration) = Depth(n)
        /\ \A a \in Path[n] \ {n} : Origin(a, j.iteration)

LEMMA KnownTyped ==
    ASSUME TypeOK
    PROVE  /\ Due \cup Begun \subseteq InvocationIds /\ DOMAIN records \cup Rows \subseteq Begun
           /\ DOMAIN records \cup Rows \subseteq InvocationIds /\ IsPlan(plan) /\ MaxItems \in Nat
           /\ \A i \in InvocationIds : i.node \in DOMAIN plan /\ i.iteration \in Seq(Nat) /\ i.attempt \in Nat
<1>1. AllSteps \subseteq StepSet /\ Begun \subseteq InvocationIds /\ MaxItems \in Nat /\ IsPlan(plan)
  BY StepsTyped, BegunTyped, PlanIs
<1>2. Due \subseteq InvocationIds
  BY <1>1, StepIs DEF Due, EnterSteps
<1>3. DOMAIN records \cup Rows \subseteq Begun
  BY DEF Begun, Active
<1>4. \A i \in InvocationIds : i.node \in DOMAIN plan /\ i.iteration \in Seq(Nat) /\ i.attempt \in Nat
  BY DEF InvocationIds
<1>5. QED
  BY <1>1, <1>2, <1>3, <1>4

LEMMA RootedAll ==
    ASSUME TypeOK, AllCame, RootFits
    PROVE  \A n \in DOMAIN plan : Rooted(n)
<1> DEFINE T == {n \in DOMAIN plan : ~Rooted(n)}
<1> SUFFICES ASSUME T # {} PROVE FALSE
  OBVIOUS
<1>1. /\ Due \cup Begun \subseteq InvocationIds /\ DOMAIN records \cup Rows \subseteq Begun
      /\ IsPlan(plan)
      /\ \A i \in InvocationIds : i.node \in DOMAIN plan /\ i.iteration \in Seq(Nat) /\ i.attempt \in Nat
  BY KnownTyped
<1>2. T \subseteq Nat
  BY <1>1, PathOf
<1>3. PICK n \in T : \A k \in T : n <= k
  BY <1>2, Least
<1>4. n \in DOMAIN plan /\ ~Rooted(n) /\ n \in Nat
  BY <1>2, <1>3
<1>5. PICK j \in Due \cup Begun :
         /\ j.node = n
         /\ ~(/\ Len(j.iteration) = Depth(n)
              /\ \A a \in Path[n] \ {n} : Origin(a, j.iteration))
  BY <1>4 DEF Rooted
<1>6. j.iteration \in Seq(Nat) /\ Came(n, j.iteration)
  BY <1>1, <1>5 DEF AllCame
<1>7. CASE n = 1
  <2>1. Depth(n) = 0 /\ Path[n] \ {n} = {} /\ Len(<<>>) = 0
    BY <1>1, <1>4, <1>7, DepthIs, PathOf
  <2>2. j.iteration = <<>>
    BY <1>5, <1>7 DEF RootFits
  <2>3. QED
    BY <1>5, <2>1, <2>2
<1>8. CASE n # 1
  <2> DEFINE p == plan[n].parent
  <2>1. /\ p \in DOMAIN plan /\ Path[n] = {n} \cup Path[p] /\ p < n /\ p \in Nat
        /\ Depth(n) = (IF plan[p].block \in DeepBlocks THEN Depth(p) + 1 ELSE Depth(p))
        /\ Depth(p) \in Nat
    BY <1>1, <1>2, <1>4, <1>8, PathOf, DepthIs
  <2>2. plan[p].block \in Blocks
    BY <1>1, <2>1, NodeIs DEF Node
  <2>3. PICK i \in DOMAIN records \cup Rows :
           /\ i.node = p /\ IsPrefixOf(Entry(i), j.iteration)
           /\ Len(j.iteration) = (IF plan[p].block \in DeepBlocks THEN Len(i.iteration) + 1 ELSE Len(i.iteration))
           /\ IsPrefixOf(i.iteration, j.iteration)
    <3>1. CASE plan[p].block \in {"unit", "if", "else"}
      <4>1. First(p, j.iteration) \in DOMAIN records
        BY <1>6, <1>8, <3>1 DEF Came
      <4>2. First(p, j.iteration).node = p /\ Entry(First(p, j.iteration)) = j.iteration
            /\ First(p, j.iteration).iteration = j.iteration
        BY <3>1 DEF First, Id, Entry
      <4>3. QED
        BY <1>6, <3>1, <4>1, <4>2, PrefixFacts DEF DeepBlocks
    <3>2. CASE plan[p].block = "loop"
      <4>1. PICK h \in Seq(Nat), k \in Nat : j.iteration = Append(h, k) /\ First(p, h) \in DOMAIN records
        BY <1>6, <1>8, <3>2 DEF Came
      <4>2. First(p, h).node = p /\ Entry(First(p, h)) = h /\ First(p, h).iteration = h
        BY <3>2 DEF First, Id, Entry
      <4>3. IsPrefixOf(h, j.iteration) /\ Len(j.iteration) = Len(h) + 1
        BY <4>1, AppendFacts
      <4>4. QED
        BY <3>2, <4>1, <4>2, <4>3 DEF DeepBlocks
    <3>3. CASE plan[p].block = "action"
      <4>1. PICK h \in Seq(Nat), k \in Nat : j.iteration = Append(h, k) /\ Id(p, h, k) \in DOMAIN records \cup Rows
        BY <1>6, <1>8, <3>3 DEF Came
      <4>2. Id(p, h, k).node = p /\ Entry(Id(p, h, k)) = Append(h, k) /\ Id(p, h, k).iteration = h
        BY <3>3 DEF Id, Entry
      <4>3. IsPrefixOf(h, j.iteration) /\ Len(j.iteration) = Len(h) + 1 /\ IsPrefixOf(Append(h, k), j.iteration)
        BY <1>6, <4>1, AppendFacts, PrefixFacts
      <4>4. QED
        BY <3>3, <4>1, <4>2, <4>3 DEF DeepBlocks
    <3>4. QED
      BY <2>2, <3>1, <3>2, <3>3 DEF Blocks
  <2> HIDE DEF p
  <2>4. p \notin T
    BY <1>2, <1>3, <2>1
  <2>5. /\ Len(i.iteration) = Depth(p) /\ i.iteration \in Seq(Nat)
        /\ \A a \in Path[p] \ {p} : Origin(a, i.iteration)
    BY <1>1, <2>1, <2>3, <2>4 DEF Rooted
  <2>6. ASSUME NEW a \in Path[n] \ {n} PROVE Origin(a, j.iteration)
    <3>1. CASE a = p
      BY <2>3, <3>1 DEF Origin
    <3>2. CASE a # p
      <4>1. PICK b \in DOMAIN records \cup Rows : b.node = a /\ IsPrefixOf(Entry(b), i.iteration)
        BY <2>1, <2>5, <3>2 DEF Origin
      <4>2. Entry(b) \in Seq(Nat)
        BY <1>1, AppendFacts DEF Entry
      <4>3. IsPrefixOf(Entry(b), j.iteration)
        BY <1>6, <2>3, <2>5, <4>1, <4>2, PrefixFacts
      <4>4. QED
        BY <4>1, <4>3 DEF Origin
    <3>3. QED
      BY <3>1, <3>2
  <2>7. Len(j.iteration) = Depth(n)
    BY <2>1, <2>3, <2>5
  <2>8. QED
    BY <1>5, <2>6, <2>7
<1>9. QED
  BY <1>7, <1>8

\* What is around something begun is deep enough for it; and nothing begins inside an
\* attempt that has neither begun nor been recorded.
LEMMA KnownDeep ==
    ASSUME TypeOK, AllCame, RootFits, NEW j \in Due \cup Begun
    PROVE  /\ Len(j.iteration) = Depth(j.node) /\ j.node \in DOMAIN plan /\ j.iteration \in Seq(Nat)
           /\ \A i \in InvocationIds :
                 plan[i.node].block = "action" /\ Len(i.iteration) = Depth(i.node) /\ Within(i, j) =>
                    i \in DOMAIN records \cup Rows
<1>1. /\ Due \cup Begun \subseteq InvocationIds /\ DOMAIN records \cup Rows \subseteq Begun
      /\ IsPlan(plan) /\ DOMAIN records \cup Rows \subseteq InvocationIds
      /\ \A i \in InvocationIds : i.node \in DOMAIN plan /\ i.iteration \in Seq(Nat) /\ i.attempt \in Nat
  BY KnownTyped
<1>2. j.node \in DOMAIN plan /\ j.iteration \in Seq(Nat)
  BY <1>1
<1>3. Rooted(j.node)
  BY <1>2, RootedAll
<1>4. ASSUME NEW i \in InvocationIds, plan[i.node].block = "action", Len(i.iteration) = Depth(i.node),
             Within(i, j)
      PROVE  i \in DOMAIN records \cup Rows
  <2>1. i.node \in Path[j.node] \ {j.node} /\ IsPrefixOf(Append(i.iteration, i.attempt), j.iteration)
    BY <1>4 DEF Within
  <2>2. PICK b \in DOMAIN records \cup Rows : b.node = i.node /\ IsPrefixOf(Entry(b), j.iteration)
    BY <1>3, <2>1 DEF Rooted, Origin
  <2>3. b \in InvocationIds /\ b \in Begun /\ b.node \in DOMAIN plan
    BY <1>1, <2>2
  <2>4. Rooted(b.node)
    BY <2>3, RootedAll
  <2>5. Len(b.iteration) = Depth(i.node) /\ Entry(b) = Append(b.iteration, b.attempt)
    BY <1>4, <2>2, <2>3, <2>4 DEF Rooted, Entry
  <2>6. /\ i.iteration \in Seq(Nat) /\ i.attempt \in Nat /\ b.iteration \in Seq(Nat) /\ b.attempt \in Nat
    BY <1>1, <2>3
  <2> DEFINE s == Append(i.iteration, i.attempt)
             t == Append(b.iteration, b.attempt)
  <2>7. s \in Seq(Nat) /\ t \in Seq(Nat) /\ Len(s) = Len(i.iteration) + 1 /\ Len(t) = Len(b.iteration) + 1
    BY <2>6, AppendFacts
  <2>8. IsPrefixOf(s, j.iteration) /\ IsPrefixOf(t, j.iteration) /\ Len(s) = Len(t) /\ Len(s) \in Nat
    BY <1>4, <2>1, <2>2, <2>5, <2>7, LenProperties
  <2> HIDE DEF s, t
  <2>9. IsPrefixOf(s, t)
    BY <1>2, <2>7, <2>8, PrefixFacts
  <2>10. s = t
    BY <2>7, <2>8, <2>9, PrefixFacts
  <2>11. i.iteration = b.iteration /\ i.attempt = b.attempt
    BY <2>6, <2>10, AppendedIs DEF s, t
  <2>12. i = b
    BY <2>2, <2>3, <2>11 DEF InvocationIds
  <2>13. QED
    BY <2>2, <2>12
<1>5. QED
  BY <1>2, <1>3, <1>4 DEF Rooted

-----------------------------------------------------------------------------
(* What is pending after a step.                                            *)

LEMMA StepItemsAre ==
    ASSUME NEW q \in Seq(StepSet), NEW l
    PROVE  /\ Len(q) \in Nat
           /\ \A y \in StepItems(l, q) :
                 /\ y.level = l /\ y.height \in 1..Len(q)
                 /\ \E k \in DOMAIN q : y = StepItem(l, Len(q) + 1 - k, q[k])
<1>1. Len(q) \in Nat /\ DOMAIN q = 1..Len(q)
  BY LenProperties
<1>2. ASSUME NEW k \in DOMAIN q
      PROVE  StepItem(l, Len(q) + 1 - k, q[k]).level = l /\ StepItem(l, Len(q) + 1 - k, q[k]).height \in 1..Len(q)
  BY <1>1 DEF StepItem
<1>3. QED
  BY <1>1, <1>2 DEF StepItems

\* The steps taken from a queue and put on it, by place.
LEMMA StepItemsTaken ==
    ASSUME NEW q \in Seq(StepSet), q # <<>>, NEW new \in Seq(StepSet), NEW l
    PROVE  /\ StepItems(l, q) = {StepItem(l, Len(q), Head(q))} \cup StepItems(l, Tail(q))
           /\ StepItems(l, new \o Tail(q)) =
                 {StepItem(l, Len(new) + Len(q) - k, new[k]) : k \in DOMAIN new} \cup StepItems(l, Tail(q))
           /\ Len(Tail(q)) = Len(q) - 1 /\ Len(q) \in Nat \ {0} /\ Len(new) \in Nat /\ Tail(q) \in Seq(StepSet)
           /\ Len(new \o Tail(q)) = Len(new) + Len(q) - 1
<1> DEFINE r == Tail(q)
<1>1. /\ Len(q) \in Nat \ {0} /\ DOMAIN q = 1..Len(q) /\ r \in Seq(StepSet) /\ Len(r) = Len(q) - 1
      /\ \A k \in 1..Len(r) : r[k] = q[k + 1]
      /\ Head(q) = q[1] /\ DOMAIN r = 1..Len(r) /\ Len(new) \in Nat /\ DOMAIN new = 1..Len(new)
  BY EmptySeq, HeadTailProperties, LenProperties
<1> HIDE DEF r
<1>2. /\ Len(new \o r) = Len(new) + Len(r) /\ DOMAIN (new \o r) = 1..(Len(new) + Len(r))
      /\ \A i \in 1..(Len(new) + Len(r)) : (new \o r)[i] = IF i <= Len(new) THEN new[i] ELSE r[i - Len(new)]
  <2>1. /\ new \o r \in Seq(StepSet) /\ Len(new \o r) = Len(new) + Len(r)
        /\ \A i \in 1..(Len(new) + Len(r)) : (new \o r)[i] = IF i <= Len(new) THEN new[i] ELSE r[i - Len(new)]
    BY <1>1, ConcatProperties
  <2>2. DOMAIN (new \o r) = 1..Len(new \o r)
    BY <2>1, LenProperties
  <2>3. QED
    BY <2>1, <2>2
<1> DEFINE A(k) == StepItem(l, Len(q) + 1 - k, q[k])
           B(k) == StepItem(l, Len(r) + 1 - k, r[k])
           s == new \o r
           C(k) == StepItem(l, Len(s) + 1 - k, s[k])
           D(k) == StepItem(l, Len(new) + Len(q) - k, new[k])
<1>3. StepItems(l, q) = {A(k) : k \in DOMAIN q} /\ StepItems(l, r) = {B(k) : k \in DOMAIN r}
      /\ StepItems(l, s) = {C(k) : k \in DOMAIN s}
  BY DEF StepItems
<1>4. A(1) = StepItem(l, Len(q), Head(q))
  <2>1. Len(q) + 1 - 1 = Len(q)
    BY <1>1
  <2>2. QED
    BY <1>1, <2>1
<1>5. ASSUME NEW k \in DOMAIN r PROVE k + 1 \in DOMAIN q /\ A(k + 1) = B(k)
  <2>1. Len(q) + 1 - (k + 1) = Len(r) + 1 - k /\ k + 1 \in DOMAIN q /\ r[k] = q[k + 1]
    BY <1>1, <1>5
  <2>2. QED
    BY <2>1
<1>6. ASSUME NEW k \in DOMAIN q, k # 1 PROVE k - 1 \in DOMAIN r /\ A(k) = B(k - 1)
  <2>1. k - 1 \in DOMAIN r /\ (k - 1) + 1 = k
    BY <1>1, <1>6
  <2>2. QED
    BY <1>5, <2>1
<1>7. ASSUME NEW k \in DOMAIN new PROVE k \in DOMAIN s /\ C(k) = D(k)
  <2>1. Len(s) + 1 - k = Len(new) + Len(q) - k /\ s[k] = new[k] /\ k \in DOMAIN s
    BY <1>1, <1>2
  <2>2. QED
    BY <2>1
<1>8. ASSUME NEW k \in DOMAIN r PROVE k + Len(new) \in DOMAIN s /\ C(k + Len(new)) = B(k)
  <2>1. /\ k + Len(new) \in DOMAIN s /\ ~(k + Len(new) <= Len(new)) /\ (k + Len(new)) - Len(new) = k
        /\ Len(s) + 1 - (k + Len(new)) = Len(r) + 1 - k
    BY <1>1, <1>2
  <2>2. s[k + Len(new)] = r[k]
    BY <1>2, <2>1
  <2>3. QED
    BY <2>1, <2>2
<1>9. ASSUME NEW k \in DOMAIN s, k \notin DOMAIN new PROVE k - Len(new) \in DOMAIN r /\ C(k) = B(k - Len(new))
  <2>1. k - Len(new) \in DOMAIN r /\ (k - Len(new)) + Len(new) = k
    BY <1>1, <1>2, <1>9
  <2>2. QED
    BY <1>8, <2>1
<1>10. 1 \in DOMAIN q
  BY <1>1
<1>11. Len(s) = Len(new) + Len(q) - 1
  BY <1>1, <1>2
<1> HIDE DEF A, B, C, D, s
<1>12. StepItems(l, q) = {A(1)} \cup StepItems(l, r)
  BY <1>3, <1>5, <1>6, <1>10
<1>13. StepItems(l, s) = {D(k) : k \in DOMAIN new} \cup StepItems(l, r)
  BY <1>3, <1>7, <1>8, <1>9
<1>14. QED
  BY <1>1, <1>4, <1>11, <1>12, <1>13 DEF r, s, D

LEMMA AsideIs ==
    ASSUME NEW cs \in Seq(CallSet)
    PROVE  /\ Len(cs) \in Nat
           /\ \A y \in Aside(cs) : y.level \in Nat /\ y.level < Len(cs)
           /\ cs # <<>> => /\ Head(cs) \in CallSet /\ Tail(cs) \in Seq(CallSet) /\ Len(Tail(cs)) = Len(cs) - 1
                           /\ Aside(cs) = CallItems(Len(cs) - 1, Head(cs)) \cup Aside(Tail(cs))
<1>1. Len(cs) \in Nat /\ DOMAIN cs = 1..Len(cs) /\ \A k \in DOMAIN cs : cs[k] \in CallSet
  BY LenProperties, ElementOfSeq
<1>2. ASSUME NEW y \in Aside(cs) PROVE y.level \in Nat /\ y.level < Len(cs)
  <2>1. PICK k \in DOMAIN cs : y \in CallItems(Len(cs) - k, cs[k])
    BY DEF Aside
  <2>2. Len(cs) - k \in Nat /\ Len(cs) - k < Len(cs) /\ cs[k].outer \in Seq(StepSet)
    BY <1>1 DEF CallSet
  <2>3. y.level = Len(cs) - k
    <3>1. RowItem(Len(cs) - k, Len(cs[k].outer) + 1, cs[k].row).level = Len(cs) - k
      BY DEF RowItem
    <3>2. QED
      BY <2>1, <2>2, <3>1, StepItemsAre DEF CallItems
  <2>4. QED
    BY <2>2, <2>3
<1>3. ASSUME cs # <<>>
      PROVE  /\ Head(cs) \in CallSet /\ Tail(cs) \in Seq(CallSet) /\ Len(Tail(cs)) = Len(cs) - 1
             /\ Aside(cs) = CallItems(Len(cs) - 1, Head(cs)) \cup Aside(Tail(cs))
  <2> DEFINE r == Tail(cs)
  <2>1. /\ Head(cs) \in CallSet /\ r \in Seq(CallSet) /\ Len(r) = Len(cs) - 1 /\ Head(cs) = cs[1]
        /\ DOMAIN r = 1..Len(r) /\ \A k \in 1..Len(r) : r[k] = cs[k + 1]
        /\ Len(cs) # 0
    BY <1>3, EmptySeq, HeadTailProperties, LenProperties
  <2> HIDE DEF r
  <2> DEFINE A(k) == CallItems(Len(cs) - k, cs[k])
             B(k) == CallItems(Len(r) - k, r[k])
  <2>2. Aside(cs) = UNION {A(k) : k \in DOMAIN cs} /\ Aside(r) = UNION {B(k) : k \in DOMAIN r}
    BY DEF Aside
  <2>3. 1 \in DOMAIN cs /\ A(1) = CallItems(Len(cs) - 1, Head(cs))
    BY <1>1, <2>1
  <2>4. ASSUME NEW k \in DOMAIN r PROVE k + 1 \in DOMAIN cs /\ A(k + 1) = B(k)
    <3>1. k + 1 \in DOMAIN cs /\ Len(cs) - (k + 1) = Len(r) - k /\ r[k] = cs[k + 1]
      BY <1>1, <2>1, <2>4
    <3>2. QED
      BY <3>1
  <2>5. ASSUME NEW k \in DOMAIN cs, k # 1 PROVE k - 1 \in DOMAIN r /\ A(k) = B(k - 1)
    <3>1. k - 1 \in DOMAIN r /\ (k - 1) + 1 = k
      BY <1>1, <2>1, <2>5
    <3>2. QED
      BY <2>4, <3>1
  <2> HIDE DEF A, B
  <2>6. Aside(cs) = A(1) \cup Aside(r)
    BY <2>2, <2>3, <2>4, <2>5
  <2>7. QED
    BY <2>1, <2>3, <2>6 DEF r
<1>4. QED
  BY <1>1, <1>2, <1>3

\* A turn: t, the highest of what is pending, makes room for New at its place; what New has
\* goes on where t was, or opens what t contains.
Replaced(t, New) ==
    /\ t \in Pending /\ \A y \in Pending : y = t \/ Higher(t, y)
    /\ \A y \in Pending' : y \in New \/ (y \in Pending /\ Higher(t, y))
    /\ \A n \in New, y \in Pending : Higher(t, y) => ~Higher(y, n)
Continues(n, t) == n.node = t.node /\ n.iteration = t.iteration /\ (t.op = "iterate" => n.op = "iterate")
Opens(n, t) ==
    /\ n.op = "enter" /\ n.node \in DOMAIN plan /\ n.node # 1 /\ plan[n.node].parent = t.node
    /\ IF plan[t.node].block \in DeepBlocks THEN \E k \in Nat : n.iteration = Append(t.iteration, k)
                                            ELSE n.iteration = t.iteration
Turn(t, New) ==
    /\ Replaced(t, New) /\ plan' = plan
    /\ \A n \in New : Continues(n, t) \/ Opens(n, t)
    /\ \A m, n \in New : Higher(m, n) => InOrderOf(m, n)
\* Nothing inside what is opened has begun in that instance.
Fresh(t, New) ==
    \A n \in New : Opens(n, t) =>
        \A j \in Begun : ~(plan[j.node].parent = t.node /\ j.iteration = n.iteration)

LEMMA OrderSame ==
    ASSUME plan' = plan
    PROVE  /\ \A i, j : Around(i, j)' = Around(i, j) /\ Within(i, j)' = Within(i, j) /\ Later(i, j)' = Later(i, j)
           /\ \A x, y : InOrderOf(x, y)' = InOrderOf(x, y)
<1>1. Path' = Path
  BY DEF Path
<1>2. \A n : LaterSiblings(n)' = LaterSiblings(n)
  BY DEF LaterSiblings, Position
<1>3. \A m, n : Follows(m, n)' = Follows(m, n)
  BY <1>1, <1>2 DEF Follows
<1>4. \A i, j : Around(i, j)' = Around(i, j)
  BY <1>1 DEF Around
<1>5. \A i, j : Within(i, j)' = Within(i, j)
  BY <1>1 DEF Within
<1>6. \A i, j : Later(i, j)' = Later(i, j)
  BY <1>3 DEF Later
<1>7. \A x, y : InOrderOf(x, y)' = InOrderOf(x, y)
  BY <1>4, <1>5, <1>6 DEF InOrderOf
<1>8. QED
  BY <1>4, <1>5, <1>6, <1>7

\* What is pending is a step still to be taken or an attempt under way, and has its place.
LEMMA PendingIs ==
    ASSUME TypeOK, Placed, NEW x \in Pending
    PROVE  /\ x.level \in Nat /\ x.height \in Nat /\ x.node \in DOMAIN plan /\ x.iteration \in Seq(Nat)
           /\ x.op \in {"enter", "leave", "iterate", "row"}
           /\ x.op = "row" => /\ Id(x.node, x.iteration, x.attempt) \in Active
                              /\ plan[x.node].block = "action" /\ x.attempt \in Nat
           /\ x.op = "enter" => First(x.node, x.iteration) \in Due
           /\ x.op \in {"leave", "iterate"} => First(x.node, x.iteration) \in DOMAIN records
<1>1. /\ AllSteps \subseteq StepSet /\ Rows \subseteq InvocationIds /\ queue \in Seq(StepSet)
      /\ calls \in Seq(CallSet) /\ DOMAIN calls = 1..Len(calls) /\ Len(calls) \in Nat
      /\ unit \in InvocationIds /\ MaxItems \in Nat
  BY StepsTyped, PlanIs, BegunTyped
<1> DEFINE Good(y) ==
             /\ y.level \in Nat /\ y.height \in Nat /\ y.node \in DOMAIN plan /\ y.iteration \in Seq(Nat)
             /\ y.op \in {"enter", "leave", "iterate", "row"}
             /\ y.op = "row" => /\ Id(y.node, y.iteration, y.attempt) \in Active
                                /\ plan[y.node].block = "action" /\ y.attempt \in Nat
             /\ y.op = "enter" => First(y.node, y.iteration) \in Due
             /\ y.op \in {"leave", "iterate"} => First(y.node, y.iteration) \in DOMAIN records
<1>2. ASSUME NEW q \in Seq(StepSet), StepsOf(q) \subseteq AllSteps, NEW l \in Nat, NEW y \in StepItems(l, q)
      PROVE  Good(y)
  <2>1. PICK k \in DOMAIN q : y = StepItem(l, Len(q) + 1 - k, q[k])
    BY <1>2 DEF StepItems
  <2>2. y.level = l /\ y.height \in 1..Len(q) /\ Len(q) \in Nat
    BY <1>2, StepItemsAre
  <2> DEFINE s == q[k]
  <2>3. s \in AllSteps /\ s \in StepSet
    BY <1>1, <1>2 DEF StepsOf
  <2> HIDE DEF s
  <2>4. y.node = s.node /\ y.iteration = s.iteration /\ y.op = s.op
    BY <2>1 DEF s, StepItem
  <2>5. s.op \in {"enter", "leave", "iterate"} /\ s.node \in DOMAIN plan /\ s.iteration \in Seq(Nat)
    BY <1>1, <2>3, StepIs
  <2>6. s.op = "enter" => First(s.node, s.iteration) \in Due
    BY <2>3 DEF Due, EnterSteps
  <2>7. s.op # "enter" => First(s.node, s.iteration) \in DOMAIN records
    BY <2>3 DEF Placed, StepsFit
  <2>8. y.level \in Nat /\ y.height \in Nat
    BY <1>2, <2>2
  <2>9. QED
    BY <2>4, <2>5, <2>6, <2>7, <2>8
<1>3. ASSUME NEW i \in Active, i \in InvocationIds, NEW l \in Nat, NEW h \in Nat PROVE Good(RowItem(l, h, i))
  <2>1. plan[i.node].block = "action"
    BY <1>3 DEF Placed, UnitFits
  <2>2. i = Id(i.node, i.iteration, i.attempt) /\ i.node \in DOMAIN plan /\ i.iteration \in Seq(Nat) /\ i.attempt \in Nat
    BY <1>3, IdIs
  <2> DEFINE y == RowItem(l, h, i)
  <2>3. y.level = l /\ y.height = h /\ y.op = "row" /\ y.node = i.node /\ y.iteration = i.iteration
        /\ y.attempt = i.attempt
    BY DEF RowItem
  <2> HIDE DEF y
  <2>4. QED
    BY <1>3, <2>1, <2>2, <2>3 DEF y
<1>4. ASSUME x \in Aside(calls) PROVE Good(x)
  <2>1. PICK k \in DOMAIN calls : x \in CallItems(Len(calls) - k, calls[k])
    BY <1>4 DEF Aside
  <2>2. Len(calls) - k \in Nat /\ calls[k] \in CallSet
    BY <1>1, ElementOfSeq
  <2>3. calls[k].outer \in Seq(StepSet) /\ calls[k].row \in InvocationIds /\ Len(calls[k].outer) + 1 \in Nat
    BY <2>2, StepItemsAre DEF CallSet
  <2>4. StepsOf(calls[k].outer) \subseteq AllSteps
    BY DEF AllSteps
  <2>5. calls[k].row \in Active
    BY DEF Active, Rows
  <2> HIDE DEF Good
  <2>6. QED
    BY <1>2, <1>3, <2>1, <2>2, <2>3, <2>4, <2>5 DEF CallItems
<1>5. ASSUME x \in StepItems(Len(calls), queue) PROVE Good(x)
  <2>1. StepsOf(queue) \subseteq AllSteps
    BY DEF AllSteps
  <2> HIDE DEF Good
  <2>2. QED
    BY <1>1, <1>2, <1>5, <2>1
<1>6. ASSUME x \in Performed PROVE Good(x)
  <2>1. at # "step" /\ x = RowItem(Len(calls), Len(queue) + 1, unit)
    BY <1>6 DEF Performed
  <2>2. unit \in Active /\ Len(queue) + 1 \in Nat
    BY <1>1, <2>1, StepItemsAre DEF Active
  <2> HIDE DEF Good
  <2>3. QED
    BY <1>1, <1>3, <2>1, <2>2
<1>7. Good(x)
  BY <1>4, <1>5, <1>6 DEF Pending
<1>8. QED
  BY <1>7

PendingCovers ==
    /\ \A s \in AllSteps : \E x \in Pending : x.op = s.op /\ x.node = s.node /\ x.iteration = s.iteration
    /\ \A i \in Active : \E x \in Pending : x.op = "row" /\ x.node = i.node /\ x.iteration = i.iteration
                                            /\ x.attempt = i.attempt

LEMMA PendingAll == PendingCovers
<1>1. ASSUME NEW q, NEW l, NEW s \in StepsOf(q)
      PROVE  \E x \in StepItems(l, q) : x.op = s.op /\ x.node = s.node /\ x.iteration = s.iteration
  <2>1. PICK k \in DOMAIN q : s = q[k]
    BY DEF StepsOf
  <2>2. StepItem(l, Len(q) + 1 - k, q[k]) \in StepItems(l, q)
    BY DEF StepItems
  <2>3. QED
    BY <2>1, <2>2 DEF StepItem
<1>2. ASSUME NEW s \in AllSteps PROVE \E x \in Pending : x.op = s.op /\ x.node = s.node /\ x.iteration = s.iteration
  <2>1. CASE s \in StepsOf(queue)
    BY <1>1, <2>1 DEF Pending
  <2>2. CASE \E k \in DOMAIN calls : s \in StepsOf(calls[k].outer)
    <3>1. PICK k \in DOMAIN calls : s \in StepsOf(calls[k].outer)
      BY <2>2
    <3>2. StepItems(Len(calls) - k, calls[k].outer) \subseteq Pending
      BY DEF Pending, Aside, CallItems
    <3>3. QED
      BY <1>1, <3>1, <3>2
  <2>3. QED
    BY <2>1, <2>2 DEF AllSteps
<1>3. ASSUME NEW i \in Active
      PROVE  \E x \in Pending : x.op = "row" /\ x.node = i.node /\ x.iteration = i.iteration /\ x.attempt = i.attempt
  <2>1. PICK l, h : RowItem(l, h, i) \in Pending
    <3>1. CASE i \in Rows
      <4>1. PICK k \in DOMAIN calls : i = calls[k].row
        BY <3>1 DEF Rows
      <4>2. RowItem(Len(calls) - k, Len(calls[k].outer) + 1, i) \in CallItems(Len(calls) - k, calls[k])
        BY <4>1 DEF CallItems
      <4>3. QED
        BY <4>2 DEF Pending, Aside
    <3>2. CASE at # "step" /\ i = unit
      BY <3>2 DEF Pending, Performed
    <3>3. QED
      BY <3>1, <3>2 DEF Active
  <2>2. QED
    BY <2>1 DEF RowItem
<1>4. QED
  BY <1>2, <1>3 DEF PendingCovers

LEMMA PendingAllNext == PendingCovers'
BY PendingAll, PTL

\* What is pending at a level below the innermost was set aside.
LEMMA PendingPlaces ==
    ASSUME TypeOK
    PROVE  /\ \A y \in Aside(calls) : y.level \in Nat /\ y.level < Len(calls)
           /\ \A y \in StepItems(Len(calls), queue) : y.level = Len(calls) /\ y.height \in 1..Len(queue)
           /\ Len(calls) \in Nat /\ Len(queue) \in Nat
BY StepsTyped, AsideIs, StepItemsAre

-----------------------------------------------------------------------------
(* A turn, by what was pending at its place.                                *)

\* A step was taken, and others put in its place.
StepAt(new, k) == StepItem(Len(calls), Len(new) + Len(queue) - k, new[k])
StepsAt(new) == {StepAt(new, k) : k \in DOMAIN new}

LEMMA StepReplaced ==
    ASSUME TypeOK, at = "step", at' = at, queue # <<>>, calls' = calls,
           NEW new \in Seq(StepSet), queue' = new \o Tail(queue)
    PROVE  /\ Replaced(StepItem(Len(calls), Len(queue), Head(queue)), StepsAt(new))
           /\ \A j, k \in DOMAIN new : Higher(StepAt(new, j), StepAt(new, k)) => j < k
<1> DEFINE L == Len(calls)
           t == StepItem(L, Len(queue), Head(queue))
           r == Tail(queue)
<1>1. /\ queue \in Seq(StepSet) /\ calls \in Seq(CallSet) /\ L \in Nat
      /\ \A y \in Aside(calls) : y.level \in Nat /\ y.level < L
  BY StepsTyped, PendingPlaces
<1>2. /\ StepItems(L, queue) = {t} \cup StepItems(L, r)
      /\ StepItems(L, queue') = StepsAt(new) \cup StepItems(L, r)
      /\ Len(r) = Len(queue) - 1 /\ Len(queue) \in Nat \ {0} /\ Len(new) \in Nat /\ r \in Seq(StepSet)
  BY <1>1, StepItemsTaken DEF StepsAt, StepAt
<1>3. \A y \in StepItems(L, r) : y.level = L /\ y.height \in 1..Len(r)
  BY <1>2, StepItemsAre
<1>4. t.level = L /\ t.height = Len(queue)
  BY DEF StepItem
<1>5. \A k \in DOMAIN new : StepAt(new, k).level = L /\ StepAt(new, k).height = Len(new) + Len(queue) - k
  BY DEF StepAt, StepItem
<1>6. DOMAIN new = 1..Len(new)
  BY LenProperties
<1> DEFINE Low == Aside(calls) \cup StepItems(L, r)
<1>7. Pending = {t} \cup Low
  BY <1>2 DEF Pending, Performed
<1>8. Pending' = StepsAt(new) \cup Low
  <2>1. Pending' = Aside(calls) \cup StepItems(L, queue')
    BY DEF Pending, Performed, Aside, CallItems, StepItems, StepItem, RowItem
  <2>2. QED
    BY <1>2, <2>1
<1> HIDE DEF t
<1>9. \A y \in Low : Higher(t, y)
  BY <1>1, <1>2, <1>3, <1>4 DEF Higher
<1>10. ASSUME NEW k \in DOMAIN new, NEW y \in Low PROVE ~Higher(y, StepAt(new, k))
  <2>1. CASE y \in Aside(calls)
    BY <1>1, <1>5, <2>1 DEF Higher
  <2>2. CASE y \in StepItems(L, r)
    <3>1. y.height \in 1..Len(r) /\ k \in 1..Len(new)
      BY <1>3, <1>6, <2>2
    <3>2. ~(y.height > Len(new) + Len(queue) - k)
      BY <1>2, <3>1
    <3>3. ~(L > L)
      BY <1>1
    <3>4. QED
      BY <1>3, <1>5, <2>2, <3>2, <3>3 DEF Higher
  <2>3. QED
    BY <2>1, <2>2
<1>11. ~Higher(t, t)
  BY <1>1, <1>2, <1>4 DEF Higher
<1>12. Replaced(t, StepsAt(new))
  BY <1>7, <1>8, <1>9, <1>10, <1>11 DEF Replaced, StepsAt
<1>13. ASSUME NEW j \in DOMAIN new, NEW k \in DOMAIN new, Higher(StepAt(new, j), StepAt(new, k)) PROVE j < k
  <2>1. j \in 1..Len(new) /\ k \in 1..Len(new)
    BY <1>6
  <2>2. Len(new) + Len(queue) - j > Len(new) + Len(queue) - k
    BY <1>1, <1>5, <1>13 DEF Higher
  <2>3. QED
    BY <1>2, <2>1, <2>2
<1>14. QED
  BY <1>12, <1>13 DEF t

\* The attempt of an ACTION has taken the place of its step.
LEMMA BegunReplaced ==
    ASSUME TypeOK, at = "step", at' = "attempt", queue # <<>>, calls' = calls, queue' = Tail(queue), unit' = Here
    PROVE  Replaced(StepItem(Len(calls), Len(queue), Head(queue)), {RowItem(Len(calls), Len(queue), Here)})
<1> DEFINE L == Len(calls)
           t == StepItem(L, Len(queue), Head(queue))
           r == Tail(queue)
           n == RowItem(L, Len(queue), Here)
<1>1. /\ queue \in Seq(StepSet) /\ calls \in Seq(CallSet) /\ L \in Nat
      /\ \A y \in Aside(calls) : y.level \in Nat /\ y.level < L
  BY StepsTyped, PendingPlaces
<1>2. /\ StepItems(L, queue) = {t} \cup StepItems(L, r)
      /\ Len(r) = Len(queue) - 1 /\ Len(queue) \in Nat \ {0} /\ r \in Seq(StepSet)
  BY <1>1, StepItemsTaken
<1>3. \A y \in StepItems(L, r) : y.level = L /\ y.height \in 1..Len(r)
  BY <1>2, StepItemsAre
<1>4. t.level = L /\ t.height = Len(queue) /\ n.level = L /\ n.height = Len(queue)
  BY DEF StepItem, RowItem
<1> DEFINE Low == Aside(calls) \cup StepItems(L, r)
<1>5. Pending = {t} \cup Low
  BY <1>2 DEF Pending, Performed
<1>6. Pending' = {n} \cup Low
  <2>1. Pending' = Aside(calls) \cup StepItems(L, r) \cup {RowItem(L, Len(r) + 1, Here)}
    BY DEF Pending, Performed, Aside, CallItems, StepItems, StepItem, RowItem
  <2>2. Len(r) + 1 = Len(queue)
    BY <1>2
  <2>3. QED
    BY <2>1, <2>2
<1> HIDE DEF t, n
<1>7. \A y \in Low : Higher(t, y) /\ ~Higher(y, n)
  BY <1>1, <1>2, <1>3, <1>4 DEF Higher
<1>8. ~Higher(t, t)
  BY <1>1, <1>2, <1>4 DEF Higher
<1>9. QED
  BY <1>5, <1>6, <1>7, <1>8 DEF Replaced, t, n

\* An attempt goes on, or is over.
LEMMA AttemptReplaced ==
    ASSUME TypeOK, at # "step", queue' = queue, calls' = calls
    PROVE  Replaced(RowItem(Len(calls), Len(queue) + 1, unit),
                    IF at' = "step" THEN {} ELSE {RowItem(Len(calls), Len(queue) + 1, unit')})
<1> DEFINE L == Len(calls)
           t == RowItem(L, Len(queue) + 1, unit)
           n == RowItem(L, Len(queue) + 1, unit')
           New == IF at' = "step" THEN {} ELSE {n}
           Low == Aside(calls) \cup StepItems(L, queue)
<1>1. /\ L \in Nat /\ Len(queue) \in Nat
      /\ \A y \in Aside(calls) : y.level \in Nat /\ y.level < L
      /\ \A y \in StepItems(L, queue) : y.level = L /\ y.height \in 1..Len(queue)
  BY PendingPlaces
<1>2. t.level = L /\ t.height = Len(queue) + 1 /\ n.level = L /\ n.height = Len(queue) + 1
  BY DEF RowItem
<1>3. Pending = {t} \cup Low
  BY DEF Pending, Performed
<1>4. Pending' = New \cup Low
  BY DEF Pending, Performed, Aside, CallItems, StepItems, StepItem, RowItem
<1> HIDE DEF t, n
<1>5. \A y \in Low : Higher(t, y) /\ ~Higher(y, n)
  BY <1>1, <1>2 DEF Higher
<1>6. ~Higher(t, t)
  BY <1>1, <1>2 DEF Higher
<1>7. QED
  BY <1>3, <1>4, <1>5, <1>6 DEF Replaced, t, n

\* The queue was set aside, its row on it, for the unit the row delegates to.
LEMMA RowReplaced ==
    ASSUME TypeOK, at # "step", at' = "step", NEW before,
           calls' = <<[row |-> unit, outer |-> queue, before |-> before]>> \o calls,
           before \subseteq InvocationIds, NEW s \in StepSet, queue' = <<s>>
    PROVE  Replaced(RowItem(Len(calls), Len(queue) + 1, unit),
                    {RowItem(Len(calls), Len(queue) + 1, unit), StepItem(Len(calls) + 1, 1, s)})
<1> DEFINE L == Len(calls)
           t == RowItem(L, Len(queue) + 1, unit)
           n == StepItem(L + 1, 1, s)
           c == [row |-> unit, outer |-> queue, before |-> before]
           Low == Aside(calls) \cup StepItems(L, queue)
<1>1. /\ L \in Nat /\ Len(queue) \in Nat
      /\ \A y \in Aside(calls) : y.level \in Nat /\ y.level < L
      /\ \A y \in StepItems(L, queue) : y.level = L /\ y.height \in 1..Len(queue)
  BY PendingPlaces
<1>2. t.level = L /\ t.height = Len(queue) + 1 /\ n.level = L + 1 /\ n.height = 1
  BY DEF RowItem, StepItem
<1>3. Pending = {t} \cup Low
  BY DEF Pending, Performed
<1>4. Pending' = {t, n} \cup Low
  <2>1. c \in CallSet /\ calls \in Seq(CallSet)
    BY StepsTyped, BegunTyped DEF CallSet
  <2> HIDE DEF c
  <2> DEFINE cs == <<c>> \o calls
  <2>2. cs \in Seq(CallSet) /\ Len(cs) = L + 1 /\ cs # <<>> /\ Head(cs) = c /\ Tail(cs) = calls
    <3>1. <<c>> \in Seq(CallSet) /\ Len(<<c>>) = 1 /\ <<c>>[1] = c
      BY <2>1
    <3>2. /\ cs \in Seq(CallSet) /\ Len(cs) = Len(<<c>>) + L
          /\ \A i \in 1..(Len(<<c>>) + L) : cs[i] = IF i <= Len(<<c>>) THEN <<c>>[i] ELSE calls[i - Len(<<c>>)]
      BY <2>1, <3>1, ConcatProperties
    <3> HIDE DEF cs
    <3>3. Len(cs) = L + 1 /\ cs[1] = c /\ \A i \in 1..L : cs[i + 1] = calls[i]
      BY <1>1, <3>1, <3>2
    <3>4. cs # <<>>
      BY <1>1, <3>2, <3>3, EmptySeq
    <3>5. /\ Head(cs) = cs[1] /\ Tail(cs) \in Seq(CallSet) /\ Len(Tail(cs)) = Len(cs) - 1
          /\ \A i \in 1..Len(Tail(cs)) : Tail(cs)[i] = cs[i + 1]
      BY <3>2, <3>4, HeadTailProperties
    <3>6. Tail(cs) = calls
      <4>1. Len(Tail(cs)) = L /\ \A i \in 1..L : Tail(cs)[i] = calls[i]
        BY <1>1, <3>3, <3>5
      <4>2. QED
        BY <2>1, <3>5, <4>1, SeqEqual
    <3>7. QED
      BY <3>2, <3>3, <3>4, <3>5, <3>6
  <2>3. calls' = cs
    BY DEF c
  <2> HIDE DEF cs
  <2>4. Aside(cs) = CallItems(L, c) \cup Aside(calls)
    <3>1. Aside(cs) = CallItems(Len(cs) - 1, Head(cs)) \cup Aside(Tail(cs))
      BY <2>2, AsideIs
    <3>2. Len(cs) - 1 = L
      BY <1>1, <2>2
    <3>3. QED
      BY <2>2, <3>1, <3>2
  <2>5. CallItems(L, c) = StepItems(L, queue) \cup {t}
    BY DEF CallItems, c
  <2>6. StepItems(L + 1, <<s>>) = {n}
    <3> DEFINE q == <<s>>
    <3>1. q \in Seq(StepSet) /\ Len(q) = 1 /\ DOMAIN q = {1} /\ q[1] = s
      OBVIOUS
    <3> HIDE DEF q
    <3>2. StepItems(L + 1, q) = {StepItem(L + 1, Len(q) + 1 - 1, q[1])}
      BY <3>1 DEF StepItems
    <3>3. Len(q) + 1 - 1 = 1
      BY <3>1
    <3>4. QED
      BY <3>1, <3>2, <3>3 DEF q
  <2>7. Pending' = Aside(cs) \cup StepItems(L + 1, <<s>>)
    <3>1. Pending' = Aside(calls') \cup StepItems(Len(calls'), queue')
      BY DEF Pending, Performed, Aside, CallItems, StepItems, StepItem, RowItem
    <3>2. QED
      BY <2>2, <2>3, <3>1
  <2>8. QED
    BY <2>4, <2>5, <2>6, <2>7
<1> HIDE DEF t, n
<1>5. \A y \in Low : Higher(t, y) /\ ~Higher(y, n) /\ ~Higher(y, t)
  BY <1>1, <1>2 DEF Higher
<1>6. ~Higher(t, t)
  BY <1>1, <1>2 DEF Higher
<1>7. QED
  BY <1>3, <1>4, <1>5, <1>6 DEF Replaced, t, n

\* The unit is at its end, and the row goes on from the queue set aside for it.
LEMMA ReturnReplaced ==
    ASSUME TypeOK, at = "step", queue = <<>>, calls # <<>>, queue' = Head(calls).outer, calls' = Tail(calls),
           unit' = Head(calls).row
    PROVE  LET t == RowItem(Len(calls) - 1, Len(Head(calls).outer) + 1, Head(calls).row)
           IN  Replaced(t, IF at' = "step" THEN {} ELSE {t})
<1> DEFINE L == Len(calls) - 1
           c == Head(calls)
           t == RowItem(L, Len(c.outer) + 1, c.row)
           Low == Aside(Tail(calls)) \cup StepItems(L, c.outer)
<1>1. /\ calls \in Seq(CallSet) /\ Len(calls) \in Nat /\ c \in CallSet /\ Tail(calls) \in Seq(CallSet)
      /\ Len(Tail(calls)) = L /\ Aside(calls) = CallItems(L, c) \cup Aside(Tail(calls))
  BY StepsTyped, AsideIs
<1>2. c.outer \in Seq(StepSet)
  BY <1>1 DEF CallSet
<1>3. L \in Nat /\ \A y \in Aside(Tail(calls)) : y.level \in Nat /\ y.level < L
  BY <1>1, AsideIs
<1>4. Len(c.outer) \in Nat /\ \A y \in StepItems(L, c.outer) : y.level = L /\ y.height \in 1..Len(c.outer)
  BY <1>2, StepItemsAre
<1>5. t.level = L /\ t.height = Len(c.outer) + 1
  BY DEF RowItem
<1>6. Pending = {t} \cup Low
  <2>1. StepItems(Len(calls), queue) = {}
    <3> DEFINE q == queue
    <3>1. DOMAIN q = {}
      OBVIOUS
    <3> HIDE DEF q
    <3>2. StepItems(Len(calls), q) = {}
      BY <3>1 DEF StepItems
    <3>3. QED
      BY <3>2 DEF q
  <2>2. CallItems(L, c) = StepItems(L, c.outer) \cup {t}
    BY DEF CallItems
  <2>3. Performed = {}
    BY DEF Performed
  <2>4. QED
    BY <1>1, <2>1, <2>2, <2>3 DEF Pending
<1>7. Pending' = (IF at' = "step" THEN {} ELSE {t}) \cup Low
  <2>1. Pending' = Aside(calls') \cup StepItems(Len(calls'), queue') \cup
                     (IF at' = "step" THEN {} ELSE {RowItem(Len(calls'), Len(queue') + 1, unit')})
    BY DEF Pending, Performed, Aside, CallItems, StepItems, StepItem, RowItem
  <2>2. QED
    BY <1>1, <2>1
<1> HIDE DEF t, c, L
<1>8. \A y \in Low : Higher(t, y) /\ ~Higher(y, t)
  BY <1>3, <1>4, <1>5 DEF Higher
<1>9. ~Higher(t, t)
  BY <1>3, <1>4, <1>5 DEF Higher
<1>10. QED
  BY <1>6, <1>7, <1>8, <1>9 DEF Replaced, t, c, L

-----------------------------------------------------------------------------
(* A turn keeps what is pending in order.                                   *)

LEMMA PendingDeep ==
    ASSUME TypeOK, Placed, RootFits, NEW x \in Pending
    PROVE  /\ \E j \in Due \cup Begun : j.node = x.node /\ j.iteration = x.iteration
           /\ x.node \in DOMAIN plan /\ x.iteration \in Seq(Nat) /\ Len(x.iteration) = Depth(x.node)
<1>1. PICK j \in Due \cup Begun : j.node = x.node /\ j.iteration = x.iteration
  <2>1. CASE x.op = "row"
    <3>1. Id(x.node, x.iteration, x.attempt) \in Begun
      BY <2>1, PendingIs DEF Begun
    <3>2. QED
      BY <3>1 DEF Id
  <2>2. CASE x.op # "row"
    <3>1. First(x.node, x.iteration) \in Due \cup Begun
      BY <2>2, PendingIs DEF Begun
    <3>2. QED
      BY <3>1 DEF Id, First
  <2>3. QED
    BY <2>1, <2>2
<1>2. AllCame
  BY DEF Placed
<1>3. QED
  BY <1>1, <1>2, KnownDeep

\* What is opened is inside t, and what is around it is itself or is around t.
LEMMA OpensIs ==
    ASSUME IsPlan(plan), NEW t, t.node \in DOMAIN plan, t.iteration \in Seq(Nat), NEW n, Opens(n, t)
    PROVE  /\ n.iteration \in Seq(Nat) /\ IsPrefixOf(t.iteration, n.iteration)
           /\ Path[n.node] = {n.node} \cup Path[t.node] /\ n.node \notin Path[t.node] /\ t.node \in Path[n.node]
           /\ n.node # t.node /\ t.node \in Path[t.node]
           /\ \A m \in DOMAIN plan : n.node \in Path[m] => t.node \in Path[m] /\ t.node # m
           /\ \A s \in Seq(Nat) : IsPrefixOf(s, n.iteration) /\ Len(s) <= Len(t.iteration) =>
                 IsPrefixOf(s, t.iteration)
           /\ Len(t.iteration) = Depth(t.node) => Len(n.iteration) = Depth(n.node)
<1>1. /\ n.node \in DOMAIN plan /\ n.node # 1 /\ plan[n.node].parent = t.node
      /\ n.iteration = t.iteration \/ \E k \in Nat : n.iteration = Append(t.iteration, k)
      /\ IF plan[t.node].block \in DeepBlocks THEN \E k \in Nat : n.iteration = Append(t.iteration, k)
                                              ELSE n.iteration = t.iteration
  BY DEF Opens
<1>2. /\ Path[n.node] = {n.node} \cup Path[t.node] /\ n.node \notin Path[t.node] /\ t.node \in Path[n.node]
      /\ \A m \in DOMAIN plan : n.node \in Path[m] => t.node \in Path[m] /\ t.node # m
  BY <1>1, ChildPath
<1>3. t.node \in Path[t.node]
  BY PathOf
<1>4. /\ n.iteration \in Seq(Nat) /\ IsPrefixOf(t.iteration, n.iteration)
      /\ \A s \in Seq(Nat) : IsPrefixOf(s, n.iteration) /\ Len(s) <= Len(t.iteration) =>
            IsPrefixOf(s, t.iteration)
  <2>1. CASE n.iteration = t.iteration
    BY <2>1, PrefixFacts
  <2>2. ASSUME NEW k \in Nat, n.iteration = Append(t.iteration, k)
        PROVE  /\ n.iteration \in Seq(Nat) /\ IsPrefixOf(t.iteration, n.iteration)
               /\ \A s \in Seq(Nat) : IsPrefixOf(s, n.iteration) /\ Len(s) <= Len(t.iteration) =>
                     IsPrefixOf(s, t.iteration)
    BY <2>2, AppendFacts
  <2>3. QED
    BY <1>1, <2>1, <2>2
<1>5. ASSUME Len(t.iteration) = Depth(t.node) PROVE Len(n.iteration) = Depth(n.node)
  <2>1. Depth(n.node) = (IF plan[t.node].block \in DeepBlocks THEN Depth(t.node) + 1 ELSE Depth(t.node))
    BY <1>1, DepthIs
  <2>2. CASE plan[t.node].block \in DeepBlocks
    <3>1. PICK k \in Nat : n.iteration = Append(t.iteration, k)
      BY <1>1, <2>2
    <3>2. QED
      BY <1>5, <2>1, <2>2, <3>1, AppendFacts
  <2>3. CASE plan[t.node].block \notin DeepBlocks
    BY <1>1, <1>5, <2>1, <2>3
  <2>4. QED
    BY <2>2, <2>3
<1>6. QED
  BY <1>2, <1>3, <1>4, <1>5

LEMMA NestedKeeps ==
    ASSUME TypeOK, Placed, Nested, NEW t, NEW New, Turn(t, New)
    PROVE  Nested'
<1>1. /\ IsPlan(plan) /\ plan' = plan /\ Replaced(t, New) /\ t \in Pending
      /\ \A n \in New : Continues(n, t) \/ Opens(n, t)
      /\ \A m, n \in New : Higher(m, n) => InOrderOf(m, n)
  BY PlanIs DEF Turn, Replaced
<1>2. SUFFICES ASSUME NEW x \in Pending', NEW y \in Pending', Higher(x, y) PROVE InOrderOf(x, y)
  <2>1. \A x, y : InOrderOf(x, y)' = InOrderOf(x, y)
    BY <1>1, OrderSame
  <2>2. QED
    BY <2>1 DEF Nested, Higher
<1>3. CASE x \in Pending /\ y \in Pending
  BY <1>2, <1>3 DEF Nested
<1>4. CASE y \in New /\ x \in Pending /\ Higher(t, x)
  BY <1>1, <1>2, <1>4 DEF Replaced
<1>5. CASE x \in New /\ y \in New
  BY <1>1, <1>2, <1>5
<1>6. CASE x \in New /\ y \in Pending /\ Higher(t, y)
  <2>1. InOrderOf(t, y)
    BY <1>1, <1>6 DEF Nested
  <2>2. CASE Continues(x, t)
    <3>1. /\ Around(x, y) = Around(t, y) /\ Later(x, y) = Later(t, y) /\ Within(y, x) = Within(y, t)
          /\ x.node = t.node /\ x.iteration = t.iteration /\ (t.op = "iterate" => x.op = "iterate")
      BY <2>2 DEF Around, Later, Within, Continues
    <3>2. QED
      BY <2>1, <3>1 DEF InOrderOf
  <2>3. CASE Opens(x, t)
    <3>1. /\ t.node \in DOMAIN plan /\ t.iteration \in Seq(Nat) /\ y.node \in DOMAIN plan
          /\ y.iteration \in Seq(Nat)
          /\ y.op = "row" => y.attempt \in Nat
      BY <1>1, <1>6, PendingIs
    <3>2. /\ x.iteration \in Seq(Nat) /\ IsPrefixOf(t.iteration, x.iteration) /\ Path[x.node] = {x.node} \cup Path[t.node]
          /\ x.node \notin Path[t.node]
          /\ x.node \in Path[y.node] => t.node \in Path[y.node] /\ t.node # y.node
      BY <1>1, <2>3, <3>1, OpensIs
    <3>3. ~(t.node \in Path[y.node] /\ t.node # y.node /\ IsPrefixOf(t.iteration, y.iteration))
      BY <2>1 DEF InOrderOf, Around
    <3>4. IsPrefixOf(x.iteration, y.iteration) => IsPrefixOf(t.iteration, y.iteration)
      BY <3>1, <3>2, PrefixFacts
    <3>5. ~Around(x, y)
      BY <3>2, <3>3, <3>4 DEF Around
    <3>6. ~Later(x, y)
      <4>1. SUFFICES ASSUME Follows(x.node, y.node), IsPrefixOf(x.iteration, y.iteration) PROVE FALSE
        BY DEF Later
      <4>2. t.node \in Path[y.node] \ {y.node}
        BY <1>1, <2>3, <3>1, <4>1, FollowsIs DEF Opens
      <4>3. QED
        BY <3>3, <3>4, <4>1, <4>2
    <3>7. ASSUME y.op = "row" PROVE Within(y, x)
      <4>1. Within(y, t)
        BY <2>1, <3>7 DEF InOrderOf
      <4>2. y.node \in Path[t.node] /\ IsPrefixOf(Append(y.iteration, y.attempt), t.iteration)
        BY <4>1 DEF Within
      <4>3. Append(y.iteration, y.attempt) \in Seq(Nat)
        BY <3>1, <3>7, AppendFacts
      <4>4. IsPrefixOf(Append(y.iteration, y.attempt), x.iteration)
        BY <3>1, <3>2, <4>2, <4>3, PrefixFacts
      <4>5. QED
        BY <3>2, <4>2, <4>4 DEF Within
    <3>8. QED
      BY <3>5, <3>6, <3>7 DEF InOrderOf
  <2>4. QED
    BY <1>1, <1>6, <2>2, <2>3
<1>7. QED
  BY <1>1, <1>2, <1>3, <1>4, <1>5, <1>6 DEF Replaced

LEMMA RowsClosedKeeps ==
    ASSUME TypeOK, Placed, RootFits, Nested, RowsClosed, NEW t, NEW New, Turn(t, New),
           DOMAIN records' \subseteq InvocationIds,
           \A i \in DOMAIN records' : i \in DOMAIN records \/ (i.node = t.node /\ i.iteration = t.iteration),
           plan[t.node].block = "action" => \A n \in New : Opens(n, t) =>
              /\ DOMAIN records' = DOMAIN records /\ t.attempt \in Nat
              /\ Id(t.node, t.iteration, t.attempt) \notin DOMAIN records
              /\ n.iteration = Append(t.iteration, t.attempt)
    PROVE  RowsClosed'
<1>1. /\ IsPlan(plan) /\ plan' = plan /\ Replaced(t, New) /\ t \in Pending
      /\ \A n \in New : Continues(n, t) \/ Opens(n, t)
  BY PlanIs DEF Turn, Replaced
<1>2. SUFFICES ASSUME NEW i \in DOMAIN records', NEW x \in Pending', plan[i.node].block = "action", Within(i, x)
               PROVE  FALSE
  <2>1. \A i, j : Within(i, j)' = Within(i, j)
    BY <1>1, OrderSame
  <2>2. QED
    BY <1>1, <2>1 DEF RowsClosed
<1>3. /\ i \in InvocationIds /\ i.node \in DOMAIN plan /\ i.iteration \in Seq(Nat) /\ i.attempt \in Nat
      /\ Append(i.iteration, i.attempt) \in Seq(Nat) /\ IsPrefixOf(i.iteration, Append(i.iteration, i.attempt))
      /\ Len(Append(i.iteration, i.attempt)) = Len(i.iteration) + 1
  <2>1. /\ i \in InvocationIds /\ i.node \in DOMAIN plan /\ i.iteration \in Seq(Nat) /\ i.attempt \in Nat
    BY IdIs
  <2>2. QED
    BY <2>1, AppendFacts
<1>4. /\ t.node \in DOMAIN plan /\ t.iteration \in Seq(Nat) /\ Len(t.iteration) = Depth(t.node)
      /\ Depth(t.node) \in Nat
  BY <1>1, PendingDeep, DepthIs
<1>5. i.node \in Path[x.node] \ {x.node} /\ IsPrefixOf(Append(i.iteration, i.attempt), x.iteration)
  BY <1>2 DEF Within
<1>6. CASE x \in Pending /\ Higher(t, x)
  <2>1. CASE i \in DOMAIN records
    BY <1>2, <1>6, <2>1 DEF RowsClosed
  <2>2. CASE i.node = t.node /\ i.iteration = t.iteration
    <3>1. x.iteration \in Seq(Nat)
      BY <1>6, PendingIs
    <3>2. IsPrefixOf(t.iteration, x.iteration)
      <4> DEFINE a == Append(i.iteration, i.attempt)
      <4>1. a \in Seq(Nat) /\ IsPrefixOf(i.iteration, a) /\ IsPrefixOf(a, x.iteration)
        BY <1>3, <1>5
      <4> HIDE DEF a
      <4>2. IsPrefixOf(i.iteration, x.iteration)
        BY <1>3, <3>1, <4>1, PrefixFacts
      <4>3. QED
        BY <2>2, <4>2
    <3>3. Around(t, x) /\ t.node # x.node
      BY <1>5, <2>2, <3>2 DEF Around
    <3>4. InOrderOf(t, x)
      BY <1>1, <1>6 DEF Nested
    <3>5. QED
      BY <3>3, <3>4 DEF InOrderOf
  <2>3. QED
    BY <2>1, <2>2
<1>7. CASE x \in New /\ Continues(x, t)
  <2>1. Within(i, t) /\ i.node # t.node
    BY <1>2, <1>7 DEF Within, Continues
  <2>2. i \in DOMAIN records
    BY <2>1
  <2>3. QED
    BY <1>1, <1>2, <2>1, <2>2 DEF RowsClosed
<1>8. CASE x \in New /\ Opens(x, t)
  <2>1. /\ Path[x.node] = {x.node} \cup Path[t.node] /\ x.iteration \in Seq(Nat)
        /\ \A s \in Seq(Nat) : IsPrefixOf(s, x.iteration) /\ Len(s) <= Len(t.iteration) =>
              IsPrefixOf(s, t.iteration)
    BY <1>1, <1>4, <1>8, OpensIs
  <2>2. i \in DOMAIN records
    BY <1>2, <1>8
  <2>3. Len(i.iteration) = Depth(i.node) /\ Depth(i.node) \in Nat
    BY <1>3, <2>2, KnownDeep, DepthIs, <1>1 DEF Placed, Begun
  <2>4. i.node \in Path[t.node]
    BY <1>5, <2>1
  <2>5. CASE i.node # t.node
    <3>1. Depth(i.node) + 1 <= Depth(t.node)
      BY <1>1, <1>2, <1>4, <2>4, <2>5, DepthIs DEF DeepBlocks
    <3>2. Len(Append(i.iteration, i.attempt)) <= Len(t.iteration)
      BY <1>3, <1>4, <2>3, <3>1
    <3>3. IsPrefixOf(Append(i.iteration, i.attempt), t.iteration)
      BY <1>3, <1>5, <2>1, <3>2
    <3>4. Within(i, t)
      BY <2>4, <2>5, <3>3 DEF Within
    <3>5. QED
      BY <1>1, <1>2, <2>2, <3>4 DEF RowsClosed
  <2>6. CASE i.node = t.node
    <3>1. /\ t.attempt \in Nat /\ Id(t.node, t.iteration, t.attempt) \notin DOMAIN records
          /\ x.iteration = Append(t.iteration, t.attempt)
      BY <1>2, <1>8, <2>6
    <3>2. Len(x.iteration) = Len(t.iteration) + 1
      BY <1>4, <3>1, AppendFacts
    <3>3. Len(x.iteration) <= Len(Append(i.iteration, i.attempt))
      BY <1>3, <1>4, <2>3, <2>6, <3>2
    <3>4. Append(i.iteration, i.attempt) = x.iteration
      BY <1>3, <1>5, <2>1, <3>3, PrefixFacts
    <3>5. i.iteration = t.iteration /\ i.attempt = t.attempt
      <4>1. Append(i.iteration, i.attempt) = Append(t.iteration, t.attempt)
        BY <3>1, <3>4
      <4>2. QED
        <5> DEFINE h == i.iteration
                   g == t.iteration
                   a == i.attempt
                   b == t.attempt
        <5>1. h \in Seq(Nat) /\ g \in Seq(Nat) /\ a \in Nat /\ b \in Nat /\ Append(h, a) = Append(g, b)
          BY <1>3, <1>4, <3>1, <4>1
        <5> HIDE DEF h, g, a, b
        <5>2. h = g /\ a = b
          BY <5>1, AppendedIs
        <5>3. QED
          BY <5>2 DEF h, g, a, b
    <3>6. i = Id(i.node, i.iteration, i.attempt)
      BY <1>3, IdIs
    <3>7. QED
      BY <2>2, <2>6, <3>1, <3>5, <3>6
  <2>7. QED
    BY <2>5, <2>6
<1>9. QED
  BY <1>1, <1>2, <1>6, <1>7, <1>8 DEF Replaced

LEMMA FinishedKeeps ==
    ASSUME TypeOK, Placed, RootFits, Nested, Finished, NEW t, NEW New, Turn(t, New), Fresh(t, New),
           \A i \in DOMAIN records' : plan[i.node].block # "action" /\ records'[i].status = "succeeded" =>
              \/ i \in DOMAIN records /\ records[i].status = "succeeded"
              \/ i.node = t.node /\ i.iteration = t.iteration /\ t.op = "leave" /\ New = {}
    PROVE  Finished'
<1>1. /\ IsPlan(plan) /\ plan' = plan /\ Replaced(t, New) /\ t \in Pending
      /\ \A n \in New : Continues(n, t) \/ Opens(n, t)
  BY PlanIs DEF Turn, Replaced
<1>2. SUFFICES ASSUME NEW i \in DOMAIN records', NEW x \in Pending', plan[i.node].block # "action",
                      records'[i].status = "succeeded", Around(i, x)
               PROVE  FALSE
  <2>1. \A i, j : Around(i, j)' = Around(i, j)
    BY <1>1, OrderSame
  <2>2. QED
    BY <1>1, <2>1 DEF Finished
<1>3. CASE i.node = t.node /\ i.iteration = t.iteration /\ t.op = "leave" /\ New = {}
  <2>1. x \in Pending /\ Higher(t, x)
    BY <1>1, <1>3 DEF Replaced
  <2>2. InOrderOf(t, x) /\ Around(t, x)
    BY <1>1, <1>2, <1>3, <2>1 DEF Nested, Around
  <2>3. QED
    BY <1>3, <2>2 DEF InOrderOf
<1>4. CASE i \in DOMAIN records /\ records[i].status = "succeeded"
  <2>1. CASE x \in Pending
    BY <1>2, <1>4, <2>1 DEF Finished
  <2>2. CASE x \in New /\ Continues(x, t)
    <3>1. Around(i, t)
      BY <1>2, <2>2 DEF Around, Continues
    <3>2. QED
      BY <1>1, <1>2, <1>4, <3>1 DEF Finished
  <2>3. CASE x \in New /\ Opens(x, t)
    <3>1. /\ t.node \in DOMAIN plan /\ t.iteration \in Seq(Nat) /\ Len(t.iteration) = Depth(t.node)
          /\ Depth(t.node) \in Nat
      BY <1>1, PendingDeep, DepthIs
    <3>2. /\ Path[x.node] = {x.node} \cup Path[t.node] /\ x.iteration \in Seq(Nat) /\ Len(x.iteration) = Depth(x.node)
          /\ \A s \in Seq(Nat) : IsPrefixOf(s, x.iteration) /\ Len(s) <= Len(t.iteration) =>
                IsPrefixOf(s, t.iteration)
      BY <1>1, <2>3, <3>1, OpensIs
    <3>3. i \in Begun
      BY <1>4 DEF Begun
    <3>4. Len(i.iteration) = Depth(i.node) /\ i.iteration \in Seq(Nat) /\ i.node \in DOMAIN plan
      BY <3>3, KnownDeep DEF Placed
    <3>5. i.node \in Path[x.node] /\ IsPrefixOf(i.iteration, x.iteration)
      BY <1>2 DEF Around
    <3>6. CASE i.node = x.node
      <4>1. Len(x.iteration) = Len(i.iteration) /\ Len(i.iteration) \in Nat
        BY <3>2, <3>4, <3>6, LenProperties
      <4>2. i.iteration = x.iteration
        BY <3>2, <3>4, <3>5, <4>1, PrefixFacts
      <4>3. plan[i.node].parent = t.node
        BY <2>3, <3>6 DEF Opens
      <4>4. QED
        BY <2>3, <3>3, <4>2, <4>3 DEF Fresh
    <3>7. CASE i.node # x.node
      <4>1. i.node \in Path[t.node]
        BY <3>2, <3>5, <3>7
      <4>2. Len(i.iteration) <= Len(t.iteration)
        BY <1>1, <3>1, <3>4, <4>1, DepthIs
      <4>3. IsPrefixOf(i.iteration, t.iteration)
        BY <3>2, <3>4, <3>5, <4>2
      <4>4. Around(i, t)
        BY <4>1, <4>3 DEF Around
      <4>5. QED
        BY <1>1, <1>2, <1>4, <4>4 DEF Finished
    <3>8. QED
      BY <3>6, <3>7
  <2>4. QED
    BY <1>1, <1>2, <2>1, <2>2, <2>3 DEF Replaced
<1>5. QED
  BY <1>2, <1>3, <1>4

LEMMA NotBegunKeeps ==
    ASSUME TypeOK, Placed, RootFits, Nested, NotBegun, NEW t, NEW New, Turn(t, New), Fresh(t, New),
           \A j \in Begun' : j \in Begun \/ (j.node = t.node /\ j.iteration = t.iteration)
    PROVE  NotBegun'
<1>1. /\ IsPlan(plan) /\ plan' = plan /\ Replaced(t, New) /\ t \in Pending
      /\ \A n \in New : Continues(n, t) \/ Opens(n, t)
  BY PlanIs DEF Turn, Replaced
<1>2. SUFFICES ASSUME NEW x \in Pending', NEW j \in Begun', Later(j, x) PROVE FALSE
  <2>1. \A i, j : Later(i, j)' = Later(i, j)
    BY <1>1, OrderSame
  <2>2. QED
    BY <2>1 DEF NotBegun
<1>3. /\ t.node \in DOMAIN plan /\ t.iteration \in Seq(Nat) /\ Len(t.iteration) = Depth(t.node)
      /\ Depth(t.node) \in Nat /\ t.node \in Path[t.node]
  BY <1>1, PendingDeep, DepthIs, PathOf
<1>4. ASSUME j.node = t.node, j.iteration = t.iteration PROVE FALSE
  <2>1. Later(t, x)
    BY <1>2, <1>4 DEF Later
  <2>2. CASE x \in Pending /\ Higher(t, x)
    BY <1>1, <2>1, <2>2 DEF Nested, InOrderOf
  <2>3. CASE x \in New /\ Continues(x, t)
    <3>1. Follows(t.node, t.node)
      BY <2>1, <2>3 DEF Later, Continues
    <3>2. QED
      BY <1>1, <1>3, <3>1, FollowsIs
  <2>4. CASE x \in New /\ Opens(x, t)
    <3>1. t.node \in Path[x.node] /\ x.node \in DOMAIN plan
      BY <1>1, <1>3, <2>4, OpensIs DEF Opens
    <3>2. Follows(t.node, x.node)
      BY <2>1 DEF Later
    <3>3. QED
      BY <1>1, <3>1, <3>2, FollowsIs
  <2>5. QED
    BY <1>1, <1>2, <2>2, <2>3, <2>4 DEF Replaced
<1>5. ASSUME j \in Begun PROVE FALSE
  <2>1. CASE x \in Pending
    BY <1>2, <1>5, <2>1 DEF NotBegun
  <2>2. CASE x \in New /\ Continues(x, t)
    <3>1. Later(j, t)
      BY <1>2, <2>2 DEF Later, Continues
    <3>2. QED
      BY <1>1, <1>5, <3>1 DEF NotBegun
  <2>3. CASE x \in New /\ Opens(x, t)
    <3>1. /\ x.iteration \in Seq(Nat) /\ Len(x.iteration) = Depth(x.node) /\ x.node \in DOMAIN plan /\ x.node # 1
          /\ plan[x.node].parent = t.node
          /\ \A s \in Seq(Nat) : IsPrefixOf(s, x.iteration) /\ Len(s) <= Len(t.iteration) =>
                IsPrefixOf(s, t.iteration)
      BY <1>1, <1>3, <2>3, OpensIs DEF Opens
    <3>2. Follows(j.node, x.node) /\ IsPrefixOf(j.iteration, x.iteration)
      BY <1>2 DEF Later
    <3>3. j.node \in DOMAIN plan /\ j.iteration \in Seq(Nat) /\ Len(j.iteration) = Depth(j.node)
      BY <1>5, KnownDeep DEF Placed
    <3>4. j.node # 1 /\ (j.node \in LaterSiblings(x.node) \/ Follows(j.node, t.node))
      BY <1>1, <3>1, <3>2, FollowsIs
    <3>5. Depth(j.node) = (IF plan[plan[j.node].parent].block \in DeepBlocks
                             THEN Depth(plan[j.node].parent) + 1 ELSE Depth(plan[j.node].parent))
      BY <1>1, <3>3, <3>4, DepthIs
    <3>6. CASE j.node \in LaterSiblings(x.node)
      <4>1. plan[j.node].parent = t.node
        BY <1>1, <3>1, <3>6, SiblingIs
      <4>2. Depth(x.node) = (IF plan[t.node].block \in DeepBlocks THEN Depth(t.node) + 1 ELSE Depth(t.node))
        BY <1>1, <3>1, DepthIs
      <4>3. Len(x.iteration) = Len(j.iteration) /\ Len(j.iteration) \in Nat
        BY <3>1, <3>3, <3>5, <4>1, <4>2, LenProperties
      <4>4. j.iteration = x.iteration
        BY <3>1, <3>2, <3>3, <4>3, PrefixFacts
      <4>5. QED
        BY <1>5, <2>3, <4>1, <4>4 DEF Fresh
    <3>7. CASE Follows(j.node, t.node)
      <4>1. plan[j.node].parent \in Path[t.node] \ {t.node}
        BY <1>1, <1>3, <3>7, FollowsIs
      <4>2. Depth(j.node) <= Depth(t.node)
        BY <1>1, <1>3, <3>5, <4>1, DepthIs
      <4>3. IsPrefixOf(j.iteration, t.iteration)
        BY <1>3, <3>1, <3>2, <3>3, <4>2
      <4>4. QED
        BY <1>1, <1>5, <3>7, <4>3 DEF NotBegun, Later
    <3>8. QED
      BY <3>4, <3>6, <3>7
  <2>4. QED
    BY <1>1, <1>2, <2>1, <2>2, <2>3 DEF Replaced
<1>6. QED
  BY <1>4, <1>5

-----------------------------------------------------------------------------
(* The children that are entered, in their order, and all of them.          *)

LEMMA Onto ==
    ASSUME NEW n \in Nat, NEW S, IsFiniteSet(S), Cardinality(S) = n,
           NEW f \in [1..n -> S], \A j, k \in 1..n : f[j] = f[k] => j = k
    PROVE  \A x \in S : \E k \in 1..n : f[k] = x
<1>1. IsFiniteSet(1..n) /\ Cardinality(1..n) = n
  <2>1. 1 \in Int /\ n \in Int /\ (IF 1 > n THEN 0 ELSE n - 1 + 1) = n
    OBVIOUS
  <2>2. QED
    BY <2>1, FS_Interval
<1>2. f \in Injection(1..n, S)
  BY DEF Injection, IsInjective
<1>3. f \in Surjection(1..n, S)
  BY <1>1, <1>2, FS_Injection
<1>4. QED
  BY <1>3 DEF Surjection

LEMMA InOrderWhole ==
    ASSUME NEW S \in SUBSET Nat, IsFiniteSet(S)
    PROVE  /\ \A j, k \in DOMAIN InOrder(S) : j < k => InOrder(S)[j] < InOrder(S)[k]
           /\ \A x \in S : \E k \in DOMAIN InOrder(S) : InOrder(S)[k] = x
<1>1. \A j, k \in DOMAIN InOrder(S) : j < k => InOrder(S)[j] < InOrder(S)[k]
  BY OrderExists DEF InOrder
<1> DEFINE f == InOrder(S)
           n == Cardinality(S)
<1>2. n \in Nat /\ f \in [1..n -> S] /\ \A j, k \in DOMAIN f : f[j] = f[k] => j = k
  BY InOrderIs
<1> HIDE DEF f
<1>3. DOMAIN f = 1..n
  BY <1>2
<1>4. \A x \in S : \E k \in 1..n : f[k] = x
  <2> HIDE DEF n
  <2>1. \A j, k \in 1..n : f[j] = f[k] => j = k
    BY <1>2, <1>3
  <2>2. Cardinality(S) = n
    BY DEF n
  <2>3. QED
    BY <1>2, <2>1, <2>2, Onto
<1>5. QED
  BY <1>1, <1>3, <1>4 DEF f

LEMMA SelectedWhole ==
    ASSUME IsPlan(plan), NEW n \in DOMAIN plan, NEW pick
    PROVE  LET s == Selected(n, pick)
           IN  /\ \A j, k \in DOMAIN s : s[j] \in LaterSiblings(s[k]) => k < j
               /\ \A c \in DOMAIN plan :
                     plan[c].parent = n /\ plan[c].block \notin {"if", "else"} => \E k \in DOMAIN s : s[k] = c
<1> DEFINE all == plan[n].children
           kept == {k \in DOMAIN all : CASE plan[all[k]].block = "if" -> pick[all[k]] = "then"
                                     [] plan[all[k]].block = "else" -> pick[all[k - 1]] = "else"
                                     [] OTHER -> TRUE}
           order == InOrder(kept)
           s == [k \in DOMAIN order |-> all[order[k]]]
<1>1. Selected(n, pick) = s
  BY DEF Selected
<1>2. all \in Seq(Nat) /\ DOMAIN all = 1..Len(all) /\ Len(all) \in Nat
  BY NodeIs DEF Node
<1>3. kept \subseteq DOMAIN all
  OBVIOUS
<1>4. \A j, k \in DOMAIN all : all[j] = all[k] => j = k
  BY DEF IsPlan
<1>5. {all[k] : k \in DOMAIN all} = {c \in DOMAIN plan : plan[c].parent = n}
  BY DEF IsPlan
<1>6. \A k \in DOMAIN all : plan[all[k]].block \notin {"if", "else"} => k \in kept
  OBVIOUS
<1>7. \A k \in DOMAIN all : plan[all[k]].parent = n
  BY ChildIs
<1> HIDE DEF kept, all
<1>8. kept \in SUBSET Nat /\ IsFiniteSet(kept)
  <2>1. IsFiniteSet(1..Len(all))
    BY <1>2, FS_Interval
  <2>2. IsFiniteSet(kept)
    BY <1>2, <1>3, <2>1, FS_Subset
  <2>3. QED
    BY <1>2, <1>3, <2>2
<1>9. /\ order \in [1..Cardinality(kept) -> kept] /\ Cardinality(kept) \in Nat
      /\ \A j, k \in DOMAIN order : j < k => order[j] < order[k]
      /\ \A x \in kept : \E k \in DOMAIN order : order[k] = x
  BY <1>8, InOrderIs, InOrderWhole
<1> DEFINE m == Cardinality(kept)
<1>10. m \in Nat /\ order \in [1..m -> kept]
  BY <1>9
<1> HIDE DEF m, order
<1>11. DOMAIN order = 1..m /\ DOMAIN s = 1..m /\ \A k \in 1..m : order[k] \in kept /\ s[k] = all[order[k]]
  BY <1>10
<1> HIDE DEF s
<1>12. ASSUME NEW j \in 1..m, NEW k \in 1..m, s[j] \in LaterSiblings(s[k]) PROVE k < j
  <2>1. plan[s[k]].parent = n
    BY <1>3, <1>7, <1>11
  <2>2. plan[plan[s[k]].parent].children = all
    BY <2>1 DEF all
  <2>3. PICK i \in DOMAIN all : s[j] = all[i] /\ i > Position(s[k])
    BY <1>12, <2>2 DEF LaterSiblings
  <2>4. i = order[j]
    BY <1>3, <1>4, <1>11, <2>3
  <2>5. Position(s[k]) = order[k]
    <3>1. Position(s[k]) \in DOMAIN all /\ all[Position(s[k])] = s[k]
      <4>1. \E p \in DOMAIN all : all[p] = s[k]
        BY <1>3, <1>11
      <4>2. QED
        BY <2>2, <4>1 DEF Position
    <3>2. QED
      BY <1>3, <1>4, <1>11, <3>1
  <2>6. order[j] > order[k] /\ order[j] \in Nat /\ order[k] \in Nat
    BY <1>8, <1>11, <2>3, <2>4, <2>5
  <2>7. ~(j < k) /\ j # k
    <3>1. j \in DOMAIN order /\ k \in DOMAIN order
      BY <1>11
    <3>2. ~(order[j] < order[k]) /\ order[j] # order[k]
      BY <2>6
    <3>3. QED
      BY <1>9, <3>1, <3>2
  <2>8. QED
    BY <2>7
<1>13. ASSUME NEW c \in DOMAIN plan, plan[c].parent = n, plan[c].block \notin {"if", "else"}
       PROVE  \E k \in 1..m : s[k] = c
  <2>1. PICK i \in DOMAIN all : all[i] = c
    BY <1>5, <1>13
  <2>2. i \in kept
    BY <1>6, <1>13, <2>1
  <2>3. PICK k \in 1..m : order[k] = i
    BY <1>9, <1>11, <2>2
  <2>4. QED
    BY <1>11, <2>1, <2>3
<1>14. QED
  BY <1>1, <1>11, <1>12, <1>13

LEMMA EntersWhole ==
    ASSUME IsPlan(plan), NEW n \in DOMAIN plan, NEW pick, NEW it \in Seq(Nat)
    PROVE  LET batch == Enters(Selected(n, pick), it)
           IN  /\ \A j, k \in DOMAIN batch : batch[j].node \in LaterSiblings(batch[k].node) => k < j
               /\ \A c \in DOMAIN plan :
                     plan[c].parent = n /\ plan[c].block \notin {"if", "else"} =>
                        EnterStep(c, it) \in StepsOf(batch)
<1> DEFINE c == Selected(n, pick)
           batch == Enters(c, it)
<1>1. /\ \A j, k \in DOMAIN c : c[j] \in LaterSiblings(c[k]) => k < j
      /\ \A d \in DOMAIN plan :
            plan[d].parent = n /\ plan[d].block \notin {"if", "else"} => \E k \in DOMAIN c : c[k] = d
  <2>1. \A j, k \in DOMAIN c : c[j] \in LaterSiblings(c[k]) => k < j
    BY SelectedWhole, Zenon
  <2>2. \A d \in DOMAIN plan :
           plan[d].parent = n /\ plan[d].block \notin {"if", "else"} => \E k \in DOMAIN c : c[k] = d
    BY SelectedWhole, Zenon
  <2>3. QED
    BY <2>1, <2>2
<1> HIDE DEF c
<1>2. DOMAIN batch = DOMAIN c /\ \A k \in DOMAIN c : batch[k] = EnterStep(c[k], it)
  BY DEF Enters
<1>3. \A m : EnterStep(m, it).node = m
  BY DEF EnterStep
<1> HIDE DEF batch
<1>4. \A j, k \in DOMAIN batch : batch[j].node \in LaterSiblings(batch[k].node) => k < j
  BY <1>1, <1>2, <1>3
<1>5. \A d \in DOMAIN plan :
         plan[d].parent = n /\ plan[d].block \notin {"if", "else"} => EnterStep(d, it) \in StepsOf(batch)
  BY <1>1, <1>2 DEF StepsOf
<1>6. QED
  BY <1>4, <1>5 DEF batch, c

LEMMA OrderedWhole ==
    ASSUME interleaving \in Interleavings, NEW S, NEW batch \in Seq(S)
    PROVE  StepsOf(batch) \subseteq StepsOf(Ordered(batch))
<1> DEFINE n == Len(batch)
           half == n \div 2
           s == Ordered(batch)
<1>1. n \in Nat /\ DOMAIN batch = 1..n /\ half \in Nat /\ 2 * half <= n /\ n <= 2 * half + 1
  OBVIOUS
<1>2. \/ s = batch
      \/ s = [k \in 1..n |-> batch[n + 1 - k]]
      \/ s = [k \in 1..n |-> IF k <= half THEN batch[2 * k] ELSE batch[2 * (k - half) - 1]]
  BY DEF Ordered, Interleavings
<1> HIDE DEF n, s, half
<1>3. CASE s = batch
  BY <1>3 DEF s
<1>4. CASE s = [k \in 1..n |-> batch[n + 1 - k]]
  <2>1. ASSUME NEW k \in 1..n PROVE batch[k] \in StepsOf(s)
    <3>1. n + 1 - k \in 1..n /\ n + 1 - (n + 1 - k) = k
      BY <1>1
    <3>2. s[n + 1 - k] = batch[k] /\ n + 1 - k \in DOMAIN s
      BY <1>4, <3>1
    <3>3. QED
      BY <3>2 DEF StepsOf
  <2>2. QED
    BY <1>1, <2>1 DEF StepsOf, s
<1>5. CASE s = [k \in 1..n |-> IF k <= half THEN batch[2 * k] ELSE batch[2 * (k - half) - 1]]
  <2>1. ASSUME NEW k \in 1..n PROVE \E j \in 1..n : s[j] = batch[k]
    <3>1. CASE \E m \in Nat : k = 2 * m
      <4>1. PICK m \in Nat : k = 2 * m
        BY <3>1
      <4>2. m \in 1..n /\ m <= half
        BY <1>1, <4>1
      <4>3. s[m] = batch[2 * m]
        BY <1>5, <4>2
      <4>4. QED
        BY <4>1, <4>2, <4>3
    <3>2. CASE \E m \in Nat : k = 2 * m + 1
      <4>1. PICK m \in Nat : k = 2 * m + 1
        BY <3>2
      <4> DEFINE j == half + m + 1
      <4>2. j \in 1..n /\ ~(j <= half) /\ 2 * (j - half) - 1 = k
        BY <1>1, <4>1
      <4> HIDE DEF j
      <4>3. j \in 1..n /\ ~(j <= half) /\ 2 * (j - half) - 1 = k
        BY <4>2
      <4>4. s[j] = batch[2 * (j - half) - 1]
        BY <1>5, <4>3
      <4>5. QED
        BY <4>3, <4>4
    <3>3. \E m \in Nat : k = 2 * m \/ k = 2 * m + 1
      <4>1. k \in Nat /\ k \div 2 \in Nat /\ (k = 2 * (k \div 2) \/ k = 2 * (k \div 2) + 1)
        OBVIOUS
      <4>2. QED
        BY <4>1
    <3>4. QED
      BY <3>1, <3>2, <3>3
  <2>2. DOMAIN s = 1..n
    BY <1>5
  <2>3. QED
    BY <1>1, <2>1, <2>2 DEF StepsOf, s
<1>6. QED
  BY <1>2, <1>3, <1>4, <1>5 DEF s

-----------------------------------------------------------------------------
(* What every step is: a turn that begins, records and finishes only what   *)
(* was its turn.                                                            *)

Alike(i, t) == i.node = t.node /\ i.iteration = t.iteration

Moves(t, New) ==
    /\ Turn(t, New) /\ Fresh(t, New)
    /\ DOMAIN records \subseteq DOMAIN records' /\ Begun \subseteq Begun'
    /\ \A j \in Begun' : j \in Begun \/ (Alike(j, t) /\ (t.op = "row" \/ t.node \notin abandoned))
    /\ \A i \in DOMAIN records' :
          i \in DOMAIN records \/ (Alike(i, t) /\ (t.op = "row" => i = Id(t.node, t.iteration, t.attempt)))
    /\ \A i \in DOMAIN records' : plan[i.node].block # "action" /\ records'[i].status = "succeeded" =>
          \/ i \in DOMAIN records /\ records[i].status = "succeeded"
          \/ Alike(i, t) /\ t.op = "leave" /\ New = {}
    /\ plan[t.node].block = "action" => \A n \in New : Opens(n, t) =>
          /\ DOMAIN records' = DOMAIN records /\ t.attempt \in Nat
          /\ Id(t.node, t.iteration, t.attempt) \notin DOMAIN records
          /\ n.iteration = Append(t.iteration, t.attempt)

LEMMA SequencedKeeps ==
    ASSUME ExecInv, ExecInv', Sequenced, NEW t, NEW New, Moves(t, New)
    PROVE  Sequenced'
<1>1. /\ TypeOK /\ Placed /\ RootFits /\ Nested /\ RowsClosed /\ Finished /\ NotBegun
      /\ Turn(t, New) /\ Fresh(t, New) /\ plan' = plan /\ t \in Pending /\ Replaced(t, New)
      /\ \A n \in New : Continues(n, t) \/ Opens(n, t)
  BY DEF ExecInv, Sequenced, Moves, Turn, Replaced
<1>2. Nested'
  BY <1>1, NestedKeeps
<1>3. NotBegun'
  <2>1. \A j \in Begun' : j \in Begun \/ (j.node = t.node /\ j.iteration = t.iteration)
    BY DEF Moves, Alike
  <2>2. QED
    BY <1>1, <2>1, NotBegunKeeps
<1>4. Finished'
  <2>1. \A i \in DOMAIN records' : plan[i.node].block # "action" /\ records'[i].status = "succeeded" =>
           \/ i \in DOMAIN records /\ records[i].status = "succeeded"
           \/ i.node = t.node /\ i.iteration = t.iteration /\ t.op = "leave" /\ New = {}
    BY DEF Moves, Alike
  <2>2. QED
    BY <1>1, <2>1, FinishedKeeps
<1>5. RowsClosed'
  <2>1. DOMAIN records' \subseteq InvocationIds
    BY <1>1 DEF ExecInv, TypeOK, InvocationIds
  <2>2. \A i \in DOMAIN records' : i \in DOMAIN records \/ (i.node = t.node /\ i.iteration = t.iteration)
    BY DEF Moves, Alike
  <2>3. plan[t.node].block = "action" => \A n \in New : Opens(n, t) =>
          /\ DOMAIN records' = DOMAIN records /\ t.attempt \in Nat
          /\ Id(t.node, t.iteration, t.attempt) \notin DOMAIN records
          /\ n.iteration = Append(t.iteration, t.attempt)
    BY DEF Moves
  <2>4. QED
    BY <1>1, <2>1, <2>2, <2>3, RowsClosedKeeps
<1>6. RootFits'
  <2>1. SUFFICES ASSUME NEW i \in (Due \cup Begun)', i.node = 1 PROVE i.iteration = <<>>
    BY DEF RootFits
  <2>2. t.node = 1 => t.iteration = <<>>
    BY <1>1, PendingDeep DEF RootFits
  <2>3. CASE i \in Begun'
    BY <1>1, <2>1, <2>2, <2>3 DEF Moves, Alike, RootFits
  <2>4. CASE i \in Due'
    <3>1. PICK s \in AllSteps' : s.op = "enter" /\ i = First(s.node, s.iteration)
      BY <2>4 DEF Due, EnterSteps, First, Id
    <3>2. PICK x \in Pending' : x.op = s.op /\ x.node = s.node /\ x.iteration = s.iteration
      BY PendingAllNext DEF PendingCovers
    <3>3. x.node = 1 /\ i.iteration = x.iteration
      BY <2>1, <3>1, <3>2 DEF First, Id
    <3>4. CASE x \in Pending
      BY <1>1, <3>3, <3>4, PendingDeep DEF RootFits
    <3>5. CASE x \in New /\ Continues(x, t)
      BY <2>2, <3>3, <3>5 DEF Continues
    <3>6. CASE x \in New /\ Opens(x, t)
      BY <3>3, <3>6 DEF Opens
    <3>7. QED
      BY <1>1, <3>4, <3>5, <3>6 DEF Replaced
  <2>5. QED
    BY <2>1, <2>3, <2>4
<1>7. QED
  BY <1>2, <1>3, <1>4, <1>5, <1>6 DEF Sequenced

LEMMA TakingMoves ==
    ASSUME ExecInv, at = "step", queue # <<>>, NEW new \in Seq(StepSet),
           queue' = new \o Tail(queue), UNCHANGED <<at, unit>>, calls' = calls, plan' = plan,
           \/ DOMAIN records' = DOMAIN records
           \/ DOMAIN records' = DOMAIN records \cup {Here} /\ Here.node \notin abandoned,
           \A i \in DOMAIN records' : plan[i.node].block # "action" /\ records'[i].status = "succeeded" =>
              \/ i \in DOMAIN records /\ records[i].status = "succeeded"
              \/ i = Here /\ Head(queue).op = "leave" /\ new = <<>>,
           \A k \in DOMAIN new : Continues(new[k], Head(queue)) \/ Opens(new[k], Head(queue)),
           \A k \in DOMAIN new : Opens(new[k], Head(queue)) =>
              /\ plan[Here.node].block # "action"
              /\ \A j \in Begun : ~(plan[j.node].parent = Here.node /\ j.iteration = new[k].iteration),
           \A j, k \in DOMAIN new : j < k => InOrderOf(new[j], new[k])
    PROVE  Moves(StepItem(Len(calls), Len(queue), Head(queue)), StepsAt(new))
<1> DEFINE s == Head(queue)
           t == StepItem(Len(calls), Len(queue), s)
<1>1. /\ TypeOK /\ Placed /\ queue \in Seq(StepSet) /\ Here \in InvocationIds
      /\ Here.node = s.node /\ Here.iteration = s.iteration /\ s \in StepSet
  BY StepsTyped, HereIs DEF ExecInv
<1>2. s.op \in {"enter", "leave", "iterate"}
  BY <1>1 DEF StepSet
<1>3. t.op = s.op /\ t.node = s.node /\ t.iteration = s.iteration
  BY DEF StepItem
<1>4. /\ Replaced(t, StepsAt(new))
      /\ \A j, k \in DOMAIN new : Higher(StepAt(new, j), StepAt(new, k)) => j < k
  BY <1>1, StepReplaced
<1>5. \A k \in DOMAIN new : /\ StepAt(new, k).op = new[k].op /\ StepAt(new, k).node = new[k].node
                            /\ StepAt(new, k).iteration = new[k].iteration /\ new[k].op # "row"
  <2>1. \A k \in DOMAIN new : new[k] \in StepSet
    BY ElementOfSeq, LenProperties
  <2>2. QED
    BY <2>1 DEF StepAt, StepItem, StepSet
<1>6. s = Head(queue)
  OBVIOUS
<1> HIDE DEF t, s
<1>7. \A k \in DOMAIN new : /\ Continues(StepAt(new, k), t) <=> Continues(new[k], s)
                            /\ Opens(StepAt(new, k), t) <=> Opens(new[k], s)
  <2>1. \A k \in DOMAIN new : Continues(StepAt(new, k), t) <=> Continues(new[k], s)
    BY <1>3, <1>5 DEF Continues
  <2>2. \A k \in DOMAIN new : Opens(StepAt(new, k), t) <=> Opens(new[k], s)
    <3> SUFFICES ASSUME NEW k \in DOMAIN new PROVE Opens(StepAt(new, k), t) <=> Opens(new[k], s)
      OBVIOUS
    <3> DEFINE x == StepAt(new, k)
               y == new[k]
    <3>1. x.op = y.op /\ x.node = y.node /\ x.iteration = y.iteration
      BY <1>5
    <3> HIDE DEF x, y
    <3>2. Opens(x, t) <=> Opens(y, s)
      BY <1>3, <3>1 DEF Opens
    <3>3. QED
      BY <3>2 DEF x, y
  <2>3. QED
    BY <2>1, <2>2
<1>8. ASSUME NEW j \in DOMAIN new, NEW k \in DOMAIN new, Higher(StepAt(new, j), StepAt(new, k))
      PROVE  InOrderOf(StepAt(new, j), StepAt(new, k))
  <2>1. InOrderOf(new[j], new[k])
    BY <1>4, <1>8
  <2>2. QED
    BY <1>5, <2>1 DEF InOrderOf, Around, Later
<1>9. Turn(t, StepsAt(new))
  <2>1. \A n \in StepsAt(new) : Continues(n, t) \/ Opens(n, t)
    BY <1>6, <1>7 DEF StepsAt
  <2>2. \A m, n \in StepsAt(new) : Higher(m, n) => InOrderOf(m, n)
    BY <1>8 DEF StepsAt
  <2>3. QED
    BY <1>4, <2>1, <2>2 DEF Turn
<1>10. Fresh(t, StepsAt(new))
  <2>1. SUFFICES ASSUME NEW k \in DOMAIN new, Opens(new[k], s)
                 PROVE  \A j \in Begun : ~(plan[j.node].parent = t.node /\ j.iteration = StepAt(new, k).iteration)
    BY <1>7 DEF Fresh, StepsAt
  <2>2. QED
    BY <1>1, <1>3, <1>5, <1>6, <2>1
<1>11. Active' = Active /\ Begun = DOMAIN records \cup Active /\ Begun' = DOMAIN records' \cup Active
  BY DEF Active, Rows, Begun
<1>12. Alike(Here, t)
  BY <1>1, <1>3 DEF Alike
<1>13. plan[t.node].block = "action" => \A n \in StepsAt(new) : ~Opens(n, t)
  BY <1>1, <1>3, <1>6, <1>7 DEF StepsAt
<1>14. new = <<>> => StepsAt(new) = {}
  <2>1. new = <<>> => DOMAIN new = {}
    BY LenProperties, EmptySeq
  <2>2. QED
    BY <2>1 DEF StepsAt
<1>15. \A i \in DOMAIN records' : plan[i.node].block # "action" /\ records'[i].status = "succeeded" =>
          \/ i \in DOMAIN records /\ records[i].status = "succeeded"
          \/ Alike(i, t) /\ t.op = "leave" /\ StepsAt(new) = {}
  BY <1>3, <1>6, <1>12, <1>14
<1>16. /\ DOMAIN records \subseteq DOMAIN records' /\ Begun \subseteq Begun'
       /\ \A i \in DOMAIN records' : i \in DOMAIN records \/ (Alike(i, t) /\ t.node \notin abandoned)
  BY <1>1, <1>3, <1>11, <1>12
<1>17. t.op # "row"
  BY <1>2, <1>3
<1>18. QED
  BY <1>9, <1>10, <1>11, <1>13, <1>15, <1>16, <1>17 DEF Moves, t, s

LEMMA BatchInOrder ==
    ASSUME IsPlan(plan), NEW t, t.node \in DOMAIN plan, t.iteration \in Seq(Nat),
           NEW first \in Seq(StepSet), Alone(first), NEW it, NEW c \in StepSet, c.node = t.node,
           \A s \in StepsOf(first) : Opens(s, t) /\ s.iteration = it,
           \/ plan[t.node].parallel
           \/ \A j, k \in DOMAIN first : first[j].node \in LaterSiblings(first[k].node) => k < j
    PROVE  /\ \A k \in DOMAIN (first \o <<c>>) : (first \o <<c>>)[k] = c \/ (first \o <<c>>)[k] \in StepsOf(first)
           /\ \A j, k \in DOMAIN (first \o <<c>>) : j < k => InOrderOf((first \o <<c>>)[j], (first \o <<c>>)[k])
<1> DEFINE new == first \o <<c>>
           n == Len(first)
<1>1. n \in Nat /\ DOMAIN first = 1..n
  BY LenProperties
<1>2. DOMAIN new = 1..(n + 1) /\ new[n + 1] = c /\ \A k \in 1..n : new[k] = first[k]
  <2>1. <<c>> \in Seq(StepSet) /\ Len(<<c>>) = 1 /\ <<c>>[1] = c
    OBVIOUS
  <2>2. /\ new \in Seq(StepSet) /\ Len(new) = n + Len(<<c>>)
        /\ \A k \in 1..(n + Len(<<c>>)) : new[k] = IF k <= n THEN first[k] ELSE <<c>>[k - n]
    BY <2>1, ConcatProperties
  <2>3. DOMAIN new = 1..Len(new)
    BY <2>2, LenProperties
  <2> HIDE DEF new, n
  <2>4. n + 1 \in 1..(n + 1) /\ ~(n + 1 <= n) /\ n + 1 - n = 1 /\ \A k \in 1..n : k \in 1..(n + 1) /\ k <= n
    BY <1>1
  <2>5. new[n + 1] = c
    <3> DEFINE j == n + 1
               b == <<c>>
    <3>1. b[1] = c /\ Len(b) = 1
      BY <2>1
    <3> HIDE DEF b
    <3>2. j \in 1..(n + Len(b)) /\ ~(j <= n) /\ j - n = 1
      BY <1>1, <2>4, <3>1
    <3> HIDE DEF j
    <3>3. new[j] = IF j <= n THEN first[j] ELSE b[j - n]
      BY <2>2, <3>2 DEF b
    <3>4. QED
      BY <3>1, <3>2, <3>3 DEF j
  <2>6. \A k \in 1..n : new[k] = first[k]
    BY <2>1, <2>2, <2>4
  <2>7. QED
    BY <2>1, <2>2, <2>3, <2>5, <2>6
<1> HIDE DEF new, n
<1>3. \A k \in 1..n : first[k] \in StepsOf(first) /\ first[k].op = "enter"
  BY <1>1 DEF StepsOf, Opens
<1>4. c.op # "row"
  BY DEF StepSet
<1>5. ASSUME NEW j \in 1..n, NEW y, y.node = t.node, y.op # "row" PROVE InOrderOf(first[j], y)
  <2> DEFINE x == first[j]
  <2>1. Opens(x, t) /\ x.op = "enter" /\ x.node \in DOMAIN plan /\ plan[x.node].parent = t.node
    BY <1>3 DEF Opens
  <2> HIDE DEF x
  <2>2. x.node \notin Path[t.node]
    BY <2>1, OpensIs
  <2>3. ~Around(x, y)
    BY <1>5, <2>2 DEF Around
  <2>4. ~Later(x, y)
    BY <1>5, <2>1, FollowsIs DEF Later
  <2>5. QED
    BY <1>5, <2>3, <2>4 DEF InOrderOf, x
<1>6. ASSUME NEW j \in 1..n, NEW k \in 1..n, j < k PROVE InOrderOf(first[j], first[k])
  <2> DEFINE x == first[j]
             y == first[k]
  <2>1. /\ Opens(x, t) /\ x.op = "enter" /\ x.node \in DOMAIN plan /\ plan[x.node].parent = t.node
        /\ Opens(y, t) /\ y.op = "enter" /\ y.node \in DOMAIN plan /\ plan[y.node].parent = t.node
        /\ x.iteration = y.iteration /\ x.node # 1 /\ y.node # 1
    BY <1>3 DEF Opens
  <2>2. x.node # y.node
    BY <1>1, <1>6, <2>1 DEF Alone, SameStep
  <2>3. plan[t.node].parallel \/ x.node \notin LaterSiblings(y.node)
    BY <1>1, <1>6
  <2> HIDE DEF x, y
  <2>4. x.node \notin Path[t.node] /\ Path[y.node] = {y.node} \cup Path[t.node]
    BY <2>1, OpensIs
  <2>5. ~Around(x, y)
    BY <2>2, <2>4 DEF Around
  <2>6. ~Follows(x.node, y.node)
    <3>1. SUFFICES ASSUME Follows(x.node, y.node) PROVE FALSE
      OBVIOUS
    <3>2. ~plan[t.node].parallel /\ (x.node \in LaterSiblings(y.node) \/ Follows(x.node, t.node))
      BY <2>1, <3>1, FollowsIs
    <3>3. ~Follows(x.node, t.node)
      BY <2>1, FollowsIs
    <3>4. QED
      BY <2>3, <3>2, <3>3
  <2>7. QED
    BY <2>1, <2>5, <2>6 DEF InOrderOf, Later, x, y
<1>7. ASSUME NEW j \in 1..(n + 1), NEW k \in 1..(n + 1), j < k PROVE InOrderOf(new[j], new[k])
  <2>1. j \in 1..n /\ new[j] = first[j]
    BY <1>1, <1>2, <1>7
  <2>2. CASE k = n + 1
    BY <1>2, <1>4, <1>5, <2>1, <2>2
  <2>3. CASE k # n + 1
    <3>1. k \in 1..n /\ new[k] = first[k]
      BY <1>1, <1>2, <2>3
    <3>2. QED
      BY <1>6, <1>7, <2>1, <3>1
  <2>4. QED
    BY <2>2, <2>3
<1>8. \A k \in 1..(n + 1) : new[k] = c \/ new[k] \in StepsOf(first)
  <2>1. \A k \in 1..(n + 1) : k = n + 1 \/ k \in 1..n
    BY <1>1
  <2>2. QED
    BY <1>2, <1>3, <2>1
<1>9. QED
  BY <1>2, <1>7, <1>8 DEF new

-----------------------------------------------------------------------------
(* Each action is such a turn.                                              *)

Moved == \E t, New : Moves(t, New)

\* A step is taken and nothing put in its place.
LEMMA LeftOutMoves ==
    ASSUME ExecInv,
           \/ Pass \/ Skip \/ FaultWhen \/ FaultLoop \/ LeaveContainer
           \/ Iterate /\ Head(queue).index = Head(queue).of
    PROVE  Moved
<1> DEFINE new == <<>>
           h == Here
<1>1. /\ at = "step" /\ queue # <<>> /\ queue' = Tail(queue) /\ UNCHANGED <<at, unit>> /\ calls' = calls /\ plan' = plan
      /\ \/ records' = records
         \/ h.node \notin abandoned /\ \E status \in Statuses \ {"succeeded"} : records' = Put(records, h, Bare(status))
         \/ Head(queue).op = "leave" /\ records' = [records EXCEPT ![h].status = "succeeded"]
  BY DEF Pass, Skip, FaultWhen, FaultLoop, LeaveContainer, Iterate, Taking, Entering, Statuses, SameRun, SamePlan
<1> HIDE DEF h
<1>2. queue \in Seq(StepSet)
  BY StepsTyped DEF ExecInv
<1>3. queue' = new \o Tail(queue) /\ new \in Seq(StepSet) /\ DOMAIN new = {}
  BY <1>1, <1>2, TailSteps, ConcatEmptySeq
<1>4. /\ DOMAIN records' = DOMAIN records \/ (DOMAIN records' = DOMAIN records \cup {h} /\ h.node \notin abandoned)
      /\ \A i \in DOMAIN records' : plan[i.node].block # "action" /\ records'[i].status = "succeeded" =>
            \/ i \in DOMAIN records /\ records[i].status = "succeeded"
            \/ i = h /\ Head(queue).op = "leave"
  <2>1. CASE records' = records
    BY <2>1
  <2>2. CASE h.node \notin abandoned /\ \E status \in Statuses \ {"succeeded"} : records' = Put(records, h, Bare(status))
    <3>1. PICK status \in Statuses \ {"succeeded"} : records' = Put(records, h, Bare(status))
      BY <2>2
    <3>2. Bare(status).status # "succeeded"
      BY <3>1 DEF Bare, Result
    <3> DEFINE b == Bare(status)
    <3> HIDE DEF b
    <3>3. DOMAIN records' = DOMAIN records \cup {h} /\ \A i \in DOMAIN records' : records'[i] = IF i = h THEN b ELSE records[i]
      BY <3>1 DEF Put, PutAll, b
    <3>4. QED
      BY <2>2, <3>2, <3>3 DEF b
  <2>3. CASE Head(queue).op = "leave" /\ records' = [records EXCEPT ![h].status = "succeeded"]
    <3>1. DOMAIN records' = DOMAIN records /\ \A i \in DOMAIN records : i # h => records'[i] = records[i]
      BY <2>3
    <3>2. QED
      BY <2>3, <3>1
  <2>4. QED
    BY <1>1, <2>1, <2>2, <2>3
<1> HIDE DEF new
<1>5. new = <<>>
  BY DEF new
<1>6. Moves(StepItem(Len(calls), Len(queue), Head(queue)), StepsAt(new))
  BY <1>1, <1>3, <1>4, <1>5, TakingMoves DEF h
<1>7. QED
  BY <1>6 DEF Moved

LEMMA EnterContainerMoves ==
    ASSUME ExecInv, EnterContainer PROVE Moved
<1>1. /\ Taking("enter") /\ UNCHANGED <<at, unit, abandoned>> /\ SameRun /\ SamePlan
      /\ plan[Here.node].block \in {"unit", "if", "else"} /\ Here.node \notin abandoned
      /\ records' = Put(records, Here, Bare("running")) /\ plan' = plan
  BY DEF EnterContainer, Entering, SamePlan
<1>2. TypeOK /\ Placed /\ at = "step" /\ queue # <<>> /\ IsPlan(plan) /\ MaxItems \in Nat
      /\ interleaving \in Interleavings /\ calls' = calls
  BY <1>1, PlanIs DEF ExecInv, Taking, SameRun
<1> DEFINE n == Here.node
           it == Here.iteration
           c == LeaveStep(n, it)
           s == Head(queue)
<1>3. /\ n \in DOMAIN plan /\ it \in Seq(Nat) /\ Here = First(n, it) /\ Here \notin Begun
      /\ s.node = n /\ s.iteration = it /\ s.op = "enter"
  BY <1>1, <1>2, HereIs DEF Taking
<1> HIDE DEF n, it
<1>4. PICK pick \in Picks(n) :
         queue' = (IF plan[n].parallel THEN Ordered(Enters(Selected(n, pick), it)) ELSE Enters(Selected(n, pick), it))
                     \o <<c>> \o Tail(queue)
  BY DEF EnterContainer, n, it
<1> DEFINE batch == Enters(Selected(n, pick), it)
           first == IF plan[n].parallel THEN Ordered(batch) ELSE batch
           new == first \o <<c>>
<1>5. /\ batch \in Seq(StepSet) /\ Alone(batch)
      /\ \A b \in StepsOf(batch) :
            /\ b.op = "enter" /\ b.iteration = it /\ b.node \in DOMAIN plan
            /\ b.node # 1 /\ b.node # n /\ plan[b.node].parent = n
      /\ \A j, k \in DOMAIN batch : batch[j].node \in LaterSiblings(batch[k].node) => k < j
  <2>1. /\ batch \in Seq(StepSet) /\ Alone(batch)
        /\ \A b \in StepsOf(batch) :
              /\ b.op = "enter" /\ b.iteration = it /\ b.node \in DOMAIN plan
              /\ b.node # 1 /\ b.node # n /\ plan[b.node].parent = n
    BY <1>2, <1>3, EntersIs
  <2>2. \A j, k \in DOMAIN batch : batch[j].node \in LaterSiblings(batch[k].node) => k < j
    BY <1>2, <1>3, EntersWhole
  <2>3. QED
    BY <2>1, <2>2
<1> HIDE DEF batch
<1>6. first \in Seq(StepSet) /\ Alone(first) /\ StepsOf(first) \subseteq StepsOf(batch)
  BY <1>2, <1>5, OrderedIs
<1>7. \/ plan[n].parallel
      \/ \A j, k \in DOMAIN first : first[j].node \in LaterSiblings(first[k].node) => k < j
  BY <1>5
<1>8. c \in StepSet /\ c.op = "leave" /\ c.node = n /\ c.iteration = it
  <2>1. LeaveStep(n, it) \in StepSet
    BY <1>2, <1>3, EnterStepIs
  <2>2. QED
    BY <2>1 DEF LeaveStep, EnterStep
<1> HIDE DEF c, first
<1>9. plan[n].block \notin DeepBlocks
  BY <1>1 DEF n, DeepBlocks
<1> HIDE DEF s
<1>10. \A b \in StepsOf(first) : Opens(b, s) /\ b.iteration = it
  BY <1>3, <1>5, <1>6, <1>9 DEF Opens
<1>11. /\ \A k \in DOMAIN new : new[k] = c \/ new[k] \in StepsOf(first)
       /\ \A j, k \in DOMAIN new : j < k => InOrderOf(new[j], new[k])
  BY <1>2, <1>3, <1>6, <1>7, <1>8, <1>10, BatchInOrder
<1>12. new \in Seq(StepSet)
  <2>1. <<c>> \in Seq(StepSet)
    BY <1>8
  <2>2. QED
    BY <1>6, <2>1, ConcatProperties
<1>13. queue' = new \o Tail(queue)
  BY <1>4 DEF first, batch, c
<1>14. DOMAIN records' = DOMAIN records \cup {Here}
  BY <1>1 DEF Put, PutAll
<1>15. \A i \in DOMAIN records' : plan[i.node].block # "action" /\ records'[i].status = "succeeded" =>
          i \in DOMAIN records /\ records[i].status = "succeeded"
  <2> DEFINE h == Here
             r == Bare("running")
  <2>1. r.status # "succeeded"
    BY DEF Bare, Result
  <2>2. records' = Put(records, h, r)
    BY <1>1
  <2> HIDE DEF h, r
  <2>3. DOMAIN records' = DOMAIN records \cup {h} /\ \A i \in DOMAIN records' : records'[i] = IF i = h THEN r ELSE records[i]
    BY <2>2 DEF Put, PutAll
  <2>4. QED
    BY <2>1, <2>3
<1>16. \A k \in DOMAIN new : Continues(new[k], s) \/ Opens(new[k], s)
  BY <1>3, <1>8, <1>10, <1>11 DEF Continues
<1>17. \A k \in DOMAIN new : Opens(new[k], s) =>
          /\ plan[Here.node].block # "action"
          /\ \A j \in Begun : ~(plan[j.node].parent = Here.node /\ j.iteration = new[k].iteration)
  <2>1. SUFFICES ASSUME NEW k \in DOMAIN new, Opens(new[k], s), NEW j \in Begun,
                        plan[j.node].parent = n, j.iteration = new[k].iteration
                 PROVE  FALSE
    BY <1>1, <1>9 DEF n
  <2>2. j.iteration = it
    BY <1>3, <1>9, <2>1 DEF Opens
  <2>3. Came(j.node, it)
    BY <1>2, <2>1, <2>2 DEF Placed, AllCame
  <2>4. j.node \in DOMAIN plan
    BY <1>2, <2>1, KnownTyped
  <2>5. j.node # 1
    BY <1>2, <1>3, <2>1, PathOf DEF IsPlan
  <2>6. First(n, it) \in DOMAIN records
    BY <1>1, <2>1, <2>3, <2>5 DEF Came, n
  <2>7. QED
    BY <1>3, <2>6 DEF Begun
<1> HIDE DEF new
<1>18. Moves(StepItem(Len(calls), Len(queue), Head(queue)), StepsAt(new))
  BY <1>1, <1>2, <1>11, <1>12, <1>13, <1>14, <1>15, <1>16, <1>17, TakingMoves DEF s
<1>19. QED
  BY <1>18 DEF Moved

LEMMA EnterLoopMoves ==
    ASSUME ExecInv, EnterLoop PROVE Moved
<1>1. /\ Taking("enter") /\ UNCHANGED <<at, unit, events, abandoned>> /\ calls' = calls /\ plan' = plan
      /\ plan[Here.node].block = "loop" /\ Here.node \notin abandoned
      /\ records' = Put(records, Here, Bare("running"))
  BY DEF EnterLoop, Entering, SameRun, SamePlan
<1>2. TypeOK /\ Placed /\ at = "step" /\ queue # <<>> /\ IsPlan(plan) /\ MaxItems \in Nat
  BY <1>1, PlanIs DEF ExecInv, Taking
<1> DEFINE n == Here.node
           it == Here.iteration
           s == Head(queue)
<1>3. /\ n \in DOMAIN plan /\ it \in Seq(Nat) /\ s.node = n /\ s.iteration = it /\ s.op = "enter"
  BY <1>1, <1>2, HereIs DEF Taking
<1> HIDE DEF n, it
<1>4. PICK m \in 0..MaxItems : queue' = <<IterateStep(n, it, m, 0), LeaveStep(n, it)>> \o Tail(queue)
  BY DEF EnterLoop, n, it
<1> DEFINE a == IterateStep(n, it, m, 0)
           b == LeaveStep(n, it)
           new == <<a, b>>
<1>5. /\ a \in StepSet /\ a.op = "iterate" /\ a.node = n /\ a.iteration = it
      /\ b \in StepSet /\ b.op = "leave" /\ b.node = n /\ b.iteration = it
  <2>1. 0 \in 0..MaxItems
    BY <1>2
  <2>2. /\ LeaveStep(n, it) \in StepSet /\ LeaveStep(n, it).op = "leave"
        /\ IterateStep(n, it, m, 0) \in StepSet /\ IterateStep(n, it, m, 0).op = "iterate"
        /\ First(LeaveStep(n, it).node, LeaveStep(n, it).iteration) = First(n, it)
        /\ First(IterateStep(n, it, m, 0).node, IterateStep(n, it, m, 0).iteration) = First(n, it)
    BY <1>2, <1>3, <2>1, EnterStepIs
  <2>3. QED
    BY <2>2, FirstIs
<1> HIDE DEF a, b, s
<1>6. new \in Seq(StepSet) /\ DOMAIN new = {1, 2} /\ new[1] = a /\ new[2] = b
  BY <1>5
<1>7. queue' = new \o Tail(queue)
  BY <1>4 DEF a, b
<1> HIDE DEF new
<1>8. InOrderOf(a, b)
  BY <1>2, <1>3, <1>5, FollowsIs, PathOf DEF InOrderOf, Later
<1>9. \A j, k \in DOMAIN new : j < k => InOrderOf(new[j], new[k])
  <2>1. \A j, k \in DOMAIN new : j < k => j = 1 /\ k = 2
    BY <1>6
  <2>2. QED
    BY <1>6, <1>8, <2>1
<1>10. \A k \in DOMAIN new : Continues(new[k], s) /\ ~Opens(new[k], s)
  BY <1>3, <1>5, <1>6 DEF Continues, Opens
<1>11. DOMAIN records' = DOMAIN records \cup {Here}
  BY <1>1 DEF Put, PutAll
<1>12. \A i \in DOMAIN records' : plan[i.node].block # "action" /\ records'[i].status = "succeeded" =>
          i \in DOMAIN records /\ records[i].status = "succeeded"
  <2> DEFINE h == Here
             r == Bare("running")
  <2>1. r.status # "succeeded"
    BY DEF Bare, Result
  <2>2. records' = Put(records, h, r)
    BY <1>1
  <2> HIDE DEF h, r
  <2>3. DOMAIN records' = DOMAIN records \cup {h} /\ \A i \in DOMAIN records' : records'[i] = IF i = h THEN r ELSE records[i]
    BY <2>2 DEF Put, PutAll
  <2>4. QED
    BY <2>1, <2>3
<1>13. Moves(StepItem(Len(calls), Len(queue), Head(queue)), StepsAt(new))
  BY <1>1, <1>2, <1>6, <1>7, <1>9, <1>10, <1>11, <1>12, TakingMoves DEF s
<1>14. QED
  BY <1>13 DEF Moved

\* The instances of a loop come one after the other.
LEMMA IterateMoves ==
    ASSUME ExecInv, Iterate, Head(queue).index # Head(queue).of PROVE Moved
<1> DEFINE step == Head(queue)
           n == step.node
           h == step.iteration
           k == step.index
           inside == Append(h, k)
           next == [step EXCEPT !.index = @ + 1]
<1>1. /\ Taking("iterate") /\ UNCHANGED <<at, unit, records, abandoned>> /\ plan' = plan
      /\ at = "step" /\ queue # <<>> /\ step.op = "iterate" /\ calls' = calls
  BY DEF Iterate, Taking, SameRun, SamePlan
<1>2. /\ TypeOK /\ Placed /\ IsPlan(plan) /\ MaxItems \in Nat /\ queue \in Seq(StepSet)
      /\ AllSteps \subseteq StepSet
  BY PlanIs, StepsTyped DEF ExecInv
<1>3. /\ step \in AllSteps /\ step \in StepSet /\ n \in DOMAIN plan /\ h \in Seq(Nat) /\ k \in Nat
      /\ Here.node = n /\ inside \in Seq(Nat)
  BY <1>1, <1>2, HereIs, StepIs
<1>4. plan[n].block = "loop" /\ step.index <= step.of
  BY <1>1, <1>2, <1>3 DEF Placed, StepsFit
<1>5. PICK pick \in Picks(n) : queue' = Enters(Selected(n, pick), inside) \o <<next>> \o Tail(queue)
  BY DEF Iterate
<1> DEFINE batch == Enters(Selected(n, pick), inside)
           new == batch \o <<next>>
<1>6. next \in StepSet /\ next.op = "iterate" /\ next.node = n /\ next.iteration = h
  <2>1. k + 1 \in 0..MaxItems
    <3>1. step.of \in 0..MaxItems /\ k \in 0..MaxItems
      BY <1>3 DEF StepSet
    <3>2. QED
      BY <1>2, <1>4, <3>1
  <2>2. step \in StepSet
    BY <1>3
  <2>3. QED
    BY <1>1, <2>1, <2>2 DEF StepSet
<1> HIDE DEF n, h, k, inside, next
<1>7. /\ batch \in Seq(StepSet) /\ Alone(batch)
      /\ \A b \in StepsOf(batch) :
            /\ b.op = "enter" /\ b.iteration = inside /\ b.node \in DOMAIN plan
            /\ b.node # 1 /\ b.node # n /\ plan[b.node].parent = n
      /\ \A i, j \in DOMAIN batch : batch[i].node \in LaterSiblings(batch[j].node) => j < i
  <2>1. /\ batch \in Seq(StepSet) /\ Alone(batch)
        /\ \A b \in StepsOf(batch) :
              /\ b.op = "enter" /\ b.iteration = inside /\ b.node \in DOMAIN plan
              /\ b.node # 1 /\ b.node # n /\ plan[b.node].parent = n
    BY <1>2, <1>3, EntersIs
  <2>2. \A i, j \in DOMAIN batch : batch[i].node \in LaterSiblings(batch[j].node) => j < i
    BY <1>2, <1>3, EntersWhole
  <2>3. QED
    BY <2>1, <2>2
<1> HIDE DEF batch
<1>8. step.node = n /\ step.iteration = h /\ \E m \in Nat : inside = Append(h, m)
  BY <1>3 DEF n, h, inside
<1> HIDE DEF step
<1>9. \A b \in StepsOf(batch) : Opens(b, step) /\ b.iteration = inside
  BY <1>4, <1>7, <1>8 DEF Opens, DeepBlocks
<1>10. /\ \A j \in DOMAIN new : new[j] = next \/ new[j] \in StepsOf(batch)
       /\ \A i, j \in DOMAIN new : i < j => InOrderOf(new[i], new[j])
  BY <1>2, <1>3, <1>6, <1>7, <1>8, <1>9, BatchInOrder
<1>11. new \in Seq(StepSet)
  <2>1. <<next>> \in Seq(StepSet)
    BY <1>6
  <2>2. QED
    BY <1>7, <2>1, ConcatProperties
<1>12. queue' = new \o Tail(queue)
  BY <1>5 DEF batch
<1>13. \A j \in DOMAIN new : Continues(new[j], step) \/ Opens(new[j], step)
  BY <1>6, <1>8, <1>9, <1>10 DEF Continues
<1>14. \A j \in DOMAIN new : Opens(new[j], step) => new[j].iteration = inside
  BY <1>6, <1>9, <1>10 DEF Opens
<1>15. ASSUME NEW j \in Begun, plan[j.node].parent = n, j.iteration = inside PROVE FALSE
  <2>1. Came(j.node, inside)
    BY <1>2, <1>15 DEF Placed, AllCame
  <2>2. j.node \in DOMAIN plan
    BY <1>2, KnownTyped
  <2>3. j.node # 1
    BY <1>2, <1>3, <1>15, PathOf DEF IsPlan
  <2>4. PICK g \in Seq(Nat), m \in Nat :
           /\ inside = Append(g, m)
           /\ \A t \in AllSteps : t.op = "iterate" /\ t.node = n /\ t.iteration = g => m < t.index
    BY <1>4, <1>15, <2>1, <2>3 DEF Came
  <2>5. g = h /\ m = k
    BY <1>3, <2>4, AppendedIs DEF inside
  <2>6. k < k
    BY <1>1, <1>3, <1>8, <2>4, <2>5 DEF k
  <2>7. QED
    BY <1>3, <2>6
<1>16. \A j \in DOMAIN new : Opens(new[j], step) =>
          /\ plan[Here.node].block # "action"
          /\ \A i \in Begun : ~(plan[i.node].parent = Here.node /\ i.iteration = new[j].iteration)
  BY <1>3, <1>4, <1>14, <1>15
<1> HIDE DEF new
<1>17. DOMAIN records' = DOMAIN records /\ \A i \in DOMAIN records' : records'[i] = records[i]
  BY <1>1
<1>18. Moves(StepItem(Len(calls), Len(queue), Head(queue)), StepsAt(new))
  BY <1>1, <1>10, <1>11, <1>12, <1>13, <1>16, <1>17, TakingMoves DEF step
<1>19. QED
  BY <1>18 DEF Moved

LEMMA BeginActionMoves ==
    ASSUME ExecInv, BeginAction PROVE Moved
<1> DEFINE t == StepItem(Len(calls), Len(queue), Head(queue))
           m == RowItem(Len(calls), Len(queue), Here)
<1>1. /\ at = "step" /\ at' = "attempt" /\ queue # <<>> /\ calls' = calls /\ queue' = Tail(queue) /\ unit' = Here
      /\ plan' = plan /\ records' = records /\ Here.node \notin abandoned /\ Head(queue).op = "enter"
  BY DEF BeginAction, Entering, Taking, SameRun, SamePlan
<1>2. Replaced(t, {m})
  BY <1>1, BegunReplaced DEF ExecInv
<1>3. /\ t.op = "enter" /\ t.node = Here.node /\ t.iteration = Here.iteration
      /\ m.op = "row" /\ m.node = Here.node /\ m.iteration = Here.iteration
  BY <1>1, HereIs DEF ExecInv, StepItem, RowItem
<1>4. ~Higher(m, m)
  <2>1. m.level \in Nat /\ m.height \in Nat
    BY StepsTyped, LenProperties DEF ExecInv, RowItem
  <2>2. QED
    BY <2>1 DEF Higher
<1>5. Begun = DOMAIN records \cup Rows /\ Begun' = DOMAIN records \cup Rows \cup {Here}
  BY <1>1 DEF Begun, Active, Rows
<1> HIDE DEF t, m
<1>6. Continues(m, t) /\ ~Opens(m, t) /\ Alike(Here, t)
  BY <1>3 DEF Continues, Opens, Alike
<1>7. Turn(t, {m}) /\ Fresh(t, {m})
  BY <1>1, <1>2, <1>4, <1>6 DEF Turn, Fresh
<1>8. Moves(t, {m})
  BY <1>1, <1>3, <1>5, <1>6, <1>7 DEF Moves
<1>9. QED
  BY <1>8 DEF Moved

\* What the end of an attempt, or what becomes of it, does to the records.
Writes(u) ==
    /\ DOMAIN records' = DOMAIN records \cup {u}
    /\ \A i \in DOMAIN records :
          /\ records'[i].phase = records[i].phase /\ records'[i].effect = records[i].effect
          /\ \/ records'[i].status = records[i].status
             \/ records[i].status = "running" /\ records'[i].status # "succeeded" /\ (records'[i].status = "failed" => i = u)

LEMMA OutcomeWrites ==
    ASSUME NEW u, u \notin DOMAIN records, NEW effect, NEW sent,
           Succeeds(u, effect, sent) \/ \E phase : HasFailed(u, phase, effect, sent)
    PROVE  /\ Writes(u) /\ at' \in {"step", "handle"}
           /\ records'[u].effect = effect /\ records'[u].status \in {"succeeded", "running"}
           /\ records'[u].status = "running" <=> at' = "handle"
           /\ \A e \in DOMAIN events : e # u => e \in DOMAIN events' /\ (events[e] = "recovered" => events'[e] = "recovered")
<1>1. PICK r : /\ records' = Put(records, u, r) /\ r.effect = effect /\ r.status \in {"succeeded", "running"}
               /\ at' \in {"step", "handle"} /\ (r.status = "running" <=> at' = "handle")
               /\ events' \in {events, Recovering(u), Put(events, u, "pending")}
  <2>1. \A st, ph, ef, se : Result(st, ph, ef, se).status = st /\ Result(st, ph, ef, se).effect = ef
    BY DEF Result
  <2>2. CASE Succeeds(u, effect, sent)
    BY <2>1, <2>2 DEF Succeeds
  <2>3. CASE \E phase : HasFailed(u, phase, effect, sent)
    <3>1. PICK phase, raised : Fails(u, phase, effect, sent, raised)
      BY <2>3 DEF HasFailed
    <3>2. records' = Put(records, u, Result("running", phase, effect, sent)) /\ at' = "handle"
          /\ events' \in {events, Recovering(u), Put(events, u, "pending")}
      BY <3>1 DEF Fails
    <3>3. QED
      BY <2>1, <3>2
  <2>4. QED
    BY <2>2, <2>3
<1>2. /\ DOMAIN records' = DOMAIN records \cup {u} /\ records'[u] = r
      /\ \A i \in DOMAIN records : records'[i] = records[i]
  BY <1>1 DEF Put, PutAll
<1>3. \A e \in DOMAIN events : e # u => e \in DOMAIN events' /\ (events[e] = "recovered" => events'[e] = "recovered")
  <2>1. CASE events' = events
    BY <2>1
  <2>2. CASE events' = Recovering(u)
    BY <2>2 DEF Recovering
  <2>3. CASE events' = Put(events, u, "pending")
    BY <2>3 DEF Put, PutAll
  <2>4. QED
    BY <1>1, <2>1, <2>2, <2>3
<1>4. QED
  BY <1>1, <1>2, <1>3 DEF Writes

LEMMA AttemptMoves ==
    ASSUME ExecInv, at # "step", queue' = queue, calls' = calls, plan' = plan, Writes(unit),
           \/ at' = "step"
           \/ at' = "handle" /\ unit' = unit
           \/ at' = "attempt" /\ at = "handle" /\ unit' = Again(unit)
    PROVE  Moved
<1> DEFINE t == RowItem(Len(calls), Len(queue) + 1, unit)
           m == RowItem(Len(calls), Len(queue) + 1, unit')
           New == IF at' = "step" THEN {} ELSE {m}
<1>1. Replaced(t, New)
  BY AttemptReplaced DEF ExecInv
<1>2. unit \in InvocationIds /\ unit = Id(unit.node, unit.iteration, unit.attempt) /\ plan[unit.node].block = "action"
      /\ Again(unit).node = unit.node /\ Again(unit).iteration = unit.iteration
  BY BegunTyped, IdIs DEF ExecInv, Placed, UnitFits, Active
<1>3. at' # "step" => unit'.node = unit.node /\ unit'.iteration = unit.iteration
  BY <1>2
<1>4. /\ t.op = "row" /\ t.node = unit.node /\ t.iteration = unit.iteration /\ t.attempt = unit.attempt
      /\ m.op = "row" /\ m.node = unit'.node /\ m.iteration = unit'.iteration
  BY DEF RowItem
<1>5. ~Higher(m, m)
  <2>1. m.level \in Nat /\ m.height \in Nat
    <3>1. Len(calls) \in Nat /\ Len(queue) \in Nat
      BY StepsTyped, LenProperties DEF ExecInv
    <3>2. QED
      BY <3>1 DEF RowItem
  <2>2. QED
    BY <2>1 DEF Higher
<1>6. /\ Begun = DOMAIN records \cup Rows \cup {unit}
      /\ Begun' = DOMAIN records \cup {unit} \cup Rows \cup (IF at' = "step" THEN {} ELSE {unit'})
  <2>1. Rows' = Rows
    BY DEF Rows
  <2>2. DOMAIN records' = DOMAIN records \cup {unit}
    BY DEF Writes
  <2>3. QED
    BY <2>1, <2>2 DEF Begun, Active
<1> HIDE DEF t, m
<1>7. \A n \in New : Continues(n, t) /\ ~Opens(n, t)
  BY <1>3, <1>4 DEF Continues, Opens
<1>8. Turn(t, New) /\ Fresh(t, New)
  BY <1>1, <1>5, <1>7 DEF Turn, Fresh
<1>9. Begun \subseteq Begun' /\ \A j \in Begun' : j \in Begun \/ Alike(j, t)
  BY <1>3, <1>4, <1>6 DEF Alike
<1>10. /\ DOMAIN records \subseteq DOMAIN records'
       /\ \A i \in DOMAIN records' : i \in DOMAIN records \/ i = unit
  BY DEF Writes
<1>11. Alike(unit, t) /\ unit = Id(t.node, t.iteration, t.attempt)
  BY <1>2, <1>4 DEF Alike
<1>12. \A i \in DOMAIN records' : plan[i.node].block # "action" /\ records'[i].status = "succeeded" =>
          i \in DOMAIN records /\ records[i].status = "succeeded"
  BY <1>2, <1>10 DEF Writes
<1>13. Moves(t, New)
  BY <1>4, <1>7, <1>8, <1>9, <1>10, <1>11, <1>12 DEF Moves
<1>14. QED
  BY <1>13 DEF Moved

LEMMA AttemptWrites ==
    ASSUME ExecInv, FailEarly \/ CompleteInside \/ AskHost \/ EndUnit
    PROVE  /\ at = "attempt" /\ StaysPut /\ unit \notin DOMAIN records \cup Rows /\ Writes(unit)
           /\ at' \in {"step", "handle"} /\ records'[unit].status \in {"succeeded", "running"}
           /\ records'[unit].status = "running" <=> at' = "handle"
           /\ \A e \in DOMAIN events : e # unit =>
                 e \in DOMAIN events' /\ (events[e] = "recovered" => events'[e] = "recovered")
<1>1. at = "attempt" /\ StaysPut /\ unit \notin DOMAIN records \cup Rows
  BY DEF ExecInv, Placed, UnitFits, FailEarly, CompleteInside, AskHost, EndUnit, Doing
<1>2. CASE \E effect, sent : Succeeds(unit, effect, sent) \/ \E phase : HasFailed(unit, phase, effect, sent)
  BY <1>1, <1>2, OutcomeWrites
<1>3. CASE \E i, st : /\ records[i].status = "running" /\ st \in {"stopped", "cancelled"}
                      /\ records' = Put([records EXCEPT ![i].status = st], unit,
                                        Result("succeeded", "none", "applied", "no"))
                      /\ events' = Recovering(unit) /\ at' = "step"
  <2>1. PICK i, st : /\ records[i].status = "running" /\ st \in {"stopped", "cancelled"}
                     /\ records' = Put([records EXCEPT ![i].status = st], unit,
                                       Result("succeeded", "none", "applied", "no"))
                     /\ events' = Recovering(unit) /\ at' = "step"
    BY <1>3
  <2> DEFINE m == [records EXCEPT ![i].status = st]
             r == Result("succeeded", "none", "applied", "no")
  <2>2. r.status = "succeeded"
    BY DEF Result
  <2>3. records' = Put(m, unit, r)
    BY <2>1
  <2>4. /\ DOMAIN m = DOMAIN records /\ \A x \in DOMAIN records : x # i => m[x] = records[x]
        /\ i \in DOMAIN records => /\ m[i].status = st /\ m[i].phase = records[i].phase
                                   /\ m[i].effect = records[i].effect
    <3>1. st \in Statuses
      BY <2>1 DEF Statuses
    <3>2. QED
      BY <2>1, <3>1, StatusIs DEF ExecInv
  <2> HIDE DEF m, r
  <2>5. /\ DOMAIN records' = DOMAIN m \cup {unit} /\ records'[unit] = r
        /\ \A x \in DOMAIN m : x # unit => records'[x] = m[x]
    BY <2>3 DEF Put, PutAll
  <2>6. Writes(unit)
    BY <1>1, <2>1, <2>4, <2>5 DEF Writes
  <2>7. \A e \in DOMAIN events : e \in DOMAIN events' /\ (events[e] = "recovered" => events'[e] = "recovered")
    BY <2>1 DEF Recovering
  <2>8. QED
    BY <1>1, <2>1, <2>2, <2>5, <2>6, <2>7
<1>4. QED
  <2>1. CASE FailEarly
    BY <1>2, <2>1 DEF FailEarly, HasFailed
  <2>2. CASE CompleteInside \/ AskHost
    BY <1>2, <2>2 DEF CompleteInside, AskHost, record_of, HasFailed
  <2>3. CASE EndUnit
    BY <1>2, <1>3, <2>3 DEF EndUnit, HasFailed
  <2>4. QED
    BY <2>1, <2>2, <2>3

\* What becomes of an attempt: its record is final, and it is over or made again.
LEMMA HandlingWrites ==
    ASSUME ExecInv, \/ NoEvent \/ NoMatch \/ HandlerRecovers \/ HandlerStops \/ HandlerFails
                    \/ RetryRefused \/ RetryExhausted \/ RetryGranted
    PROVE  /\ at = "handle" /\ queue' = queue /\ calls' = calls /\ plan' = plan /\ Writes(unit)
           /\ unit \in DOMAIN records /\ records'[unit].status # "succeeded"
           /\ \/ at' = "step" /\ unit' = unit
              \/ at' = "attempt" /\ unit' = Again(unit)
           /\ \A e \in DOMAIN events : e # unit =>
                 e \in DOMAIN events' /\ (events[e] = "recovered" => events'[e] = "recovered")
<1>1. PICK status \in {"failed", "stopped", "cancelled"} : Finalize(status)
  BY DEF NoEvent, NoMatch, HandlerRecovers, HandlerStops, HandlerFails, RetryRefused, RetryExhausted, RetryGranted,
     Unrecovered, Recovered
<1>2. /\ at = "handle" /\ queue' = queue /\ calls' = calls /\ plan' = plan
      /\ \/ at' = "step" /\ unit' = unit
         \/ at' = "attempt" /\ unit' = Again(unit)
      /\ \/ events' = events
         \/ \E d : events' = [events EXCEPT ![unit] = d]
  <2>1. CASE NoEvent \/ NoMatch \/ HandlerFails \/ RetryRefused \/ RetryExhausted
    BY <2>1 DEF NoEvent, NoMatch, HandlerFails, RetryRefused, RetryExhausted, Retrying, Selecting, Handling,
       SamePlan, Unrecovered, Dispose
  <2>2. CASE HandlerRecovers \/ HandlerStops
    BY <2>2 DEF HandlerRecovers, HandlerStops, Selecting, Handling, SamePlan, Recovered, Dispose
  <2>3. CASE RetryGranted
    BY <2>3 DEF RetryGranted, Retrying, Selecting, Handling, SamePlan, Dispose
  <2>4. QED
    BY <2>1, <2>2, <2>3
<1>3. unit \in DOMAIN records /\ records[unit].status = "running"
  BY <1>2 DEF ExecInv, Placed, UnitFits
<1>4. /\ DOMAIN records' = DOMAIN records /\ \A i \in DOMAIN records : i # unit => records'[i] = records[i]
      /\ records'[unit].status = status /\ records'[unit].phase = records[unit].phase
      /\ records'[unit].effect = records[unit].effect
  <2>1. status \in Statuses
    BY DEF Statuses
  <2>2. QED
    BY <1>1, <1>3, <2>1, StatusIs DEF ExecInv, Finalize
<1>5. Writes(unit)
  BY <1>3, <1>4 DEF Writes
<1>6. \A e \in DOMAIN events : e # unit =>
         e \in DOMAIN events' /\ (events[e] = "recovered" => events'[e] = "recovered")
  BY <1>2
<1>7. QED
  BY <1>2, <1>3, <1>4, <1>5, <1>6

LEMMA CallsAre ==
    /\ Rows = {c.row : c \in StepsOf(calls)}
    /\ AllSteps = StepsOf(queue) \cup UNION {StepsOf(c.outer) : c \in StepsOf(calls)}
BY DEF Rows, AllSteps, StepsOf

LEMMA CallsAreNext ==
    /\ Rows' = {c.row : c \in StepsOf(calls')}
    /\ AllSteps' = StepsOf(queue') \cup UNION {StepsOf(c.outer) : c \in StepsOf(calls')}
BY DEF Rows, AllSteps, StepsOf

\* The call that is set aside, and what it enters.
LEMMA DelegateIs ==
    ASSUME ExecInv, Delegate
    PROVE  LET c == [row |-> unit, outer |-> queue, before |-> DOMAIN records]
               s == EnterStep(plan[unit.node].target, Append(unit.iteration, unit.attempt))
           IN  /\ at = "attempt" /\ at' = "step" /\ calls' = <<c>> \o calls /\ queue' = <<s>> /\ plan' = plan
               /\ records' = records /\ events' = events /\ abandoned' = abandoned /\ halted' = halted
               /\ StepsOf(calls') = {c} \cup StepsOf(calls) /\ StepsOf(queue') = {s}
               /\ Rows' = Rows \cup {unit} /\ AllSteps' = AllSteps \cup {s}
               /\ unit \in InvocationIds /\ unit \notin DOMAIN records \cup Rows
               /\ plan[unit.node].block = "action"
               /\ s \in StepSet /\ s.op = "enter" /\ s.node \in DOMAIN plan /\ plan[s.node].parent = unit.node
               /\ s.node # 1 /\ s.iteration = Append(unit.iteration, unit.attempt)
<1> DEFINE c == [row |-> unit, outer |-> queue, before |-> DOMAIN records]
           n == unit.node
           target == plan[n].target
           inside == Append(unit.iteration, unit.attempt)
           s == EnterStep(target, inside)
<1>1. /\ at = "attempt" /\ plan[n].does \in {"execute", "test"} /\ at' = "step"
      /\ calls' = <<c>> \o calls /\ queue' = <<s>> /\ plan' = plan
      /\ records' = records /\ events' = events /\ abandoned' = abandoned /\ halted' = halted
  BY DEF Delegate, SamePlan
<1>2. /\ IsPlan(plan) /\ MaxItems \in Nat /\ queue \in Seq(StepSet) /\ calls \in Seq(CallSet)
      /\ unit \in InvocationIds /\ DOMAIN records \subseteq InvocationIds
  BY PlanIs, StepsTyped, BegunTyped DEF ExecInv, TypeOK
<1>3. n \in DOMAIN plan /\ inside \in Seq(Nat)
  BY <1>2, IdIs
<1>4. unit \notin DOMAIN records \cup Rows /\ plan[n].block = "action"
  BY <1>1 DEF ExecInv, Placed, UnitFits, Active
<1>5. target \in DOMAIN plan /\ plan[target].parent = n /\ target # 1
  <2>1. plan[n].children = <<target>>
    BY <1>1, <1>2, <1>3 DEF IsPlan
  <2>2. 1 \in DOMAIN plan[n].children /\ plan[n].children[1] = target
    BY <2>1
  <2> HIDE DEF n, target
  <2>3. QED
    BY <1>2, <1>3, <2>2, ChildIs
<1>6. s \in StepSet /\ s.op = "enter" /\ s.node = target /\ s.iteration = inside
  <2>1. 0 \in 0..MaxItems
    BY <1>2
  <2>2. QED
    BY <1>3, <1>5, <2>1 DEF EnterStep, StepSet
<1>7. c \in CallSet /\ c.row = unit /\ c.outer = queue
  BY <1>2 DEF CallSet
<1> HIDE DEF c, s, target, inside, n
<1>8. StepsOf(<<c>>) = {c} /\ StepsOf(<<s>>) = {s} /\ <<c>> \in Seq(CallSet)
  BY <1>6, <1>7, SingleIs
<1>9. StepsOf(calls') = {c} \cup StepsOf(calls)
  <2> DEFINE cs == <<c>>
  <2>1. cs \in Seq(CallSet) /\ StepsOf(cs) = {c} /\ calls' = cs \o calls
    BY <1>1, <1>8
  <2> HIDE DEF cs
  <2>2. StepsOf(cs \o calls) = StepsOf(cs) \cup StepsOf(calls)
    BY <1>2, <2>1, JoinedSteps
  <2>3. QED
    BY <2>1, <2>2
<1>10. Rows' = Rows \cup {unit}
  BY <1>7, <1>9, CallsAre, CallsAreNext
<1>11. AllSteps' = AllSteps \cup {s}
  <2>1. UNION {StepsOf(d.outer) : d \in StepsOf(calls')} = StepsOf(queue) \cup UNION {StepsOf(d.outer) : d \in StepsOf(calls)}
    BY <1>7, <1>9
  <2>2. StepsOf(queue') = {s}
    BY <1>1, <1>8
  <2>3. QED
    BY <2>1, <2>2, CallsAre, CallsAreNext
<1>12. /\ StepsOf(queue') = {s} /\ s.node \in DOMAIN plan /\ plan[s.node].parent = n /\ s.node # 1 /\ s.iteration = inside
  BY <1>1, <1>5, <1>6, <1>8
<1>13. QED
  BY <1>1, <1>2, <1>4, <1>6, <1>9, <1>10, <1>11, <1>12 DEF c, s, target, inside, n

LEMMA DelegateMoves ==
    ASSUME ExecInv, Delegate PROVE Moved
<1> DEFINE c == [row |-> unit, outer |-> queue, before |-> DOMAIN records]
           s == EnterStep(plan[unit.node].target, Append(unit.iteration, unit.attempt))
           t == RowItem(Len(calls), Len(queue) + 1, unit)
           n == StepItem(Len(calls) + 1, 1, s)
<1>1. /\ at = "attempt" /\ at' = "step" /\ calls' = <<c>> \o calls /\ queue' = <<s>> /\ plan' = plan
      /\ records' = records /\ Rows' = Rows \cup {unit}
      /\ unit \in InvocationIds /\ unit \notin DOMAIN records \cup Rows /\ plan[unit.node].block = "action"
      /\ s \in StepSet /\ s.op = "enter" /\ s.node \in DOMAIN plan /\ plan[s.node].parent = unit.node
      /\ s.node # 1 /\ s.iteration = Append(unit.iteration, unit.attempt)
  BY DelegateIs
<1>2. /\ IsPlan(plan) /\ TypeOK /\ Placed /\ DOMAIN records \subseteq InvocationIds
      /\ unit.node \in DOMAIN plan /\ unit.iteration \in Seq(Nat) /\ unit.attempt \in Nat
      /\ unit = Id(unit.node, unit.iteration, unit.attempt)
  BY <1>1, PlanIs, IdIs DEF ExecInv, TypeOK
<1> HIDE DEF s
<1>3. Replaced(t, {t, n})
  BY <1>1, <1>2, RowReplaced
<1>4. /\ t.op = "row" /\ t.node = unit.node /\ t.iteration = unit.iteration /\ t.attempt = unit.attempt
      /\ n.op = "enter" /\ n.node = s.node /\ n.iteration = s.iteration
      /\ t.level = Len(calls) /\ n.level = Len(calls) + 1
      /\ t.height = Len(queue) + 1 /\ n.height = 1
  BY <1>1 DEF RowItem, StepItem
<1>5. Len(calls) \in Nat /\ Len(queue) \in Nat
  BY <1>2, PendingPlaces
<1> HIDE DEF t, n
<1>6. Continues(t, t) /\ ~Opens(t, t)
  BY <1>4 DEF Continues, Opens
<1>7. Opens(n, t) /\ n.iteration = Append(t.iteration, t.attempt)
  BY <1>1, <1>2, <1>4 DEF Opens, DeepBlocks
<1>8. InOrderOf(n, t)
  <2>1. n.node \notin Path[t.node] /\ Path[n.node] = {n.node} \cup Path[t.node] /\ t.node \in Path[t.node] /\ n.node # t.node
    BY <1>2, <1>4, <1>7, OpensIs
  <2>2. ~Around(n, t)
    BY <2>1 DEF Around
  <2>3. ~Later(n, t)
    BY <1>1, <1>2, <1>4, FollowsIs DEF Later
  <2>4. n.iteration \in Seq(Nat)
    BY <1>2, <1>4, <1>7, AppendFacts
  <2>5. IsPrefixOf(n.iteration, n.iteration)
    BY <2>4, PrefixFacts
  <2>6. Within(t, n)
    BY <1>7, <2>1, <2>5 DEF Within
  <2>7. QED
    BY <2>2, <2>3, <2>6 DEF InOrderOf
<1>9. ~Higher(t, t) /\ ~Higher(n, n) /\ ~Higher(t, n)
  BY <1>4, <1>5 DEF Higher
<1>10. Turn(t, {t, n})
  BY <1>1, <1>3, <1>6, <1>7, <1>8, <1>9 DEF Turn
<1>11. Fresh(t, {t, n})
  <2>1. SUFFICES ASSUME NEW j \in Begun, plan[j.node].parent = unit.node,
                        j.iteration = Append(unit.iteration, unit.attempt)
                 PROVE  FALSE
    BY <1>4, <1>6, <1>7 DEF Fresh
  <2>2. Came(j.node, j.iteration)
    BY <1>2 DEF Placed, AllCame
  <2>3. j.node \in DOMAIN plan
    BY <1>2, KnownTyped
  <2>4. j.node # 1
    BY <1>2, <2>1, PathOf DEF IsPlan
  <2>5. PICK h \in Seq(Nat), k \in Nat :
           Append(unit.iteration, unit.attempt) = Append(h, k) /\ Id(unit.node, h, k) \in DOMAIN records \cup Rows
    BY <1>1, <2>1, <2>2, <2>4 DEF Came
  <2>6. h = unit.iteration /\ k = unit.attempt
    BY <1>2, <2>5, AppendedIs
  <2>7. QED
    BY <1>1, <1>2, <2>5, <2>6
<1>12. Begun' = Begun
  BY <1>1 DEF Begun, Active
<1>13. Id(t.node, t.iteration, t.attempt) \notin DOMAIN records /\ t.attempt \in Nat
  BY <1>1, <1>2, <1>4
<1>14. Moves(t, {t, n})
  BY <1>1, <1>6, <1>7, <1>10, <1>11, <1>12, <1>13 DEF Moves
<1>15. QED
  BY <1>14 DEF Moved

\* The row that returns, the record it gets, and what is still set aside.
LEMMA ReturnIs ==
    ASSUME ExecInv, Return
    PROVE  LET c == Head(calls)
           IN  /\ at = "step" /\ queue = <<>> /\ calls # <<>> /\ queue' = c.outer /\ calls' = Tail(calls)
               /\ unit' = c.row /\ plan' = plan /\ abandoned' = abandoned /\ halted' = halted
               /\ c.row \in Rows /\ c.row \notin DOMAIN records /\ c.row \in InvocationIds
               /\ plan[c.row.node].block = "action" /\ c \in StepsOf(calls)
               /\ StepsOf(calls') \subseteq StepsOf(calls) /\ Rows = Rows' \cup {c.row} /\ AllSteps' = AllSteps
               /\ Writes(c.row) /\ at' \in {"step", "handle"} /\ records'[c.row].status \in {"succeeded", "running"}
               /\ records'[c.row].status = "running" <=> at' = "handle"
               /\ \A e \in DOMAIN events : e # c.row =>
                     e \in DOMAIN events' /\ (events[e] = "recovered" => events'[e] = "recovered")
<1> DEFINE c == Head(calls)
<1>1. /\ at = "step" /\ queue = <<>> /\ calls # <<>> /\ queue' = c.outer /\ calls' = Tail(calls)
      /\ unit' = c.row /\ plan' = plan /\ abandoned' = abandoned /\ halted' = halted
  BY DEF Return, SamePlan
<1>2. calls \in Seq(CallSet) /\ Rows \subseteq InvocationIds /\ Placed /\ TypeOK
  BY StepsTyped, BegunTyped DEF ExecInv
<1>3. c \in StepsOf(calls) /\ StepsOf(calls) = {c} \cup StepsOf(calls')
  BY <1>1, <1>2, TailSteps
<1>4. \E effect : Succeeds(c.row, effect, "no") \/ \E phase : Fails(c.row, phase, effect, "no", FALSE)
  BY DEF Return
<1>5. StepsOf(queue) = {}
  BY <1>1 DEF StepsOf
<1> HIDE DEF c
<1>6. Rows = Rows' \cup {c.row} /\ c.row \in Rows
  BY <1>3, CallsAre, CallsAreNext
<1>7. AllSteps' = AllSteps
  <2>1. UNION {StepsOf(d.outer) : d \in StepsOf(calls)} = StepsOf(c.outer) \cup UNION {StepsOf(d.outer) : d \in StepsOf(calls')}
    BY <1>3
  <2>2. QED
    BY <1>1, <1>5, <2>1, CallsAre, CallsAreNext
<1>8. c.row \notin DOMAIN records /\ plan[c.row.node].block = "action" /\ c.row \in InvocationIds
  BY <1>2, <1>6 DEF Placed, RowsOnce, UnitFits, Active, Rows
<1>9. /\ Writes(c.row) /\ at' \in {"step", "handle"} /\ records'[c.row].status \in {"succeeded", "running"}
      /\ records'[c.row].status = "running" <=> at' = "handle"
      /\ \A e \in DOMAIN events : e # c.row =>
            e \in DOMAIN events' /\ (events[e] = "recovered" => events'[e] = "recovered")
  <2>1. PICK effect : Succeeds(c.row, effect, "no") \/ \E phase : HasFailed(c.row, phase, effect, "no")
    BY <1>4 DEF HasFailed
  <2>2. QED
    BY <1>8, <2>1, OutcomeWrites
<1>10. QED
  BY <1>1, <1>3, <1>6, <1>7, <1>8, <1>9 DEF c

LEMMA ReturnMoves ==
    ASSUME ExecInv, Return PROVE Moved
<1> DEFINE c == Head(calls)
           t == RowItem(Len(calls) - 1, Len(c.outer) + 1, c.row)
           New == IF at' = "step" THEN {} ELSE {t}
<1>1. /\ at = "step" /\ queue = <<>> /\ calls # <<>> /\ queue' = c.outer /\ calls' = Tail(calls)
      /\ unit' = c.row /\ plan' = plan
      /\ c.row \in Rows /\ c.row \notin DOMAIN records /\ c.row \in InvocationIds
      /\ plan[c.row.node].block = "action" /\ Rows = Rows' \cup {c.row} /\ Writes(c.row)
  BY ReturnIs
<1>2. Replaced(t, New)
  BY <1>1, ReturnReplaced DEF ExecInv
<1>3. c.row = Id(c.row.node, c.row.iteration, c.row.attempt)
  BY <1>1, IdIs
<1>4. /\ t.op = "row" /\ t.node = c.row.node /\ t.iteration = c.row.iteration /\ t.attempt = c.row.attempt
      /\ t.level = Len(calls) - 1 /\ t.height = Len(c.outer) + 1
  BY DEF RowItem
<1>5. ~Higher(t, t)
  <2>1. calls \in Seq(CallSet) /\ Len(calls) \in Nat /\ c \in CallSet
    BY <1>1, StepsTyped, AsideIs DEF ExecInv
  <2>2. Len(c.outer) \in Nat
    BY <2>1, StepItemsAre DEF CallSet
  <2>3. Len(calls) - 1 \in Int /\ Len(c.outer) + 1 \in Int
    BY <2>1, <2>2
  <2>4. QED
    BY <1>4, <2>3 DEF Higher
<1> HIDE DEF t, c
<1>6. Continues(t, t) /\ ~Opens(t, t)
  BY <1>4 DEF Continues, Opens
<1>7. Turn(t, New) /\ Fresh(t, New)
  BY <1>1, <1>2, <1>5, <1>6 DEF Turn, Fresh
<1>8. /\ Begun = DOMAIN records \cup Rows
      /\ Begun' = DOMAIN records \cup Rows
  BY <1>1 DEF Begun, Active, Writes
<1>9. Alike(c.row, t) /\ c.row = Id(t.node, t.iteration, t.attempt)
  BY <1>3, <1>4 DEF Alike
<1>10. \A i \in DOMAIN records' : i \in DOMAIN records \/ i = c.row
  BY <1>1 DEF Writes
<1>11. \A i \in DOMAIN records' : plan[i.node].block # "action" /\ records'[i].status = "succeeded" =>
          i \in DOMAIN records /\ records[i].status = "succeeded"
  BY <1>1, <1>10 DEF Writes
<1>12. DOMAIN records \subseteq DOMAIN records'
  BY <1>1 DEF Writes
<1>13. plan[t.node].block = "action" => \A n \in New : ~Opens(n, t)
  BY <1>6
<1>14. Moves(t, New)
  BY <1>4, <1>7, <1>8, <1>9, <1>10, <1>11, <1>12, <1>13 DEF Moves
<1>15. QED
  BY <1>14 DEF Moved

LEMMA NextMoves ==
    ASSUME ExecInv, Next PROVE Moved
<1>1. CASE Iterate
  BY <1>1, LeftOutMoves, IterateMoves
<1>2. CASE Pass \/ Skip \/ FaultWhen \/ FaultLoop \/ LeaveContainer
  BY <1>2, LeftOutMoves
<1>3. CASE EnterContainer \/ EnterLoop \/ BeginAction
  BY <1>3, EnterContainerMoves, EnterLoopMoves, BeginActionMoves
<1>4. CASE FailEarly \/ CompleteInside \/ AskHost \/ EndUnit
  BY <1>4, AttemptWrites, AttemptMoves DEF StaysPut, SamePlan
<1>5. CASE Delegate \/ Return
  BY <1>5, DelegateMoves, ReturnMoves
<1>6. CASE \/ NoEvent \/ NoMatch \/ HandlerRecovers \/ HandlerStops \/ HandlerFails
           \/ RetryRefused \/ RetryExhausted \/ RetryGranted
  BY <1>6, HandlingWrites, AttemptMoves
<1>7. QED
  BY <1>1, <1>2, <1>3, <1>4, <1>5, <1>6 DEF Next

LEMMA SequencedNext == ExecInv /\ ExecInv' /\ Sequenced /\ [Next]_vars => Sequenced'
<1> SUFFICES ASSUME ExecInv, ExecInv', Sequenced, [Next]_vars PROVE Sequenced'
  OBVIOUS
<1>1. CASE UNCHANGED vars
  <2>1. /\ plan' = plan /\ queue' = queue /\ calls' = calls /\ at' = at /\ unit' = unit /\ records' = records
    BY <1>1 DEF vars
  <2>2. Pending' = Pending /\ Begun' = Begun /\ AllSteps' = AllSteps
    BY <2>1 DEF Pending, Aside, CallItems, StepItems, StepItem, RowItem, Performed, Begun, Active, Rows, AllSteps, StepsOf
  <2>3. (Due \cup Begun)' = Due \cup Begun
    BY <2>2 DEF Due, EnterSteps, First, Id
  <2>4. /\ \A i, j : Around(i, j)' = Around(i, j) /\ Within(i, j)' = Within(i, j) /\ Later(i, j)' = Later(i, j)
        /\ \A x, y : InOrderOf(x, y)' = InOrderOf(x, y)
    BY <2>1, OrderSame
  <2>5. RootFits'
    BY <2>3 DEF Sequenced, RootFits
  <2>6. Nested'
    BY <2>2, <2>4 DEF Sequenced, Nested
  <2>7. RowsClosed'
    BY <2>1, <2>2, <2>4 DEF Sequenced, RowsClosed
  <2>8. Finished'
    BY <2>1, <2>2, <2>4 DEF Sequenced, Finished
  <2>9. NotBegun'
    BY <2>2, <2>4 DEF Sequenced, NotBegun
  <2>10. QED
    BY <2>5, <2>6, <2>7, <2>8, <2>9 DEF Sequenced
<1>2. CASE Next
  <2>1. PICK t, New : Moves(t, New)
    BY <1>2, NextMoves DEF Moved
  <2>2. QED
    BY <2>1, SequencedKeeps
<1>3. QED
  BY <1>1, <1>2

LEMMA SequencedInit == Init => Sequenced
<1> SUFFICES ASSUME Init PROVE Sequenced
  OBVIOUS
<1> DEFINE s == EnterStep(1, <<>>)
           q == <<s>>
           x == StepItem(0, 1, s)
<1>1. queue = q /\ calls = <<>> /\ at = "step" /\ DOMAIN records = {} /\ Len(calls) = 0 /\ DOMAIN calls = {}
  BY DEF Init
<1>2. DOMAIN q = {1} /\ Len(q) = 1 /\ q[1] = s /\ s.node = 1 /\ s.iteration = <<>> /\ s.op = "enter"
  BY DEF EnterStep
<1> HIDE DEF q, s
<1>3. Begun = {}
  BY <1>1 DEF Begun, Active, Rows
<1>4. Pending = {x}
  <2>1. Aside(calls) = {} /\ Performed = {}
    BY <1>1 DEF Aside, Performed
  <2>2. Len(q) + 1 - 1 = 1
    BY <1>2
  <2>3. StepItems(0, q) = {StepItem(0, Len(q) + 1 - 1, q[1])}
    BY <1>2 DEF StepItems
  <2>4. QED
    BY <1>1, <1>2, <2>1, <2>2, <2>3 DEF Pending
<1>5. x.level = 0 /\ x.height = 1
  BY DEF StepItem
<1>6. ~Higher(x, x)
  BY <1>5 DEF Higher
<1>7. AllSteps = {s}
  BY <1>1, <1>2 DEF AllSteps, StepsOf
<1>8. Due = {First(1, <<>>)}
  BY <1>2, <1>7 DEF Due, EnterSteps
<1> HIDE DEF x
<1>9. RootFits
  BY <1>3, <1>8 DEF RootFits, First, Id
<1>10. QED
  BY <1>1, <1>3, <1>4, <1>6, <1>9 DEF Sequenced, Nested, RowsClosed, Finished, NotBegun

\* What is pending anywhere is in order, for every set of plans and every loop.
LEMMA SequencedSpec == Spec => []Sequenced
BY ExecSpec, SequencedInit, SequencedNext, PTL DEF Spec

\* Once a container has succeeded nothing inside it is queued or under way, on whatever
\* queue (the LIFO queue, and the queue execute_graph sets aside).
THEOREM FinishesLastHolds == Spec => []FinishesLast
<1>1. Finished => FinishesLast
  <2> SUFFICES ASSUME Finished, NEW i \in DOMAIN records,
                      plan[i.node].block # "action", records[i].status = "succeeded",
                      NEW j \in AllSteps \cup Active, Around(i, j)
               PROVE  FALSE
    BY DEF FinishesLast
  <2>1. PICK x \in Pending : x.node = j.node /\ x.iteration = j.iteration
    BY PendingAll DEF PendingCovers
  <2>2. Around(i, x)
    BY <2>1 DEF Around
  <2>3. QED
    BY <2>2 DEF Finished
<1>2. QED
  BY <1>1, SequencedSpec, PTL DEF Sequenced

-----------------------------------------------------------------------------
(* A failure in a sequential group.                                         *)

\* Only an ACTION reports a phase or an effect, and one that reports an effect has failed in
\* some phase or has succeeded.
Told ==
    \A i \in DOMAIN records :
        /\ records[i].phase # "none" => plan[i.node].block = "action"
        /\ records[i].effect # "none" =>
              plan[i.node].block = "action" /\ (records[i].phase # "none" \/ records[i].status = "succeeded")

\* After a required failure nobody dealt with, what comes later is left out and has not begun.
FailureStops ==
    \A i \in DOMAIN records : Unhandled(i) /\ plan[i.node].required /\ i \notin Active =>
        /\ Successors(i.node) \subseteq abandoned
        /\ \A j \in Begun : ~Later(j, i)

-----------------------------------------------------------------------------
(* What no step undoes.                                                     *)

\* What has been recorded of an attempt stays; a failure, once dealt with, stays so.
Kept ==
    /\ plan' = plan /\ abandoned \subseteq abandoned' /\ (halted => halted')
    /\ DOMAIN records \subseteq DOMAIN records'
    /\ \A i \in DOMAIN records :
          /\ records'[i].phase = records[i].phase /\ records'[i].effect = records[i].effect
          /\ \/ records'[i].status = records[i].status
             \/ records[i].status = "running" /\ (i \in Active \/ records'[i].status # "failed")
    /\ \A i \in DOMAIN records' : i \notin DOMAIN records =>
          /\ records'[i].status = "failed" => records'[i].phase = "none"
          /\ records'[i].phase # "none" => plan[i.node].block = "action"
          /\ records'[i].effect # "none" =>
                plan[i.node].block = "action" /\ (records'[i].phase # "none" \/ records'[i].status = "succeeded")
    /\ \A e \in DOMAIN records \cap DOMAIN events : plan[e.node].block = "action" /\ e \notin Active =>
          e \in DOMAIN events' /\ (events[e] = "recovered" => events'[e] = "recovered")

LEMMA StepWrites ==
    ASSUME ExecInv,
           \/ Pass \/ Skip \/ FaultWhen \/ EnterContainer \/ EnterLoop \/ FaultLoop \/ Iterate \/ LeaveContainer
           \/ BeginAction
    PROVE  /\ at = "step" /\ queue # <<>> /\ plan' = plan /\ calls' = calls /\ halted' = halted
           /\ \/ abandoned' = abandoned
              \/ abandoned' = abandoned \cup {Here.node} /\ Here \in DOMAIN records'
           /\ DOMAIN records \subseteq DOMAIN records' /\ DOMAIN records' \subseteq DOMAIN records \cup {Here}
           /\ \A i \in DOMAIN records :
                 /\ records'[i].phase = records[i].phase /\ records'[i].effect = records[i].effect
                 /\ \/ records'[i].status = records[i].status
                    \/ records[i].status = "running" /\ records'[i].status = "succeeded"
           /\ \A i \in DOMAIN records' : i \notin DOMAIN records =>
                 records'[i].phase = "none" /\ records'[i].effect = "none"
           /\ \A e \in DOMAIN records \cap DOMAIN events : plan[e.node].block = "action" =>
                 e \in DOMAIN events' /\ events'[e] = events[e]
<1> DEFINE h == Here
<1>1. /\ at = "step" /\ queue # <<>> /\ plan' = plan /\ calls' = calls /\ halted' = halted
      /\ \/ records' = records
         \/ Head(queue).op = "enter" /\ \E status : records' = Put(records, h, Bare(status))
         \/ records[h].status = "running" /\ records' = [records EXCEPT ![h].status = "succeeded"]
      /\ \/ abandoned' = abandoned
         \/ abandoned' = abandoned \cup {h.node} /\ \E status : records' = Put(records, h, Bare(status))
      /\ \/ events' = events
         \/ Head(queue).op = "enter" /\ events' = Put(events, h, "pending")
         \/ \E n, it, pick : events' = PutAll(events, Faulted(n, it, pick), "pending")
  <2>1. CASE Pass \/ LeaveContainer \/ BeginAction \/ Skip
    BY <2>1 DEF Pass, LeaveContainer, BeginAction, Skip, Entering, Taking, SameRun, SamePlan
  <2>2. CASE FaultWhen \/ FaultLoop \/ EnterLoop
    BY <2>2 DEF FaultWhen, FaultLoop, EnterLoop, Entering, Taking, SameRun, SamePlan
  <2>3. CASE EnterContainer \/ Iterate
    BY <2>3 DEF EnterContainer, Iterate, Entering, Taking, SameRun, SamePlan
  <2>4. QED
    BY <2>1, <2>2, <2>3
<1>2. Head(queue).op = "enter" => h \notin DOMAIN records
  BY <1>1, HereIs DEF ExecInv, Begun
<1> HIDE DEF h
<1>3. /\ \E status : records' = Put(records, h, Bare(status)) => h \in DOMAIN records'
      /\ DOMAIN records \subseteq DOMAIN records' /\ DOMAIN records' \subseteq DOMAIN records \cup {h}
      /\ \A i \in DOMAIN records :
            /\ records'[i].phase = records[i].phase /\ records'[i].effect = records[i].effect
            /\ \/ records'[i].status = records[i].status
               \/ records[i].status = "running" /\ records'[i].status = "succeeded"
      /\ \A i \in DOMAIN records' : i \notin DOMAIN records =>
            records'[i].phase = "none" /\ records'[i].effect = "none"
  <2>1. CASE records' = records
    BY <2>1 DEF Put, PutAll
  <2>2. CASE Head(queue).op = "enter" /\ \E status : records' = Put(records, h, Bare(status))
    <3>1. PICK r : records' = Put(records, h, r) /\ r.phase = "none" /\ r.effect = "none"
      BY <2>2 DEF Bare, Result
    <3>2. /\ DOMAIN records' = DOMAIN records \cup {h} /\ records'[h] = r
          /\ \A i \in DOMAIN records : i # h => records'[i] = records[i]
      BY <3>1 DEF Put, PutAll
    <3>3. QED
      BY <1>2, <2>2, <3>1, <3>2
  <2>3. CASE records[h].status = "running" /\ records' = [records EXCEPT ![h].status = "succeeded"]
    <3>1. "succeeded" \in Statuses
      BY DEF Statuses
    <3>2. /\ DOMAIN records' = DOMAIN records
          /\ \A i \in DOMAIN records : i # h => records'[i] = records[i]
          /\ h \in DOMAIN records => /\ records'[h].status = "succeeded" /\ records'[h].phase = records[h].phase
                                     /\ records'[h].effect = records[h].effect
      BY <2>3, <3>1, StatusIs DEF ExecInv
    <3>3. (\E status : records' = Put(records, h, Bare(status))) => h \in DOMAIN records'
      BY DEF Put, PutAll
    <3>4. QED
      BY <2>3, <3>2, <3>3
  <2>4. QED
    BY <1>1, <2>1, <2>2, <2>3
<1>4. (\E status : records' = Put(records, h, Bare(status))) => h \in DOMAIN records'
  BY DEF Put, PutAll
<1>5. ASSUME NEW e \in DOMAIN records \cap DOMAIN events, plan[e.node].block = "action"
      PROVE  e \in DOMAIN events' /\ events'[e] = events[e]
  <2>1. CASE events' = events
    BY <2>1
  <2>2. CASE Head(queue).op = "enter" /\ events' = Put(events, h, "pending")
    BY <1>2, <2>2 DEF Put, PutAll
  <2>3. CASE \E n, it, pick : events' = PutAll(events, Faulted(n, it, pick), "pending")
    <3>1. PICK n, it, pick : events' = PutAll(events, Faulted(n, it, pick), "pending")
      BY <2>3
    <3>2. \A i \in Faulted(n, it, pick) : plan[i.node].block = "if"
      BY DEF Faulted, Ifs, First, Id
    <3>3. e \notin Faulted(n, it, pick)
      BY <1>5, <3>2
    <3>4. QED
      BY <3>1, <3>3 DEF PutAll
  <2>4. QED
    BY <1>1, <2>1, <2>2, <2>3
<1>6. QED
  BY <1>1, <1>3, <1>4, <1>5 DEF h

LEMMA NextKept ==
    ASSUME ExecInv, ExecInv', Next PROVE Kept
<1>1. CASE \/ Pass \/ Skip \/ FaultWhen \/ EnterContainer \/ EnterLoop \/ FaultLoop \/ Iterate \/ LeaveContainer
           \/ BeginAction
  <2>1. "failed" # "succeeded"
    OBVIOUS
  <2>2. QED
    BY <1>1, <2>1, StepWrites DEF Kept
<1>2. CASE \/ FailEarly \/ CompleteInside \/ AskHost \/ EndUnit \/ Return
           \/ NoEvent \/ NoMatch \/ HandlerRecovers \/ HandlerStops \/ HandlerFails
           \/ RetryRefused \/ RetryExhausted \/ RetryGranted
  <2>1. PICK u \in Active :
           /\ Writes(u) /\ plan' = plan /\ plan[u.node].block = "action"
           /\ \/ u \in DOMAIN records
              \/ /\ records'[u].status \in {"succeeded", "running"}
                 /\ records'[u].status = "running" => at' = "handle" /\ unit' = u
           /\ \A e \in DOMAIN events : e # u =>
                 e \in DOMAIN events' /\ (events[e] = "recovered" => events'[e] = "recovered")
    <3>1. CASE FailEarly \/ CompleteInside \/ AskHost \/ EndUnit
      <4>1. unit \in Active /\ plan' = plan /\ unit' = unit
        BY <3>1, AttemptWrites DEF Active, StaysPut, SamePlan
      <4>2. QED
        BY <3>1, <4>1, AttemptWrites DEF ExecInv, Placed, UnitFits
    <3>2. CASE Return
      <4>1. Head(calls).row \in Active
        BY <3>2, ReturnIs DEF Active
      <4>2. QED
        BY <3>2, <4>1, ReturnIs
    <3>3. CASE \/ NoEvent \/ NoMatch \/ HandlerRecovers \/ HandlerStops \/ HandlerFails
               \/ RetryRefused \/ RetryExhausted \/ RetryGranted
      <4>1. unit \in Active
        BY <3>3, HandlingWrites DEF Active
      <4>2. QED
        BY <3>3, <4>1, HandlingWrites DEF ExecInv, Placed, UnitFits
    <3>4. QED
      BY <1>2, <3>1, <3>2, <3>3
  <2>2. abandoned \subseteq abandoned' /\ (halted => halted')
    <3>1. CASE FailEarly \/ CompleteInside \/ AskHost \/ EndUnit \/ Return
      <4>1. CASE Return
        BY <4>1 DEF Return
      <4>2. CASE FailEarly \/ CompleteInside \/ AskHost \/ EndUnit
        <5>1. StaysPut
          BY <4>2, AttemptWrites
        <5>2. QED
          BY <5>1 DEF StaysPut
      <4>3. QED
        BY <3>1, <4>1, <4>2
    <3>2. CASE NoEvent \/ NoMatch \/ HandlerFails \/ RetryRefused \/ RetryExhausted
      BY <3>2 DEF NoEvent, NoMatch, HandlerFails, RetryRefused, RetryExhausted, Unrecovered
    <3>3. CASE HandlerRecovers \/ HandlerStops \/ RetryGranted
      BY <3>3 DEF HandlerRecovers, HandlerStops, RetryGranted, Recovered
    <3>4. QED
      BY <1>2, <3>1, <3>2, <3>3
  <2>3. u \notin DOMAIN records => records'[u].phase # "none" \/ records'[u].status = "succeeded"
    BY <2>1 DEF ExecInv, Placed, UnitFits
  <2>4. \A i \in DOMAIN records' : i \notin DOMAIN records => i = u /\ records'[i].status \in {"succeeded", "running"}
    BY <2>1 DEF Writes
  <2>5. "failed" \notin {"succeeded", "running"}
    OBVIOUS
  <2>6. QED
    BY <2>1, <2>2, <2>3, <2>4, <2>5 DEF Kept, Writes
<1>3. CASE Delegate
  BY <1>3, DelegateIs DEF Kept
<1>4. QED
  BY <1>1, <1>2, <1>3 DEF Next

\* A failure nobody deals with is that of something under way, or was one before.
LEMMA UnhandledIs ==
    ASSUME Kept, Begun \subseteq Begun', Told', NEW i, Unhandled(i)'
    PROVE  Unhandled(i) \/ i \in Active
<1> SUFFICES ASSUME i \notin Active PROVE Unhandled(i)
  OBVIOUS
<1>1. /\ i \in DOMAIN records' /\ records'[i].status = "failed" /\ records'[i].phase # "none"
      /\ i \in DOMAIN events' => events'[i] # "recovered"
      /\ Again(i) \notin Begun'
  BY DEF Unhandled, Begun, Again
<1>2. i \in DOMAIN records
  BY <1>1 DEF Kept
<1>3. records[i].status = "failed" /\ records[i].phase # "none"
  BY <1>1, <1>2 DEF Kept
<1>4. plan[i.node].block = "action"
  BY <1>1, <1>2 DEF Kept, Told
<1>5. i \in DOMAIN events => events[i] # "recovered"
  BY <1>1, <1>2, <1>4 DEF Kept
<1>6. QED
  BY <1>1, <1>2, <1>3, <1>5 DEF Unhandled, Begun

LEMMA ToldKeeps ==
    ASSUME Told, Kept PROVE Told'
<1> SUFFICES ASSUME NEW i \in DOMAIN records'
             PROVE  /\ records'[i].phase # "none" => plan[i.node].block = "action"
                    /\ records'[i].effect # "none" =>
                          /\ plan[i.node].block = "action"
                          /\ records'[i].phase # "none" \/ records'[i].status = "succeeded"
  BY DEF Told, Kept
<1>1. CASE i \in DOMAIN records
  <2>1. "running" # "succeeded"
    OBVIOUS
  <2>2. QED
    BY <1>1, <2>1 DEF Told, Kept
<1>2. CASE i \notin DOMAIN records
  BY <1>2 DEF Kept
<1>3. QED
  BY <1>1, <1>2

\* An attempt is over without its failure being dealt with only if, when the unit is
\* required, what comes after it is left out.
LEMMA SettledIs ==
    ASSUME ExecInv, Next, NEW i \in Active, i \notin Active', Unhandled(i)', plan[i.node].required
    PROVE  Successors(i.node) \subseteq abandoned'
<1>1. /\ i \in DOMAIN records' /\ records'[i].status = "failed"
      /\ i \in DOMAIN events' => events'[i] # "recovered"
      /\ Again(i) \notin Active'
  BY DEF Unhandled, Again
<1>2. records'[i].status \notin {"succeeded", "running"}
  BY <1>1
<1>3. CASE \/ Pass \/ Skip \/ FaultWhen \/ EnterContainer \/ EnterLoop \/ FaultLoop \/ Iterate \/ LeaveContainer
           \/ BeginAction
  BY <1>3, StepWrites DEF Active, Rows
<1>4. CASE FailEarly \/ CompleteInside \/ AskHost \/ EndUnit
  <2>1. calls' = calls
    BY <1>4, AttemptWrites DEF StaysPut
  <2>2. i = unit
    BY <2>1 DEF Active, Rows
  <2>3. QED
    BY <1>2, <1>4, <2>2, AttemptWrites
<1>5. CASE Delegate
  BY <1>5, DelegateIs DEF Active
<1>6. CASE Return
  <2>1. i \in Rows /\ i \notin Rows'
    BY <1>6, ReturnIs DEF Active
  <2>2. i = Head(calls).row
    BY <1>6, <2>1, ReturnIs
  <2>3. QED
    BY <1>2, <1>6, <2>2, ReturnIs
<1>7. CASE \/ NoEvent \/ NoMatch \/ HandlerRecovers \/ HandlerStops \/ HandlerFails
           \/ RetryRefused \/ RetryExhausted \/ RetryGranted
  <2>1. calls' = calls
    BY <1>7, HandlingWrites
  <2>2. i = unit
    BY <2>1 DEF Active, Rows
  <2>3. CASE NoEvent \/ NoMatch \/ HandlerFails \/ RetryRefused \/ RetryExhausted
    BY <2>2, <2>3 DEF NoEvent, NoMatch, HandlerFails, RetryRefused, RetryExhausted, Unrecovered
  <2>4. CASE HandlerRecovers \/ HandlerStops
    <3>1. unit \in DOMAIN events /\ events' = [events EXCEPT ![unit] = "recovered"]
      BY <2>4 DEF HandlerRecovers, HandlerStops, Selecting, Recovered, Dispose
    <3>2. QED
      BY <1>1, <2>2, <3>1
  <2>5. CASE RetryGranted
    <3>1. unit' = Again(unit) /\ at' = "attempt"
      BY <2>5 DEF RetryGranted
    <3>2. QED
      BY <1>1, <2>2, <3>1 DEF Active
  <2>6. QED
    BY <1>7, <2>3, <2>4, <2>5
<1>8. QED
  BY <1>3, <1>4, <1>5, <1>6, <1>7 DEF Next

\* Once a failure is settled what comes after it is left out, and what a row is about has
\* begun before; while it is not, everything that begins is before it in the order.
LEMMA FailureStopsKeeps ==
    ASSUME ExecInv, ExecInv', Sequenced, FailureStops, Told', Next PROVE FailureStops'
<1>1. PICK t, New : Moves(t, New)
  BY NextMoves DEF Moved
<1>2. Kept /\ plan' = plan
  BY NextKept DEF Kept
<1>3. /\ Begun \subseteq Begun'
      /\ \A j \in Begun' : j \in Begun \/ (Alike(j, t) /\ (t.op = "row" \/ t.node \notin abandoned))
      /\ t \in Pending /\ \A y \in Pending : y = t \/ Higher(t, y)
  BY <1>1 DEF Moves, Turn, Replaced
<1>4. \A i, j : Later(i, j)' = Later(i, j)
  BY <1>2, OrderSame
<1>5. \A n : Successors(n)' = Successors(n)
  BY <1>2 DEF Successors, LaterSiblings, Position, Path
<1>6. TypeOK /\ Placed /\ IsPlan(plan) /\ DOMAIN records' \subseteq InvocationIds'
  BY PlanIs DEF ExecInv, TypeOK
<1> SUFFICES ASSUME NEW i \in DOMAIN records', Unhandled(i)', plan[i.node].required, i \notin Active'
             PROVE  Successors(i.node) \subseteq abandoned' /\ \A j \in Begun' : ~Later(j, i)
  BY <1>2, <1>4, <1>5 DEF FailureStops
<1>7. i.node \in DOMAIN plan
  BY <1>2, <1>6 DEF InvocationIds
<1>8. \A m, y : m.node = y.node /\ m.iteration = y.iteration =>
         \A z : /\ Later(m, z) <=> Later(y, z)
                /\ Later(z, m) <=> Later(z, y)
  BY DEF Later
<1>9. CASE i \notin Active
  <2>1. Unhandled(i) /\ i \in DOMAIN records
    BY <1>2, <1>3, <1>9, UnhandledIs DEF Unhandled
  <2>2. Successors(i.node) \subseteq abandoned /\ \A j \in Begun : ~Later(j, i)
    BY <1>9, <2>1 DEF FailureStops
  <2>3. ASSUME NEW j \in Begun', Later(j, i) PROVE FALSE
    <3>1. Alike(j, t) /\ (t.op = "row" \/ t.node \notin abandoned)
      BY <1>3, <2>2, <2>3
    <3>2. j.node \in Successors(i.node)
      BY <1>6, <1>7, <2>3, FollowsIs DEF Later
    <3>3. t.op = "row"
      BY <2>2, <3>1, <3>2 DEF Alike
    <3>4. Id(t.node, t.iteration, t.attempt) \in Begun
      BY <1>3, <1>6, <3>3, PendingIs DEF Begun
    <3>5. Later(Id(t.node, t.iteration, t.attempt), i)
      BY <2>3, <3>1 DEF Alike, Id, Later
    <3>6. QED
      BY <2>2, <3>4, <3>5
  <2>4. QED
    BY <1>2, <2>2, <2>3 DEF Kept
<1>10. CASE i \in Active
  <2>1. PICK x \in Pending : x.node = i.node /\ x.iteration = i.iteration
    BY <1>6, <1>10, PendingAll DEF PendingCovers
  <2>2. ASSUME NEW j \in Begun', Later(j, i) PROVE FALSE
    <3>1. Later(j, x)
      BY <1>8, <2>1, <2>2
    <3>2. CASE j \in Begun
      BY <3>1, <3>2 DEF Sequenced, NotBegun
    <3>3. CASE Alike(j, t)
      <4>1. Later(t, x)
        BY <1>8, <3>1, <3>3 DEF Alike
      <4>2. CASE t = x
        <5>1. Follows(x.node, x.node) /\ x.node \in DOMAIN plan
          BY <1>7, <2>1, <4>1, <4>2 DEF Later
        <5>2. QED
          BY <1>6, <5>1, FollowsIs, PathOf
      <4>3. CASE Higher(t, x)
        BY <1>3, <4>1, <4>3 DEF Sequenced, Nested, InOrderOf
      <4>4. QED
        BY <1>3, <4>2, <4>3
    <3>4. QED
      BY <1>3, <3>2, <3>3
  <2>3. QED
    BY <1>10, <2>2, SettledIs
<1>11. QED
  BY <1>9, <1>10

Stopping == Told /\ FailureStops

LEMMA StoppingNext == ExecInv /\ ExecInv' /\ Sequenced /\ Stopping /\ [Next]_vars => Stopping'
<1> SUFFICES ASSUME ExecInv, ExecInv', Sequenced, Stopping, [Next]_vars PROVE Stopping'
  OBVIOUS
<1>1. CASE UNCHANGED vars
  <2>1. /\ plan' = plan /\ calls' = calls /\ at' = at /\ unit' = unit /\ records' = records /\ events' = events
        /\ abandoned' = abandoned
    BY <1>1 DEF vars
  <2>2. Active' = Active /\ Begun' = Begun
    BY <2>1 DEF Begun, Active, Rows
  <2>3. /\ \A i, j : Later(i, j)' = Later(i, j)
        /\ \A n : Successors(n)' = Successors(n)
        /\ \A i : Unhandled(i)' = Unhandled(i)
    <3>1. \A i, j : Later(i, j)' = Later(i, j)
      BY <2>1, OrderSame
    <3>2. \A n : Successors(n)' = Successors(n)
      BY <2>1 DEF Successors, LaterSiblings, Position, Path
    <3>3. \A i : Unhandled(i)' = Unhandled(i)
      BY <2>1, <2>2 DEF Unhandled, Again
    <3>4. QED
      BY <3>1, <3>2, <3>3
  <2>4. Told'
    BY <2>1 DEF Stopping, Told
  <2>5. FailureStops'
    BY <2>1, <2>2, <2>3 DEF Stopping, FailureStops
  <2>6. QED
    BY <2>4, <2>5 DEF Stopping
<1>2. CASE Next
  <2>1. Told'
    BY <1>2, NextKept, ToldKeeps DEF Stopping
  <2>2. QED
    BY <1>2, <2>1, FailureStopsKeeps DEF Stopping
<1>3. QED
  BY <1>1, <1>2

LEMMA StoppingSpec == Spec => []Stopping
<1>1. Init => Stopping
  BY DEF Init, Stopping, Told, FailureStops
<1>2. QED
  BY <1>1, ExecSpec, SequencedSpec, StoppingNext, PTL DEF Spec

\* After an unrecovered required failure nothing later in a sequential group around it
\* begins, in the instance it happened in (halt_successors_of), however deep either is
\* and whichever queue each is on.
THEOREM NothingAfterFailureHereHolds == Spec => []NothingAfterFailureHere
<1>1. Stopping => NothingAfterFailureHere
  BY DEF Stopping, FailureStops, NothingAfterFailureHere, Begun, Later
<1>2. QED
  BY <1>1, StoppingSpec, PTL

-----------------------------------------------------------------------------
(* The children of a parallel group.                                        *)

\* What is abandoned was recorded, or follows a failure in a sequential group.
AbandonedFits ==
    \A c \in abandoned : RecordsOf(c) # {} \/ (c # 1 /\ ~plan[plan[c].parent].parallel)

\* While a parallel group runs, and when it has succeeded, each of its children is to be
\* entered or has begun, or was recorded in another instance.
ChildrenDue ==
    \A i \in DOMAIN records :
        plan[i.node].parallel /\ records[i].status \in {"running", "succeeded"} /\ ~halted =>
            \A c \in DOMAIN plan :
                plan[c].parent = i.node /\ plan[c].block \in {"unit", "action", "loop"} =>
                    \/ First(c, i.iteration) \in Due \cup Begun
                    \/ \E j \in RecordsOf(c) : j.iteration # i.iteration

LEMMA StepsJoined ==
    ASSUME NEW q \in Seq(StepSet), NEW r \in Seq(StepSet)
    PROVE  q \o r \in Seq(StepSet) /\ StepsOf(q \o r) = StepsOf(q) \cup StepsOf(r)
BY JoinedSteps, ZenonT(60)

\* A container has every child that is not the arm of a condition entered.
LEMMA ContainerOpens ==
    ASSUME ExecInv, EnterContainer
    PROVE  \E new \in Seq(StepSet) :
              /\ queue' = new \o Tail(queue)
              /\ \A c \in DOMAIN plan : plan[c].parent = Here.node /\ plan[c].block \notin {"if", "else"} =>
                    EnterStep(c, Here.iteration) \in StepsOf(new)
<1>1. /\ TypeOK /\ Placed /\ at = "step" /\ queue # <<>> /\ IsPlan(plan) /\ MaxItems \in Nat
      /\ interleaving \in Interleavings
  BY PlanIs DEF ExecInv, EnterContainer, Entering, Taking
<1> DEFINE n == Here.node
           it == Here.iteration
           c == LeaveStep(n, it)
<1>2. n \in DOMAIN plan /\ it \in Seq(Nat)
  BY <1>1, HereIs
<1> HIDE DEF n, it
<1>3. PICK pick \in Picks(n) :
         queue' = (IF plan[n].parallel THEN Ordered(Enters(Selected(n, pick), it)) ELSE Enters(Selected(n, pick), it))
                     \o <<c>> \o Tail(queue)
  BY DEF EnterContainer, n, it
<1> DEFINE batch == Enters(Selected(n, pick), it)
           first == IF plan[n].parallel THEN Ordered(batch) ELSE batch
           new == first \o <<c>>
<1>4. /\ batch \in Seq(StepSet) /\ Alone(batch)
      /\ \A m \in DOMAIN plan : plan[m].parent = n /\ plan[m].block \notin {"if", "else"} =>
            EnterStep(m, it) \in StepsOf(batch)
  <2>1. batch \in Seq(StepSet) /\ Alone(batch)
    BY <1>1, <1>2, EntersIs
  <2>2. \A m \in DOMAIN plan : plan[m].parent = n /\ plan[m].block \notin {"if", "else"} =>
            EnterStep(m, it) \in StepsOf(batch)
    BY <1>1, <1>2, EntersWhole
  <2>3. QED
    BY <2>1, <2>2
<1> HIDE DEF batch
<1>5. first \in Seq(StepSet) /\ StepsOf(batch) \subseteq StepsOf(first)
  <2>1. Ordered(batch) \in Seq(StepSet)
    BY <1>1, <1>4, OrderedIs
  <2>2. StepsOf(batch) \subseteq StepsOf(Ordered(batch))
    BY <1>1, <1>4, OrderedWhole
  <2>3. QED
    BY <1>4, <2>1, <2>2
<1>6. <<c>> \in Seq(StepSet)
  <2>1. c \in StepSet
    BY <1>1, <1>2, EnterStepIs
  <2>2. QED
    BY <2>1, SingleIs
<1>7. queue' = new \o Tail(queue)
  BY <1>3 DEF first, batch
<1> HIDE DEF first, c
<1>8. new \in Seq(StepSet) /\ StepsOf(first) \subseteq StepsOf(new)
  <2> DEFINE last == <<c>>
  <2> HIDE DEF last
  <2>1. last \in Seq(StepSet)
    BY <1>6 DEF last
  <2>2. /\ first \o last \in Seq(StepSet)
        /\ StepsOf(first \o last) = StepsOf(first) \cup StepsOf(last)
    BY <1>5, <2>1, StepsJoined
  <2>3. QED
    BY <2>2 DEF last
<1> HIDE DEF new
<1>9. QED
  BY <1>4, <1>5, <1>7, <1>8 DEF n, it

\* A step takes no other step with it.
LEMMA StepTakesOne ==
    ASSUME ExecInv,
           \/ Pass \/ Skip \/ FaultWhen \/ EnterContainer \/ EnterLoop \/ FaultLoop \/ Iterate \/ LeaveContainer
           \/ BeginAction
    PROVE  \A s \in AllSteps : s = Head(queue) \/ s \in AllSteps'
<1>1. /\ TypeOK /\ Placed /\ at = "step" /\ queue # <<>> /\ calls' = calls /\ MaxItems \in Nat /\ IsPlan(plan)
  BY StepWrites, PlanIs DEF ExecInv
<1>2. queue \in Seq(StepSet)
  BY <1>1 DEF TypeOK
<1>3. PICK new \in Seq(StepSet) : queue' = new \o Tail(queue) \/ queue' = Tail(queue)
  <2>1. CASE Pass \/ Skip \/ FaultWhen \/ FaultLoop \/ LeaveContainer \/ BeginAction
    <3>1. queue' = Tail(queue)
      BY <2>1 DEF Pass, Skip, FaultWhen, FaultLoop, LeaveContainer, BeginAction
    <3>2. QED
      BY <1>2, <3>1
  <2>2. CASE EnterContainer
    BY <2>2, ContainerOpens
  <2>3. CASE EnterLoop
    <3> DEFINE n == Here.node
               it == Here.iteration
    <3>1. n \in DOMAIN plan /\ it \in Seq(Nat)
      BY <1>1, HereIs
    <3> HIDE DEF n, it
    <3>2. PICK m \in 0..MaxItems : queue' = <<IterateStep(n, it, m, 0), LeaveStep(n, it)>> \o Tail(queue)
      BY <2>3 DEF EnterLoop, n, it
    <3>3. 0 \in 0..MaxItems
      BY <1>1
    <3>4. IterateStep(n, it, m, 0) \in StepSet /\ LeaveStep(n, it) \in StepSet
      BY <1>1, <3>1, <3>3, EnterStepIs
    <3>5. <<IterateStep(n, it, m, 0), LeaveStep(n, it)>> \in Seq(StepSet)
      BY <3>4
    <3>6. QED
      BY <3>2, <3>5
  <2>4. CASE Iterate
    <3> DEFINE step == Head(queue)
               inside == Append(step.iteration, step.index)
               next == [step EXCEPT !.index = @ + 1]
    <3>1. step \in AllSteps /\ step \in StepSet /\ step.op = "iterate" /\ step.node \in DOMAIN plan
      BY <1>1, <2>4, HereIs, StepIs DEF Iterate, Taking
    <3>2. inside \in Seq(Nat)
      BY <3>1, <1>1, StepIs
    <3>3. CASE step.index = step.of
      <4>1. queue' = Tail(queue)
        BY <2>4, <3>3 DEF Iterate
      <4>2. QED
        BY <1>2, <4>1
    <3>4. CASE step.index # step.of
      <4>1. PICK pick \in Picks(step.node) :
               queue' = Enters(Selected(step.node, pick), inside) \o <<next>> \o Tail(queue)
        BY <2>4, <3>4 DEF Iterate
      <4>2. next \in StepSet
        <5>1. step.index <= step.of
          BY <1>1, <3>1 DEF Placed, StepsFit
        <5>2. step.of \in 0..MaxItems /\ step.index \in 0..MaxItems
          BY <3>1 DEF StepSet
        <5>3. step.index + 1 \in 0..MaxItems
          BY <1>1, <3>4, <5>1, <5>2
        <5>4. QED
          BY <3>1, <5>3 DEF StepSet
      <4> DEFINE batch == Enters(Selected(step.node, pick), inside)
      <4>3. batch \in Seq(StepSet)
        BY <1>1, <3>1, <3>2, EntersIs
      <4>4. queue' = batch \o <<next>> \o Tail(queue)
        BY <4>1
      <4> HIDE DEF batch, next
      <4>5. <<next>> \in Seq(StepSet)
        BY <4>2, SingleIs
      <4>6. batch \o <<next>> \in Seq(StepSet)
        BY <4>3, <4>5, JoinedSteps
      <4>7. QED
        BY <4>4, <4>6
    <3>5. QED
      BY <3>3, <3>4
  <2>5. QED
    BY <2>1, <2>2, <2>3, <2>4
<1>4. Tail(queue) \in Seq(StepSet) /\ StepsOf(queue) = {Head(queue)} \cup StepsOf(Tail(queue))
  BY <1>1, <1>2, TailSteps
<1>5. StepsOf(Tail(queue)) \subseteq StepsOf(queue')
  <2> DEFINE rest == Tail(queue)
  <2>1. rest \in Seq(StepSet) /\ new \in Seq(StepSet)
    BY <1>4
  <2> HIDE DEF rest
  <2>2. StepsOf(new \o rest) = StepsOf(new) \cup StepsOf(rest)
    BY <2>1, StepsJoined
  <2>3. QED
    BY <1>3, <2>2 DEF rest
<1>6. AllSteps' = StepsOf(queue') \cup UNION {StepsOf(calls[k].outer) : k \in DOMAIN calls}
  BY <1>1 DEF AllSteps, StepsOf
<1>7. QED
  BY <1>4, <1>5, <1>6 DEF AllSteps

\* What is to be entered is entered, unless it is passed over.
LEMMA DueLeaves ==
    ASSUME ExecInv, Next, ~Pass, NEW d \in Due
    PROVE  d \in Due' \cup Begun'
<1>1. PICK s \in AllSteps : s.op = "enter" /\ d = First(s.node, s.iteration)
  BY DEF Due, EnterSteps
<1>2. s \in AllSteps' => d \in Due'
  BY <1>1 DEF Due, EnterSteps, First, Id
<1>3. CASE \/ Skip \/ FaultWhen \/ EnterContainer \/ EnterLoop \/ FaultLoop \/ Iterate \/ LeaveContainer
           \/ BeginAction
  <2>1. s = Head(queue) \/ s \in AllSteps'
    BY <1>3, StepTakesOne
  <2>2. CASE s = Head(queue)
    <3>1. d = Here /\ ~Iterate /\ ~LeaveContainer
      BY <1>1, <2>2 DEF Here, Iterate, LeaveContainer, Taking
    <3>2. CASE BeginAction
      BY <3>1, <3>2 DEF BeginAction, Begun, Active
    <3>3. CASE Skip \/ FaultWhen \/ EnterContainer \/ EnterLoop \/ FaultLoop
      <4>1. \E status : records' = Put(records, Here, Bare(status))
        BY <3>3 DEF Skip, FaultWhen, EnterContainer, EnterLoop, FaultLoop
      <4>2. Here \in DOMAIN records'
        BY <4>1 DEF Put, PutAll
      <4>3. QED
        BY <3>1, <4>2 DEF Begun
    <3>4. QED
      BY <1>3, <3>1, <3>2, <3>3
  <2>3. QED
    BY <1>2, <2>1, <2>2
<1>4. CASE FailEarly \/ CompleteInside \/ AskHost \/ EndUnit
  <2>1. queue' = queue /\ calls' = calls
    BY <1>4, AttemptWrites DEF StaysPut
  <2>2. QED
    BY <1>2, <2>1 DEF AllSteps, StepsOf
<1>5. CASE \/ NoEvent \/ NoMatch \/ HandlerRecovers \/ HandlerStops \/ HandlerFails
           \/ RetryRefused \/ RetryExhausted \/ RetryGranted
  <2>1. queue' = queue /\ calls' = calls
    BY <1>5, HandlingWrites
  <2>2. QED
    BY <1>2, <2>1 DEF AllSteps, StepsOf
<1>6. CASE Delegate
  BY <1>2, <1>6, DelegateIs
<1>7. CASE Return
  BY <1>2, <1>7, ReturnIs
<1>8. QED
  BY <1>3, <1>4, <1>5, <1>6, <1>7 DEF Next

LEMMA AbandonedKeeps ==
    ASSUME ExecInv, Next, Kept, AbandonedFits PROVE AbandonedFits'
<1>1. plan' = plan /\ DOMAIN records \subseteq DOMAIN records' /\ IsPlan(plan)
  BY PlanIs DEF Kept, ExecInv
<1> SUFFICES ASSUME NEW c \in abandoned', c \notin abandoned
             PROVE  (\E i \in DOMAIN records' : i.node = c) \/ (c # 1 /\ ~plan[plan[c].parent].parallel)
  BY <1>1 DEF AbandonedFits, RecordsOf
<1>2. CASE \/ Pass \/ Skip \/ FaultWhen \/ EnterContainer \/ EnterLoop \/ FaultLoop \/ Iterate \/ LeaveContainer
           \/ BeginAction
  <2>1. c = Here.node /\ Here \in DOMAIN records'
    BY <1>2, StepWrites
  <2>2. QED
    BY <2>1
<1>3. CASE FailEarly \/ CompleteInside \/ AskHost \/ EndUnit
  <2>1. abandoned' = abandoned
    BY <1>3, AttemptWrites DEF StaysPut
  <2>2. QED
    BY <2>1
<1>4. CASE NoEvent \/ NoMatch \/ HandlerRecovers \/ HandlerStops \/ HandlerFails
           \/ RetryRefused \/ RetryExhausted \/ RetryGranted
  <2>1. c \in Successors(unit.node)
    <3>1. CASE NoEvent \/ NoMatch \/ HandlerFails \/ RetryRefused \/ RetryExhausted
      BY <3>1 DEF NoEvent, NoMatch, HandlerFails, RetryRefused, RetryExhausted, Unrecovered
    <3>2. CASE HandlerRecovers \/ HandlerStops \/ RetryGranted
      BY <3>2 DEF HandlerRecovers, HandlerStops, RetryGranted, Recovered
    <3>3. QED
      BY <1>4, <3>1, <3>2
  <2>2. unit.node \in DOMAIN plan
    BY DEF ExecInv, TypeOK, InvocationIds
  <2>3. PICK a \in Path[unit.node] \ {1} : c \in LaterSiblings(a) /\ ~plan[plan[a].parent].parallel
    BY <2>1 DEF Successors
  <2>4. a \in DOMAIN plan
    BY <1>1, <2>2, <2>3, PathOf
  <2>5. c # 1 /\ plan[c].parent = plan[a].parent
    BY <1>1, <2>3, <2>4, SiblingIs
  <2>6. QED
    BY <2>3, <2>5
<1>5. CASE Delegate \/ Return
  BY <1>5, DelegateIs, ReturnIs
<1>6. QED
  BY <1>2, <1>3, <1>4, <1>5 DEF Next

\* A parallel group that is not in the records is put there with its children to enter.
LEMMA GroupOpens ==
    ASSUME ExecInv, Next, NEW i \in DOMAIN records', i \notin DOMAIN records, plan[i.node].parallel,
           records'[i].status \in {"running", "succeeded"}
    PROVE  EnterContainer /\ i = Here
<1>1. IsPlan(plan) /\ MaxItems \in Nat
  BY PlanIs DEF ExecInv
<1>2. ASSUME plan[i.node].block = "action" \/ plan[i.node].block = "loop", i.node \in DOMAIN plan PROVE FALSE
  BY <1>1, <1>2 DEF IsPlan
<1>3. ASSUME NEW u \in InvocationIds, plan[u.node].block = "action", DOMAIN records' = DOMAIN records \cup {u}
      PROVE  FALSE
  <2>1. i = u /\ i.node \in DOMAIN plan
    BY <1>3 DEF InvocationIds
  <2>2. QED
    BY <1>2, <1>3, <2>1
<1>4. CASE \/ Pass \/ Skip \/ FaultWhen \/ EnterContainer \/ EnterLoop \/ FaultLoop \/ Iterate \/ LeaveContainer
           \/ BeginAction
  <2>1. i = Here /\ at = "step" /\ queue # <<>>
    BY <1>4, StepWrites
  <2>2. i.node \in DOMAIN plan
    BY <2>1, HereIs DEF ExecInv
  <2>3. CASE EnterLoop \/ FaultLoop
    BY <1>2, <2>1, <2>2, <2>3 DEF EnterLoop, FaultLoop
  <2>4. CASE Pass \/ Iterate \/ LeaveContainer \/ BeginAction
    BY <2>4 DEF Pass, Iterate, LeaveContainer, BeginAction
  <2>5. CASE Skip \/ FaultWhen
    <3> DEFINE h == Here
    <3>1. PICK status \in {"skipped", "failed"} : records' = Put(records, h, Bare(status))
      BY <2>5 DEF Skip, FaultWhen
    <3> HIDE DEF h
    <3>2. records'[h] = Bare(status)
      BY <3>1 DEF Put, PutAll
    <3>3. Bare(status).status = status
      BY DEF Bare, Result
    <3>4. i = h
      BY <2>1 DEF h
    <3>5. records'[i].status = status
      BY <3>2, <3>3, <3>4
    <3>6. QED
      BY <3>1, <3>5
  <2>6. QED
    BY <1>4, <2>1, <2>3, <2>4, <2>5
<1>5. CASE FailEarly \/ CompleteInside \/ AskHost \/ EndUnit
  <2>1. DOMAIN records' = DOMAIN records \cup {unit} /\ at = "attempt"
    BY <1>5, AttemptWrites DEF Writes
  <2>2. unit \in InvocationIds /\ plan[unit.node].block = "action"
    BY <2>1, BegunTyped DEF ExecInv, Placed, UnitFits, Active
  <2>3. QED
    BY <1>3, <2>1, <2>2
<1>6. CASE \/ NoEvent \/ NoMatch \/ HandlerRecovers \/ HandlerStops \/ HandlerFails
           \/ RetryRefused \/ RetryExhausted \/ RetryGranted
  BY <1>6, HandlingWrites DEF Writes
<1>7. CASE Delegate
  BY <1>7, DelegateIs
<1>8. CASE Return
  BY <1>3, <1>8, ReturnIs DEF Writes
<1>9. QED
  BY <1>4, <1>5, <1>6, <1>7, <1>8 DEF Next

\* What a parallel group was entered for is not lost.
LEMMA ChildrenDueKeeps ==
    ASSUME ExecInv, ExecInv', Next, Kept, AbandonedFits, ChildrenDue PROVE ChildrenDue'
<1>1. plan' = plan /\ DOMAIN records \subseteq DOMAIN records' /\ Begun \subseteq Begun'
  BY NextMoves DEF Kept, Moved, Moves
<1>2. IsPlan(plan) /\ TypeOK /\ DOMAIN records \subseteq InvocationIds /\ MaxItems \in Nat
  BY PlanIs DEF ExecInv, TypeOK
<1> SUFFICES ASSUME NEW i \in DOMAIN records', plan[i.node].parallel, ~halted',
                    records'[i].status \in {"running", "succeeded"},
                    NEW c \in DOMAIN plan, plan[c].parent = i.node, plan[c].block \in {"unit", "action", "loop"}
             PROVE  \/ First(c, i.iteration) \in Due' \cup Begun'
                    \/ \E j \in DOMAIN records' : j.node = c /\ j.iteration # i.iteration
  BY <1>1 DEF ChildrenDue, RecordsOf, First, Id
<1>3. CASE i \notin DOMAIN records
  <2>1. EnterContainer /\ i = Here
    BY <1>3, GroupOpens
  <2>2. PICK new \in Seq(StepSet) :
           queue' = new \o Tail(queue) /\ EnterStep(c, i.iteration) \in StepsOf(new)
    BY <2>1, ContainerOpens
  <2>3. queue \in Seq(StepSet) /\ queue # <<>>
    BY <1>2, <2>1 DEF TypeOK, EnterContainer, Entering, Taking
  <2> DEFINE rest == Tail(queue)
             s == EnterStep(c, i.iteration)
  <2>4. rest \in Seq(StepSet) /\ s \in StepsOf(new) /\ queue' = new \o rest
    BY <2>2, <2>3, TailSteps
  <2>5. s.op = "enter" /\ First(s.node, s.iteration) = First(c, i.iteration)
    BY DEF EnterStep
  <2> HIDE DEF rest, s
  <2>6. StepsOf(new \o rest) = StepsOf(new) \cup StepsOf(rest)
    BY <2>4, StepsJoined
  <2>7. s \in StepsOf(queue')
    BY <2>4, <2>6
  <2>8. s \in AllSteps'
    BY <2>7 DEF AllSteps, StepsOf
  <2>9. QED
    BY <2>5, <2>8 DEF Due, EnterSteps, First, Id
<1>4. CASE i \in DOMAIN records
  <2>1. records[i].status \in {"running", "succeeded"} /\ ~halted
    BY <1>4 DEF Kept
  <2>2. \/ First(c, i.iteration) \in Due \cup Begun
        \/ \E j \in DOMAIN records : j.node = c /\ j.iteration # i.iteration
    BY <1>4, <2>1 DEF ChildrenDue, RecordsOf
  <2> DEFINE d == First(c, i.iteration)
  <2>3. CASE d \in Due /\ ~Pass
    BY <2>3, DueLeaves
  <2>4. CASE d \in Due /\ Pass
    <3>1. PICK s \in AllSteps : s.op = "enter" /\ d = First(s.node, s.iteration)
      BY <2>4 DEF Due, EnterSteps
    <3>2. s \in AllSteps' => d \in Due'
      BY <3>1 DEF Due, EnterSteps, First, Id
    <3>3. CASE s = Head(queue)
      <4>1. d = Here
        BY <3>1, <3>3 DEF Here
      <4>2. c \in abandoned
        BY <2>1, <2>4, <4>1 DEF Pass, First, Id
      <4>3. i.node \in DOMAIN plan /\ c # 1
        BY <1>2, <1>4 DEF InvocationIds, IsPlan
      <4>4. PICK j \in DOMAIN records : j.node = c
        BY <4>2, <4>3 DEF AbandonedFits, RecordsOf
      <4>5. CASE j.iteration = i.iteration
        <5>1. j \in InvocationIds /\ j \in Begun
          BY <1>2 DEF Begun
        <5>2. d \in DOMAIN records
          <6>1. CASE j.attempt = 0
            <7>1. j = Id(j.node, j.iteration, j.attempt)
              BY <5>1, IdIs
            <7>2. QED
              BY <4>4, <4>5, <6>1, <7>1 DEF First
          <6>2. CASE j.attempt # 0
            <7>1. Attempt(j, 0) \in DOMAIN records
              BY <5>1, <6>2, IdIs DEF ExecInv, Tried, EarlierFailed
            <7>2. Attempt(j, 0) \in InvocationIds
              BY <1>2, <7>1
            <7>3. Attempt(j, 0) = Id(c, i.iteration, 0)
              BY <4>4, <4>5, <5>1, <7>2, IdIs
            <7>4. QED
              BY <7>1, <7>3 DEF First
          <6>3. QED
            BY <6>1, <6>2
        <5>3. QED
          BY <1>1, <5>2 DEF Begun
      <4>6. CASE j.iteration # i.iteration
        BY <1>1, <4>4, <4>6
      <4>7. QED
        BY <4>5, <4>6
    <3>4. QED
      BY <2>4, <3>2, <3>3, StepTakesOne
  <2>5. CASE d \in Begun
    BY <1>1, <2>5
  <2>6. CASE \E j \in DOMAIN records : j.node = c /\ j.iteration # i.iteration
    BY <1>1, <2>6
  <2>7. QED
    BY <2>2, <2>3, <2>4, <2>5, <2>6
<1>5. QED
  BY <1>3, <1>4

Parallel == AbandonedFits /\ ChildrenDue

LEMMA ParallelNext == ExecInv /\ ExecInv' /\ Parallel /\ [Next]_vars => Parallel'
<1> SUFFICES ASSUME ExecInv, ExecInv', Parallel, [Next]_vars PROVE Parallel'
  OBVIOUS
<1>1. CASE UNCHANGED vars
  <2>1. /\ plan' = plan /\ calls' = calls /\ at' = at /\ unit' = unit /\ records' = records /\ queue' = queue
        /\ abandoned' = abandoned /\ halted' = halted
    BY <1>1 DEF vars
  <2>2. Active' = Active /\ Begun' = Begun /\ AllSteps' = AllSteps /\ \A n : RecordsOf(n)' = RecordsOf(n)
    BY <2>1 DEF Begun, Active, Rows, AllSteps, StepsOf, RecordsOf
  <2>3. (Due \cup Begun)' = Due \cup Begun
    BY <2>2 DEF Due, EnterSteps, First, Id
  <2>4. AbandonedFits'
    BY <2>1, <2>2 DEF Parallel, AbandonedFits
  <2>5. ChildrenDue'
    BY <2>1, <2>2, <2>3 DEF Parallel, ChildrenDue, First, Id
  <2>6. QED
    BY <2>4, <2>5 DEF Parallel
<1>2. CASE Next
  <2>1. Kept
    BY <1>2, NextKept
  <2>2. QED
    BY <1>2, <2>1, AbandonedKeeps, ChildrenDueKeeps DEF Parallel
<1>3. QED
  BY <1>1, <1>2

LEMMA ParallelSpec == Spec => []Parallel
<1>1. Init => Parallel
  BY DEF Init, Parallel, AbandonedFits, ChildrenDue
<1>2. QED
  BY <1>1, ExecSpec, ParallelNext, PTL DEF Spec

\* A failure in a parallel group cancels none of its siblings: when the group has
\* succeeded each of them was entered, unless the run was stopped or the same unit had
\* been left out for what happened in another instance.
THEOREM ParallelAllEnteredHolds == Spec => []ParallelAllEntered
<1>1. ExecInv /\ FinishesLast /\ Parallel => ParallelAllEntered
  <2> SUFFICES ASSUME ExecInv, FinishesLast, Parallel, NEW i \in DOMAIN records, plan[i.node].parallel,
                      records[i].status = "succeeded", ~halted,
                      NEW c \in DOMAIN plan, plan[c].parent = i.node, plan[c].block \in {"unit", "action", "loop"},
                      ~ \E j \in RecordsOf(c) : j.iteration # i.iteration
               PROVE  First(c, i.iteration) \in DOMAIN records
    BY DEF ParallelAllEntered
  <2>1. First(c, i.iteration) \in Due \cup Begun
    BY DEF Parallel, ChildrenDue
  <2>2. IsPlan(plan) /\ i.node \in DOMAIN plan /\ i.iteration \in Seq(Nat)
    BY PlanIs DEF ExecInv, TypeOK, InvocationIds
  <2>3. i.node \in Path[c] /\ IsPrefixOf(i.iteration, i.iteration) /\ plan[i.node].block # "action"
    <3>1. c # 1
      BY <2>2 DEF IsPlan
    <3>2. QED
      BY <2>2, <3>1, ChildPath, PrefixFacts DEF IsPlan
  <2>4. \A j \in AllSteps \cup Active : ~Around(i, j)
    BY <2>3 DEF FinishesLast
  <2>5. First(c, i.iteration) \notin Active
    BY <2>3, <2>4 DEF Around, First, Id
  <2>6. First(c, i.iteration) \notin Due
    <3>1. ASSUME NEW s \in AllSteps, First(c, i.iteration) = First(s.node, s.iteration) PROVE FALSE
      <4>1. s.node = c /\ s.iteration = i.iteration
        BY <3>1, FirstIs
      <4>2. QED
        BY <2>3, <2>4, <4>1 DEF Around
    <3>2. QED
      BY <3>1 DEF Due, EnterSteps
  <2>7. QED
    BY <2>1, <2>5, <2>6 DEF Begun
<1>2. QED
  BY <1>1, ExecSpec, FinishesLastHolds, ParallelSpec, PTL

-----------------------------------------------------------------------------
(* What a delegating row reports.                                           *)

\* An ACTION is recorded running only until its failure is handled.
ActionsEnd ==
    \A i \in DOMAIN records :
        plan[i.node].block = "action" /\ records[i].status = "running" => at = "handle" /\ i = unit

\* What has been recorded since a row began to delegate is what it delegates to.
Since == \A c \in StepsOf(calls) : \A j \in DOMAIN records : j \in c.before <=> ~Within(c.row, j)

\* A row that reports an effect ran an ACTION that reported it itself.
Leaf ==
    \A r \in DOMAIN records : plan[r.node].does = "execute" /\ Observed(r) =>
        \E i \in DOMAIN records : Within(r, i) /\ plan[i.node].does # "execute" /\ Observed(i)

\* A row tells the truth of each ACTION of its unit.
RowTrue ==
    \A r, i \in DOMAIN records :
        plan[r.node].does = "execute" /\ Within(r, i) /\ plan[i.node].block = "action" =>
            /\ records[r].status = "succeeded" => ~Unhandled(i)
            /\ records[r].effect = "none" => ~Observed(i)

LEMMA ActionsEndKeeps ==
    ASSUME ExecInv, ExecInv', Next, ActionsEnd PROVE ActionsEnd'
<1>1. plan' = plan
  BY NextKept DEF Kept
<1> SUFFICES ASSUME NEW i \in DOMAIN records', plan[i.node].block = "action", records'[i].status = "running"
             PROVE  at' = "handle" /\ i = unit'
  BY <1>1 DEF ActionsEnd
<1>2. CASE \/ Pass \/ Skip \/ FaultWhen \/ EnterContainer \/ EnterLoop \/ FaultLoop \/ Iterate \/ LeaveContainer
           \/ BeginAction
  <2>1. i \notin DOMAIN records /\ i = Here
    <3>1. at = "step"
      BY <1>2, StepWrites
    <3>2. i \in DOMAIN records => records[i].status = "running"
      BY <1>2, StepWrites
    <3>3. QED
      BY <1>2, <3>1, <3>2, StepWrites DEF ActionsEnd
  <2>2. CASE EnterContainer \/ EnterLoop \/ FaultLoop
    BY <2>1, <2>2 DEF EnterContainer, EnterLoop, FaultLoop
  <2>3. CASE Pass \/ Iterate \/ LeaveContainer \/ BeginAction
    BY <2>1, <2>3 DEF Pass, Iterate, LeaveContainer, BeginAction
  <2>4. CASE Skip \/ FaultWhen
    <3> DEFINE h == Here
    <3>1. PICK status \in {"skipped", "failed"} : records' = Put(records, h, Bare(status))
      BY <2>4 DEF Skip, FaultWhen
    <3> HIDE DEF h
    <3>2. records'[h] = Bare(status)
      BY <3>1 DEF Put, PutAll
    <3>3. Bare(status).status = status /\ i = h
      BY <2>1 DEF Bare, Result, h
    <3>4. QED
      BY <3>1, <3>2, <3>3
  <2>5. QED
    BY <1>2, <2>2, <2>3, <2>4
<1>3. CASE FailEarly \/ CompleteInside \/ AskHost \/ EndUnit
  <2>1. at = "attempt" /\ unit' = unit /\ Writes(unit) /\ (records'[unit].status = "running" => at' = "handle")
    BY <1>3, AttemptWrites DEF StaysPut
  <2>2. i \in DOMAIN records => records[i].status = "running"
    BY <2>1 DEF Writes
  <2>3. i = unit
    BY <2>1, <2>2 DEF Writes, ActionsEnd
  <2>4. QED
    BY <2>1, <2>3
<1>4. CASE \/ NoEvent \/ NoMatch \/ HandlerRecovers \/ HandlerStops \/ HandlerFails
           \/ RetryRefused \/ RetryExhausted \/ RetryGranted
  <2>1. Writes(unit) /\ unit \in DOMAIN records
    BY <1>4, HandlingWrites
  <2>2. i \in DOMAIN records /\ records[i].status = "running"
    BY <2>1 DEF Writes
  <2>3. i = unit
    BY <2>2 DEF ActionsEnd
  <2>4. PICK status \in {"failed", "stopped", "cancelled"} : Finalize(status)
    <3>1. CASE NoEvent \/ NoMatch \/ HandlerFails \/ RetryRefused \/ RetryExhausted
      BY <3>1 DEF NoEvent, NoMatch, HandlerFails, RetryRefused, RetryExhausted, Unrecovered
    <3>2. CASE HandlerRecovers \/ HandlerStops \/ RetryGranted
      BY <3>2 DEF HandlerRecovers, HandlerStops, RetryGranted, Recovered
    <3>3. QED
      BY <1>4, <3>1, <3>2
  <2>5. records'[unit].status = status
    <3>1. status \in Statuses /\ records' = [records EXCEPT ![unit].status = status]
      BY <2>4 DEF Finalize, Statuses
    <3>2. QED
      BY <2>1, <2>2, <2>3, <3>1, StatusIs DEF ExecInv
  <2>6. QED
    BY <2>3, <2>4, <2>5
<1>5. CASE Delegate
  <2>1. records' = records /\ at = "attempt"
    BY <1>5, DelegateIs
  <2>2. QED
    BY <2>1 DEF ActionsEnd
<1>6. CASE Return
  <2> DEFINE u == Head(calls).row
  <2>1. at = "step" /\ unit' = u /\ Writes(u) /\ (records'[u].status = "running" => at' = "handle")
    BY <1>6, ReturnIs
  <2> HIDE DEF u
  <2>2. i \in DOMAIN records => records[i].status = "running"
    BY <2>1 DEF Writes
  <2>3. i = u
    BY <2>1, <2>2 DEF Writes, ActionsEnd
  <2>4. QED
    BY <2>1, <2>3
<1>7. QED
  BY <1>2, <1>3, <1>4, <1>5, <1>6 DEF Next

\* An ACTION has succeeded only if its result says so.
LEMMA SucceededIs ==
    ASSUME ExecInv, Next, ActionsEnd, NEW r \in DOMAIN records, plan[r.node].block = "action",
           records'[r].status = "succeeded"
    PROVE  records[r].status = "succeeded"
<1> SUFFICES ASSUME records[r].status # "succeeded" PROVE FALSE
  OBVIOUS
<1>1. CASE \/ Pass \/ Skip \/ FaultWhen \/ EnterContainer \/ EnterLoop \/ FaultLoop \/ Iterate \/ LeaveContainer
           \/ BeginAction
  <2>1. at = "step" /\ records[r].status = "running"
    BY <1>1, StepWrites
  <2>2. QED
    BY <2>1 DEF ActionsEnd
<1>2. CASE FailEarly \/ CompleteInside \/ AskHost \/ EndUnit
  BY <1>2, AttemptWrites DEF Writes
<1>3. CASE \/ NoEvent \/ NoMatch \/ HandlerRecovers \/ HandlerStops \/ HandlerFails
           \/ RetryRefused \/ RetryExhausted \/ RetryGranted
  BY <1>3, HandlingWrites DEF Writes
<1>4. CASE Delegate
  BY <1>4, DelegateIs
<1>5. CASE Return
  BY <1>5, ReturnIs DEF Writes
<1>6. QED
  BY <1>1, <1>2, <1>3, <1>4, <1>5 DEF Next

LEMMA WithinWithin ==
    ASSUME IsPlan(plan), NEW r \in InvocationIds, NEW i \in InvocationIds, NEW j \in InvocationIds,
           Within(r, i), Within(i, j)
    PROVE  Within(r, j)
<1>1. /\ r.node \in DOMAIN plan /\ i.node \in DOMAIN plan /\ j.node \in DOMAIN plan
      /\ r.iteration \in Seq(Nat) /\ i.iteration \in Seq(Nat) /\ j.iteration \in Seq(Nat)
      /\ r.attempt \in Nat /\ i.attempt \in Nat
  BY DEF InvocationIds
<1>2. r.node \in Path[i.node] \ {i.node} /\ i.node \in Path[j.node] \ {j.node}
  BY DEF Within
<1>3. r.node \in Path[j.node] \ {j.node}
  <2>1. Path[i.node] \subseteq Path[j.node]
    BY <1>1, <1>2, PathThrough
  <2>2. r.node <= i.node /\ i.node <= j.node /\ r.node \in Nat /\ i.node \in Nat
    BY <1>1, <1>2, PathBelow
  <2>3. j.node \in Nat
    BY <1>1, PathOf
  <2>4. QED
    BY <1>2, <2>1, <2>2, <2>3
<1> DEFINE a == Append(r.iteration, r.attempt)
           b == Append(i.iteration, i.attempt)
<1>4. /\ a \in Seq(Nat) /\ b \in Seq(Nat) /\ IsPrefixOf(i.iteration, b)
      /\ IsPrefixOf(a, i.iteration) /\ IsPrefixOf(b, j.iteration)
  BY <1>1, AppendFacts DEF Within
<1> HIDE DEF a, b
<1>5. IsPrefixOf(a, b)
  BY <1>1, <1>4, PrefixFacts
<1>6. IsPrefixOf(a, j.iteration)
  BY <1>1, <1>4, <1>5, PrefixFacts
<1>7. QED
  BY <1>3, <1>6 DEF Within, a

\* What a row delegates to begins after the row has asked for it.
LEMMA NothingWithin ==
    ASSUME ExecInv, Sequenced, NEW t \in Pending, NEW r \in InvocationIds, Alike(r, t),
           plan[r.node].block = "action", r \notin DOMAIN records \cup Rows
    PROVE  \A j \in Begun : ~Within(r, j)
<1>1. TypeOK /\ Placed /\ AllCame /\ RootFits
  BY DEF ExecInv, Placed, Sequenced
<1>2. Len(r.iteration) = Depth(r.node)
  BY <1>1, PendingDeep DEF Alike
<1>3. QED
  BY <1>1, <1>2, KnownDeep

LEMMA RowsStay ==
    ASSUME ExecInv, Next, ~Return PROVE Rows \subseteq Rows'
<1>1. CASE \/ Pass \/ Skip \/ FaultWhen \/ EnterContainer \/ EnterLoop \/ FaultLoop \/ Iterate \/ LeaveContainer
           \/ BeginAction
  BY <1>1, StepWrites DEF Rows
<1>2. CASE FailEarly \/ CompleteInside \/ AskHost \/ EndUnit
  <2>1. calls' = calls
    BY <1>2, AttemptWrites DEF StaysPut
  <2>2. QED
    BY <2>1 DEF Rows
<1>3. CASE \/ NoEvent \/ NoMatch \/ HandlerRecovers \/ HandlerStops \/ HandlerFails
           \/ RetryRefused \/ RetryExhausted \/ RetryGranted
  BY <1>3, HandlingWrites DEF Rows
<1>4. CASE Delegate
  BY <1>4, DelegateIs
<1>5. QED
  BY <1>1, <1>2, <1>3, <1>4 DEF Next

\* A row reports an effect only when it returns.
LEMMA NotReturned ==
    ASSUME ExecInv, Next, NEW r \in DOMAIN records', r \notin DOMAIN records, plan[r.node].does = "execute",
           r \notin Rows
    PROVE  records'[r].effect = "none"
<1>1. CASE \/ Pass \/ Skip \/ FaultWhen \/ EnterContainer \/ EnterLoop \/ FaultLoop \/ Iterate \/ LeaveContainer
           \/ BeginAction
  BY <1>1, StepWrites
<1>2. CASE FailEarly \/ CompleteInside \/ AskHost \/ EndUnit
  <2>1. unit \notin DOMAIN records /\ r = unit
    BY <1>2, AttemptWrites DEF Writes
  <2>2. ~CompleteInside /\ ~AskHost /\ ~EndUnit
    BY <2>1 DEF CompleteInside, AskHost, EndUnit, Doing
  <2>3. FailEarly
    BY <1>2, <2>2
  <2>4. HasFailed(unit, "pre", "none", "no")
    BY <2>3 DEF FailEarly, HasFailed
  <2>5. QED
    BY <2>1, <2>4, OutcomeWrites
<1>3. CASE \/ NoEvent \/ NoMatch \/ HandlerRecovers \/ HandlerStops \/ HandlerFails
           \/ RetryRefused \/ RetryExhausted \/ RetryGranted
  BY <1>3, HandlingWrites DEF Writes
<1>4. CASE Delegate
  BY <1>4, DelegateIs
<1>5. CASE Return
  BY <1>5, ReturnIs DEF Writes
<1>6. QED
  BY <1>1, <1>2, <1>3, <1>4, <1>5 DEF Next

\* graph_result: what a row reports of the unit it ran.
LEMMA ReturnReports ==
    ASSUME ExecInv, Return, NEW c, c = Head(calls), plan[c.row.node].does = "execute"
    PROVE  /\ records'[c.row].status = "succeeded" =>
                 \A i \in Governing(c) : records[i].status = "succeeded"
           /\ records'[c.row].effect = "none" =>
                 GraphEffects(c) = {} \/ \A i \in Inside(c) : records[i].effect = "none"
           /\ records'[c.row].effect # "none" /\ records'[c.row].phase # "indeterminate" =>
                 GraphEffects(c) # {}
<1> DEFINE u == c.row
           S == GraphEffects(c)
           G == \A i \in Governing(c) : records[i].status = "succeeded"
           N == \A i \in Inside(c) : records[i].effect = "none"
<1>1. \/ G /\ records' = Put(records, u, Result("succeeded", "none", IF S = {} THEN "none" ELSE "applied", "no"))
      \/ S # {} /\ records' = Put(records, u, Result("running", "post", WorstOf(S), "no"))
      \/ N /\ records' = Put(records, u, Result("running", "pre", "none", "no"))
      \/ records' = Put(records, u, Result("running", "indeterminate", "indeterminate", "no"))
  BY DEF Return, Succeeds, Fails
<1>2. WorstOf(S) # "none"
  BY DEF WorstOf
<1> HIDE DEF u, S, G, N
<1>3. ASSUME NEW r, records' = Put(records, u, r) PROVE records'[u] = r
  BY <1>3 DEF Put, PutAll
<1>4. CASE G /\ records' = Put(records, u, Result("succeeded", "none", IF S = {} THEN "none" ELSE "applied", "no"))
  <2>1. records'[u] = Result("succeeded", "none", IF S = {} THEN "none" ELSE "applied", "no")
    BY <1>3, <1>4
  <2>2. records'[u].effect = (IF S = {} THEN "none" ELSE "applied")
    BY <2>1 DEF Result
  <2>3. (records'[u].effect = "none" => S = {}) /\ (records'[u].effect # "none" => S # {})
    BY <2>2
  <2>4. QED
    BY <1>4, <2>3 DEF G, S, u
<1>5. CASE S # {} /\ records' = Put(records, u, Result("running", "post", WorstOf(S), "no"))
  <2>1. records'[u] = Result("running", "post", WorstOf(S), "no")
    BY <1>3, <1>5
  <2>2. records'[u].status # "succeeded" /\ records'[u].effect # "none"
    BY <1>2, <2>1 DEF Result
  <2>3. QED
    BY <1>5, <2>2 DEF S, u
<1>6. CASE N /\ records' = Put(records, u, Result("running", "pre", "none", "no"))
  <2>1. records'[u] = Result("running", "pre", "none", "no")
    BY <1>3, <1>6
  <2>2. records'[u].status # "succeeded" /\ records'[u].effect = "none"
    BY <2>1 DEF Result
  <2>3. QED
    BY <1>6, <2>2 DEF N, u
<1>7. CASE records' = Put(records, u, Result("running", "indeterminate", "indeterminate", "no"))
  <2>1. records'[u] = Result("running", "indeterminate", "indeterminate", "no")
    BY <1>3, <1>7
  <2>2. /\ records'[u].status # "succeeded" /\ records'[u].effect # "none"
        /\ records'[u].phase = "indeterminate"
    BY <2>1 DEF Result
  <2>3. QED
    BY <2>2 DEF u
<1>8. QED
  BY <1>1, <1>4, <1>5, <1>6, <1>7

\* What is recorded while a row delegates is part of what it delegates to.
LEMMA SinceKeeps ==
    ASSUME ExecInv, ExecInv', Sequenced, Since, Next PROVE Since'
<1>1. PICK t, New : Moves(t, New)
  BY NextMoves DEF Moved
<1>2. /\ t \in Pending /\ \A y \in Pending : y = t \/ Higher(t, y)
      /\ \A i \in DOMAIN records' :
            i \in DOMAIN records \/ (Alike(i, t) /\ (t.op = "row" => i = Id(t.node, t.iteration, t.attempt)))
      /\ DOMAIN records \subseteq DOMAIN records' /\ plan' = plan
  BY <1>1, NextKept DEF Moves, Turn, Replaced, Kept
<1>3. \A i, j : Within(i, j)' <=> Within(i, j)
  BY <1>2, OrderSame
<1>4. TypeOK /\ Placed /\ Rows \subseteq InvocationIds /\ RowsOnce'
  BY StepsTyped DEF ExecInv, Placed
<1>5. \A c \in StepsOf(calls) : c.row \in Rows /\ c.before \subseteq DOMAIN records
  BY <1>4 DEF StepsOf, Rows, TypeOK
<1>6. \A c \in StepsOf(calls') : c.row \in Rows' /\ c.row \notin DOMAIN records'
  BY <1>4 DEF StepsOf, Rows, RowsOnce
<1>7. ASSUME NEW c \in StepsOf(calls), c.row \notin DOMAIN records', NEW j \in DOMAIN records', j \notin DOMAIN records
      PROVE  Within(c.row, j)
  <2>1. PICK y \in Pending : y.op = "row" /\ y.node = c.row.node /\ y.iteration = c.row.iteration
                             /\ y.attempt = c.row.attempt
    BY <1>4, <1>5, PendingAll DEF PendingCovers, Active
  <2>2. c.row = Id(y.node, y.iteration, y.attempt)
    BY <1>4, <1>5, <2>1, IdIs
  <2>3. y # t
    BY <1>2, <1>7, <2>1, <2>2
  <2>4. Within(y, t)
    BY <1>2, <2>1, <2>3 DEF Sequenced, Nested, InOrderOf
  <2>5. j.node = t.node /\ j.iteration = t.iteration
    BY <1>2, <1>7 DEF Alike
  <2>6. QED
    BY <2>1, <2>4, <2>5 DEF Within
<1>8. ASSUME NEW c \in StepsOf(calls'), c \in StepsOf(calls), NEW j \in DOMAIN records'
      PROVE  j \in c.before <=> ~Within(c.row, j)
  BY <1>5, <1>6, <1>7, <1>8 DEF Since
<1>9. ASSUME NEW c \in StepsOf(calls'), c \notin StepsOf(calls), NEW j \in DOMAIN records'
      PROVE  j \in c.before <=> ~Within(c.row, j)
  <2>1. CASE Delegate
    <3>1. /\ c = [row |-> unit, outer |-> queue, before |-> DOMAIN records] /\ records' = records
          /\ unit \in InvocationIds /\ unit \notin DOMAIN records \cup Rows /\ plan[unit.node].block = "action"
          /\ at = "attempt"
      BY <1>9, <2>1, DelegateIs
    <3>2. c.row = unit /\ c.before = DOMAIN records
      BY <3>1
    <3>3. PICK y \in Pending : y.node = unit.node /\ y.iteration = unit.iteration
      BY <1>4, <3>1, PendingAll DEF PendingCovers, Active
    <3>4. ~Within(unit, j)
      BY <3>1, <3>3, NothingWithin DEF Alike, Begun
    <3>5. QED
      BY <3>1, <3>2, <3>4
  <2>2. CASE Return
    BY <1>9, <2>2, ReturnIs
  <2>3. CASE ~Delegate /\ ~Return
    <3>1. calls' = calls
      <4>1. CASE \/ Pass \/ Skip \/ FaultWhen \/ EnterContainer \/ EnterLoop \/ FaultLoop \/ Iterate
                 \/ LeaveContainer \/ BeginAction
        BY <4>1, StepWrites
      <4>2. CASE FailEarly \/ CompleteInside \/ AskHost \/ EndUnit
        BY <4>2, AttemptWrites DEF StaysPut
      <4>3. CASE \/ NoEvent \/ NoMatch \/ HandlerRecovers \/ HandlerStops \/ HandlerFails
                 \/ RetryRefused \/ RetryExhausted \/ RetryGranted
        BY <4>3, HandlingWrites
      <4>4. QED
        BY <2>3, <4>1, <4>2, <4>3 DEF Next
    <3>2. QED
      BY <1>9, <3>1
  <2>4. QED
    BY <2>1, <2>2, <2>3
<1>10. QED
  BY <1>3, <1>8, <1>9 DEF Since

\* What a call counts as done inside it: all that has an effect.
LEMMA InsideIs ==
    ASSUME TypeOK, Told, Since, NEW c \in StepsOf(calls)
    PROVE  /\ \A i \in Inside(c) : i \in DOMAIN records /\ Within(c.row, i)
           /\ \A i \in DOMAIN records :
                 Within(c.row, i) /\ (records[i].phase # "none" \/ Observed(i)) => i \in Inside(c)
<1>1. \A i \in DOMAIN records : i \notin c.before <=> Within(c.row, i)
  BY DEF Since
<1>2. \A i \in DOMAIN records : Observed(i) =>
         records[i].phase # "none" \/ (plan[i.node].block = "action" /\ records[i].status = "succeeded")
  BY DEF Told, Observed
<1>3. QED
  BY <1>1, <1>2 DEF Inside

\* What a row reports of effects is what some ACTION of its unit reported itself.
LEMMA LeafKeeps ==
    ASSUME ExecInv, ExecInv', Kept, Told, Since, Leaf, Next PROVE Leaf'
<1>1. /\ plan' = plan /\ DOMAIN records \subseteq DOMAIN records'
      /\ \A i \in DOMAIN records : Observed(i)' <=> Observed(i)
  BY DEF Kept, Observed
<1>2. \A i, j : Within(i, j)' <=> Within(i, j)
  BY <1>1, OrderSame
<1> SUFFICES ASSUME NEW r \in DOMAIN records', plan[r.node].does = "execute", Observed(r)'
             PROVE  \E i \in DOMAIN records : Within(r, i) /\ plan[i.node].does # "execute" /\ Observed(i)
  BY <1>1, <1>2 DEF Leaf
<1>3. CASE r \in DOMAIN records
  BY <1>1, <1>3 DEF Leaf
<1>4. CASE r \notin DOMAIN records
  <2>1. records'[r].effect # "none" /\ records'[r].phase # "indeterminate"
    BY DEF Observed
  <2>2. r \in Rows
    BY <1>4, <2>1, NotReturned
  <2>3. r \notin Rows'
    BY <2>2 DEF ExecInv, Placed, RowsOnce, Rows
  <2>4. Return
    BY <2>2, <2>3, RowsStay
  <2> DEFINE c == Head(calls)
  <2>5. r = c.row /\ c \in StepsOf(calls)
    BY <2>2, <2>3, <2>4, ReturnIs
  <2> HIDE DEF c
  <2>6. c = Head(calls)
    BY DEF c
  <2>7. GraphEffects(c) # {}
    BY <2>1, <2>4, <2>5, <2>6, ReturnReports
  <2>8. PICK i \in Inside(c) : Observed(i) /\ plan[i.node].does # "execute"
    BY <2>7 DEF GraphEffects
  <2>9. i \in DOMAIN records /\ Within(r, i)
    BY <2>5, <2>8, InsideIs DEF ExecInv
  <2>10. QED
    BY <2>8, <2>9
<1>5. QED
  BY <1>3, <1>4

\* A row that returns reports what its unit did.
LEMMA ReturnTrue ==
    ASSUME ExecInv, ExecInv', Kept, Told, Since, Leaf, Return, NEW c, c = Head(calls),
           plan[c.row.node].does = "execute",
           NEW i \in DOMAIN records, Within(c.row, i), plan[i.node].block = "action"
    PROVE  /\ records'[c.row].status = "succeeded" => ~Unhandled(i)'
           /\ records'[c.row].effect = "none" => ~Observed(i)
<1>1. /\ c \in StepsOf(calls) /\ c.row \in InvocationIds /\ c.row \notin DOMAIN records /\ TypeOK
      /\ Writes(c.row) /\ IsPlan(plan) /\ DOMAIN records \subseteq InvocationIds
  BY ReturnIs, PlanIs DEF ExecInv, TypeOK
<1>2. ASSUME records'[c.row].status = "succeeded", Unhandled(i)' PROVE FALSE
  <2>1. /\ records'[i].status = "failed" /\ records'[i].phase # "none"
        /\ Again(i) \notin DOMAIN records'
    BY <1>2 DEF Unhandled, Again
  <2>2. i # c.row
    BY <1>1
  <2>3. records[i].status = "failed" /\ records[i].phase # "none" /\ Again(i) \notin DOMAIN records
    BY <1>1, <2>1, <2>2 DEF Writes
  <2>4. i \in Inside(c)
    BY <1>1, <2>3, InsideIs
  <2>5. i \in Governing(c)
    BY <2>3, <2>4 DEF Governing
  <2>6. records[i].status = "succeeded"
    BY <1>2, <2>5, ReturnReports
  <2>7. QED
    BY <2>3, <2>6
<1>3. ASSUME records'[c.row].effect = "none", Observed(i) PROVE FALSE
  <2>1. i \in Inside(c)
    BY <1>1, <1>3, InsideIs
  <2>2. records[i].effect # "none"
    BY <1>3 DEF Observed
  <2>3. GraphEffects(c) = {}
    BY <1>3, <2>1, <2>2, ReturnReports
  <2>4. plan[i.node].does = "execute"
    BY <1>3, <2>1, <2>3 DEF GraphEffects
  <2>5. PICK j \in DOMAIN records : Within(i, j) /\ plan[j.node].does # "execute" /\ Observed(j)
    BY <1>3, <2>4 DEF Leaf
  <2>6. Within(c.row, j)
    BY <1>1, <2>5, WithinWithin
  <2>7. j \in Inside(c)
    BY <1>1, <2>5, <2>6, InsideIs
  <2>8. QED
    BY <2>3, <2>5, <2>7 DEF GraphEffects
<1>4. QED
  BY <1>2, <1>3

\* A row that has its result says of its unit what holds from then on.
LEMMA RowTrueKeeps ==
    ASSUME ExecInv, ExecInv', Kept, Sequenced, Stopping, Told', ActionsEnd, Since, Leaf, RowTrue, Next
    PROVE  RowTrue'
<1>1. PICK t, New : Moves(t, New)
  BY NextMoves DEF Moved
<1>2. /\ t \in Pending /\ Begun \subseteq Begun'
      /\ \A i \in DOMAIN records' : i \in DOMAIN records \/ Alike(i, t)
      /\ DOMAIN records \subseteq DOMAIN records' /\ plan' = plan
  BY <1>1 DEF Moves, Turn, Replaced, Kept
<1>3. \A i, j : Within(i, j)' <=> Within(i, j)
  BY <1>2, OrderSame
<1>4. /\ TypeOK /\ Placed /\ IsPlan(plan) /\ Told
      /\ DOMAIN records' \subseteq InvocationIds /\ DOMAIN records \subseteq InvocationIds
  <2>1. InvocationIds' = InvocationIds
    BY <1>2 DEF InvocationIds
  <2>2. QED
    BY <2>1, PlanIs DEF ExecInv, TypeOK, Stopping
<1>5. \A i \in DOMAIN records : Observed(i)' <=> Observed(i)
  BY DEF Kept, Observed
<1> SUFFICES ASSUME NEW r \in DOMAIN records', NEW i \in DOMAIN records',
                    plan[r.node].does = "execute", Within(r, i), plan[i.node].block = "action"
             PROVE  /\ records'[r].status = "succeeded" => ~Unhandled(i)'
                    /\ records'[r].effect = "none" => ~Observed(i)'
  BY <1>2, <1>3 DEF RowTrue
<1>6. r.node \in DOMAIN plan /\ plan[r.node].block = "action"
  <2>1. r.node \in DOMAIN plan
    BY <1>4 DEF InvocationIds
  <2>2. "execute" # "none"
    OBVIOUS
  <2>3. QED
    BY <1>4, <2>1, <2>2 DEF IsPlan
<1>7. CASE r \in DOMAIN records
  <2>1. \A x \in Pending : ~Within(r, x)
    BY <1>6, <1>7 DEF Sequenced, RowsClosed
  <2>2. i \in DOMAIN records
    <3>1. ~Within(r, t)
      BY <1>2, <2>1
    <3>2. ~Alike(i, t)
      BY <3>1 DEF Within, Alike
    <3>3. QED
      BY <1>2, <3>2
  <2>3. i \notin Active
    <3>1. SUFFICES ASSUME i \in Active PROVE FALSE
      OBVIOUS
    <3>2. PICK x \in Pending : x.node = i.node /\ x.iteration = i.iteration
      BY <1>4, <3>1, PendingAll DEF PendingCovers
    <3>3. Within(r, x)
      BY <3>2 DEF Within
    <3>4. QED
      BY <2>1, <3>3
  <2>4. ASSUME records'[r].status = "succeeded", Unhandled(i)' PROVE FALSE
    <3>1. records[r].status = "succeeded"
      BY <1>6, <1>7, <2>4, SucceededIs
    <3>2. Unhandled(i)
      BY <1>2, <2>3, <2>4, UnhandledIs
    <3>3. QED
      BY <1>7, <2>2, <3>1, <3>2 DEF RowTrue
  <2>5. ASSUME records'[r].effect = "none", Observed(i)' PROVE FALSE
    <3>1. records[r].effect = "none" /\ Observed(i)
      BY <1>5, <1>7, <2>2, <2>5 DEF Kept
    <3>2. QED
      BY <1>7, <2>2, <3>1 DEF RowTrue
  <2>6. QED
    BY <2>4, <2>5
<1>8. CASE r \notin DOMAIN records
  <2>1. Alike(r, t) /\ r \in InvocationIds
    BY <1>2, <1>4, <1>8
  <2>2. i \in DOMAIN records
    <3>1. ~Within(r, r)
      BY DEF Within
    <3>2. ASSUME Alike(i, t) PROVE Within(r, r)
      BY <2>1, <3>2 DEF Within, Alike
    <3>3. QED
      BY <1>2, <3>1, <3>2
  <2>3. r \in Rows
    <3>1. SUFFICES ASSUME r \notin Rows PROVE FALSE
      OBVIOUS
    <3>2. i \in Begun
      BY <2>2 DEF Begun
    <3>3. QED
      BY <1>2, <1>6, <1>8, <2>1, <3>1, <3>2, NothingWithin
  <2>4. r \notin Rows'
    BY <2>3 DEF ExecInv, Placed, RowsOnce, Rows
  <2>5. Return
    BY <2>3, <2>4, RowsStay
  <2> DEFINE c == Head(calls)
  <2>6. r = c.row
    BY <2>3, <2>4, <2>5, ReturnIs
  <2> HIDE DEF c
  <2>7. c = Head(calls)
    BY DEF c
  <2>8. /\ records'[r].status = "succeeded" => ~Unhandled(i)'
        /\ records'[r].effect = "none" => ~Observed(i)
    BY <1>4, <2>2, <2>5, <2>6, <2>7, ReturnTrue
  <2>9. QED
    BY <1>5, <2>2, <2>8
<1>9. QED
  BY <1>7, <1>8

Reported == ActionsEnd /\ Since /\ Leaf /\ RowTrue

LEMMA ReportedNext ==
    ExecInv /\ ExecInv' /\ Sequenced /\ Stopping /\ Stopping' /\ Reported /\ [Next]_vars => Reported'
<1> SUFFICES ASSUME ExecInv, ExecInv', Sequenced, Stopping, Stopping', Reported, [Next]_vars PROVE Reported'
  OBVIOUS
<1>1. CASE UNCHANGED vars
  <2>1. /\ plan' = plan /\ calls' = calls /\ at' = at /\ unit' = unit /\ records' = records /\ events' = events
    BY <1>1 DEF vars
  <2>2. Active' = Active /\ StepsOf(calls') = StepsOf(calls)
    BY <2>1 DEF Active, Rows, StepsOf
  <2>3. \A i, j : Within(i, j)' = Within(i, j)
    BY <2>1, OrderSame
  <2>4. \A i : Unhandled(i)' = Unhandled(i) /\ Observed(i)' = Observed(i)
    BY <2>1, <2>2 DEF Unhandled, Observed, Again
  <2>5. ActionsEnd'
    BY <2>1 DEF Reported, ActionsEnd
  <2>6. Since'
    BY <2>1, <2>2, <2>3 DEF Reported, Since
  <2>7. Leaf'
    BY <2>1, <2>3, <2>4 DEF Reported, Leaf
  <2>8. RowTrue'
    BY <2>1, <2>3, <2>4 DEF Reported, RowTrue
  <2>9. QED
    BY <2>5, <2>6, <2>7, <2>8 DEF Reported
<1>2. CASE Next
  <2>1. Kept /\ Told /\ Told'
    BY <1>2, NextKept DEF Stopping
  <2>2. ActionsEnd'
    BY <1>2, ActionsEndKeeps DEF Reported
  <2>3. Since'
    BY <1>2, SinceKeeps DEF Reported
  <2>4. Leaf'
    BY <1>2, <2>1, LeafKeeps DEF Reported
  <2>5. RowTrue'
    BY <1>2, <2>1, RowTrueKeeps DEF Reported
  <2>6. QED
    BY <2>2, <2>3, <2>4, <2>5 DEF Reported
<1>3. QED
  BY <1>1, <1>2

LEMMA ReportedSpec == Spec => []Reported
<1>1. Init => Reported
  BY DEF Init, Reported, ActionsEnd, Since, Leaf, RowTrue, StepsOf
<1>2. QED
  BY <1>1, ExecSpec, SequencedSpec, StoppingSpec, ReportedNext, PTL DEF Spec

\* A delegating row reports success only if each ACTION its unit ran has succeeded in its
\* last attempt or been recovered, and admits no effect only if none of them reported one
\* (execute_graph, graph_result), whatever is delegated in turn.
THEOREM RowReportsUnitHolds == Spec => []RowReportsUnit
<1>1. RowTrue => RowReportsUnit
  <2> SUFFICES ASSUME RowTrue, NEW row \in DOMAIN records \ Active, NEW i \in DOMAIN records,
                      plan[row.node].does = "execute", row.node \in Path[i.node] \ {i.node},
                      IsPrefixOf(Append(row.iteration, row.attempt), i.iteration),
                      plan[i.node].block = "action"
               PROVE  /\ records[row].status = "succeeded" => ~Unhandled(i)
                      /\ records[row].effect = "none" => ~Observed(i)
    BY DEF RowReportsUnit
  <2>1. Within(row, i)
    BY DEF Within
  <2>2. QED
    BY <2>1 DEF RowTrue
<1>2. QED
  BY <1>1, ReportedSpec, PTL DEF Reported
=============================================================================
