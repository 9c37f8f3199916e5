--------------------------- MODULE RunGateProofs ---------------------------
(***************************************************************************)
(* Proofs about RunGate, for any number of invocations.                    *)
(*                                                                         *)
(* None of the properties is inductive: that an effect was consented to is *)
(* decided long before it is performed, when an answer is accepted for a   *)
(* pause.  Inv carries the answer along the run thread's way: from the     *)
(* pause's entry in `asked` (AtPause), through what `hold` returns         *)
(* (Returned), to the host's gate (Allowed, Refusal).                      *)
(***************************************************************************)
EXTENDS RunGate, TLAPS

\* Pauses and answers are numbered by sequence numbers given out, pauses uniquely.
Numbered ==
    /\ \A q \in asked : q.sequence \in 1..sequence /\ q.inv \in 1..made
    /\ \A p, q \in asked : p.sequence = q.sequence => p = q
    /\ \A r \in reply : r.sequence \in 1..sequence

\* An open pause is the latest, the run thread is at it, and it has no answer yet.
OpenPause ==
    paused # 0 =>
        /\ paused = sequence /\ pc \in {"announce", "waiting"}
        /\ answer = "none" /\ ~cancelled
        /\ \A r \in reply : r.sequence # sequence

\* At a pause that is no longer open, what was accepted is in `answer`.
AtPause ==
    pc \in {"announce", "waiting"} =>
        /\ sequence >= 1 /\ Ask(sequence, kind, inv) \in asked
        /\ ~cancelled => paused = sequence \/ Reply(sequence, answer) \in reply
        /\ pc = "waiting" => sequence \in shown

\* What `hold` returned was answered, or the run is cancelled.
Returned ==
    pc \in {"resumed", "held"} =>
        /\ got = "cancel" => cancelled
        /\ kind = "effect" /\ got = "continue" => Answered(inv, "effect", "continue")

Allowed ==
    pc \in {"granting", "invoke", "perform"} /\ breaks.on_effect =>
        Answered(inv, "effect", "continue")

\* A refusal of the invocation the run thread is at is still on its way to the
\* host gate, or recorded for it.
Refusal ==
    ~again =>
        /\ pc \in {"register", "dispatch", "granting", "invoke", "perform"} => ~Denied(inv)
        /\ pc \in {"announce", "waiting"} /\ Denied(inv) => answer = "deny" \/ cancelled
        /\ pc \in {"resumed", "held"} /\ Denied(inv) => got # "continue"
        /\ pc \in {"host", "permits"} /\ Denied(inv) => inv \in refused \/ cancelled

\* An invocation that is being made, or has its graph run, is not performed yet.
Nesting ==
    /\ outer \subseteq 1..made /\ performed \subseteq 1..made
    /\ outer \cap performed = {}
    /\ pc \notin Between => inv \in 1..made /\ inv \notin outer /\ inv \notin performed
    /\ again => pc \notin Effecting /\ (pc \in Holding => kind = "operation")

Ends ==
    /\ pc # "done" => ~finished
    /\ late <= 1 /\ (late > 0 => cancelled) /\ (pc = "perform" => late = 0)

Inv ==
    /\ TypeOK /\ Numbered /\ OpenPause /\ AtPause /\ Returned /\ Allowed /\ Refusal
    /\ Nesting /\ Ends /\ ConsentBeforeEffect /\ RefusedNotPerformed /\ AnsweredOnce

LEMMA InvInit == Init => Inv
<1> SUFFICES ASSUME Init PROVE Inv
  OBVIOUS
<1> USE DEF Init
<1>1. TypeOK
  <2>1. made \in 0..MaxInvocations /\ inv \in 0..MaxInvocations /\ 0 \in Nat
    BY RunGateAssumption
  <2>2. asked = {} /\ reply = {} /\ pc \in Places
    BY DEF Places, Between
  <2>3. QED
    BY <2>1, <2>2 DEF TypeOK, Kinds, Answers
<1>2. Numbered /\ OpenPause /\ AtPause /\ Returned /\ Allowed /\ Refusal /\ Ends
  BY DEF Numbered, OpenPause, AtPause, Returned, Allowed, Refusal, Ends
<1>3. Nesting
  BY DEF Nesting, Between
<1>4. ConsentBeforeEffect /\ RefusedNotPerformed /\ AnsweredOnce
  BY DEF ConsentBeforeEffect, RefusedNotPerformed, AnsweredOnce
<1>5. QED
  BY <1>1, <1>2, <1>3, <1>4 DEF Inv

\* The sets and records the model is written with.
USE RunGateAssumption DEF Kinds, Answers, Breaks, Invocations, Ask, Reply,
                          Places, Between, Holding, Effecting

\* A pause is registered for a live run, under a number never used.
LEMMA HoldRegisterInv == ASSUME Inv, HoldRegister PROVE Inv'
<1> USE DEF Inv, HoldRegister, Live, Number
<1>1. TypeOK'
  BY DEF TypeOK, Nesting
<1>2. Numbered'
  BY DEF Numbered, TypeOK, Nesting
<1>3. OpenPause'
  BY DEF OpenPause, TypeOK, Numbered
<1>4. AtPause'
  BY DEF AtPause, TypeOK
<1>5. Refusal'
  BY DEF Refusal, TypeOK, Numbered, Denied, Answered
<1>6. RefusedNotPerformed'
  BY DEF RefusedNotPerformed, Nesting, Denied, Answered
<1>7. Nesting' /\ Ends' /\ AnsweredOnce'
  BY DEF Nesting, Ends, AnsweredOnce
<1>8. Returned' /\ Allowed' /\ ConsentBeforeEffect'
  BY DEF Returned, Answered, Allowed, ConsentBeforeEffect
<1>9. QED
  BY <1>1, <1>2, <1>3, <1>4, <1>5, <1>6, <1>7, <1>8

LEMMA HoldRefuseInv == ASSUME Inv, HoldRefuse PROVE Inv'
<1> USE DEF Inv, HoldRefuse, Live, gate, history
<1>1. Returned'
  BY DEF Returned, Ends, Answered
<1>2. TypeOK' /\ Numbered' /\ OpenPause' /\ AtPause' /\ Nesting' /\ Ends'
      /\ AnsweredOnce'
  BY DEF TypeOK, Numbered, OpenPause, AtPause, Nesting, Ends, AnsweredOnce
<1>3. Allowed' /\ Refusal' /\ ConsentBeforeEffect' /\ RefusedNotPerformed'
  BY DEF Allowed, Answered, Refusal, Denied, ConsentBeforeEffect,
         RefusedNotPerformed
<1>4. QED
  BY <1>1, <1>2, <1>3

LEMMA HoldAnnounceInv == ASSUME Inv, HoldAnnounce PROVE Inv'
<1> USE DEF Inv, HoldAnnounce, gate
<1>1. TypeOK' /\ Numbered' /\ OpenPause' /\ AtPause' /\ Nesting' /\ Ends'
      /\ AnsweredOnce'
  BY DEF TypeOK, Numbered, OpenPause, AtPause, Nesting, Ends, AnsweredOnce
<1>2. Returned' /\ Allowed' /\ Refusal' /\ ConsentBeforeEffect'
      /\ RefusedNotPerformed'
  BY DEF Returned, Answered, Allowed, Refusal, Denied, ConsentBeforeEffect,
         RefusedNotPerformed
<1>3. QED
  BY <1>1, <1>2

\* What `hold` returns was accepted for this very pause.
LEMMA HoldResumeInv == ASSUME Inv, HoldResume PROVE Inv'
<1> USE DEF Inv, HoldResume, Woken, history
<1>1. Returned'
  BY DEF Returned, TypeOK, AtPause, OpenPause, Ends, Answered
<1>2. TypeOK' /\ Numbered' /\ OpenPause' /\ AtPause' /\ Nesting' /\ Ends'
      /\ AnsweredOnce'
  BY DEF TypeOK, Numbered, OpenPause, AtPause, Nesting, Ends, AnsweredOnce
<1>3. Allowed' /\ Refusal' /\ ConsentBeforeEffect' /\ RefusedNotPerformed'
  BY DEF Allowed, Answered, Refusal, Denied, ConsentBeforeEffect,
         RefusedNotPerformed
<1>4. QED
  BY <1>1, <1>2, <1>3

LEMMA HoldReturnInv == ASSUME Inv, HoldReturn PROVE Inv'
<1> USE DEF Inv, HoldReturn, gate, history
<1>1. TypeOK' /\ Numbered' /\ OpenPause' /\ AtPause' /\ Nesting' /\ Ends'
      /\ AnsweredOnce'
  BY DEF TypeOK, Numbered, OpenPause, AtPause, Nesting, Ends, AnsweredOnce
<1>2. Returned' /\ Allowed' /\ Refusal' /\ ConsentBeforeEffect'
      /\ RefusedNotPerformed'
  BY DEF Returned, Answered, Allowed, Refusal, Denied, ConsentBeforeEffect,
         RefusedNotPerformed
<1>3. QED
  BY <1>1, <1>2

\* A new invocation has been asked about by nobody.
LEMMA InvokeInv == ASSUME Inv, Invoke PROVE Inv'
<1> USE DEF Inv, Invoke, Watch, gate, history
<1>1. TypeOK'
  <2>1. made' \in 0..MaxInvocations /\ inv' \in 0..MaxInvocations
    BY DEF TypeOK
  <2>2. pc' \in Places
    BY DEF Places
  <2>3. QED
    BY <2>1, <2>2 DEF TypeOK, gate, history
<1>2. Numbered'
  BY DEF Numbered, TypeOK
<1>3. Refusal'
  <2>1. inv' = made + 1 /\ \A q \in asked : q.inv # made + 1
    BY DEF TypeOK, Numbered
  <2>2. pc' \in {"register", "dispatch"} /\ asked' = asked /\ reply' = reply
    BY DEF history
  <2>3. ~Denied(inv)'
    BY <2>1, <2>2 DEF Denied, Answered
  <2>4. QED
    BY <2>2, <2>3 DEF Refusal
<1>4. Nesting'
  BY DEF Nesting, TypeOK
<1>5. OpenPause' /\ AtPause' /\ Ends' /\ AnsweredOnce'
  BY DEF OpenPause, AtPause, Ends, AnsweredOnce
<1>6. Returned' /\ Allowed' /\ ConsentBeforeEffect' /\ RefusedNotPerformed'
  BY DEF Returned, Answered, Allowed, ConsentBeforeEffect, RefusedNotPerformed,
         Denied
<1>7. QED
  BY <1>1, <1>2, <1>3, <1>4, <1>5, <1>6

LEMMA InvokeAgainInv == ASSUME Inv, InvokeAgain PROVE Inv'
<1> USE DEF Inv, InvokeAgain, Watch, gate, history
<1>1. TypeOK' /\ Numbered' /\ OpenPause' /\ AtPause' /\ Nesting' /\ Ends'
      /\ AnsweredOnce'
  BY DEF TypeOK, Numbered, OpenPause, AtPause, Nesting, Ends, AnsweredOnce
<1>2. Returned' /\ Allowed' /\ Refusal' /\ ConsentBeforeEffect'
      /\ RefusedNotPerformed'
  BY DEF Returned, Answered, Allowed, Refusal, Denied, ConsentBeforeEffect,
         RefusedNotPerformed
<1>3. QED
  BY <1>1, <1>2

\* A refusal is recorded on its way to the host gate.
LEMMA AfterOperationInv == ASSUME Inv, AfterOperation PROVE Inv'
<1> USE DEF Inv, AfterOperation, Refusals, history
<1>1. TypeOK'
  BY DEF TypeOK, Nesting
<1>2. Refusal'
  BY DEF Refusal, TypeOK, Returned, Denied, Answered
<1>3. Numbered' /\ OpenPause' /\ AtPause' /\ Nesting' /\ Ends' /\ AnsweredOnce'
  BY DEF Numbered, OpenPause, AtPause, Nesting, Ends, AnsweredOnce
<1>4. Returned' /\ Allowed' /\ ConsentBeforeEffect' /\ RefusedNotPerformed'
  BY DEF Returned, Answered, Allowed, ConsentBeforeEffect, RefusedNotPerformed,
         Denied
<1>5. QED
  BY <1>1, <1>2, <1>3, <1>4

LEMMA DispatchInv == ASSUME Inv, Dispatch PROVE Inv'
<1> USE DEF Inv, Dispatch, gate, history
<1>1. TypeOK'
  <2>1. inv \in Invocations
    BY DEF TypeOK, Nesting
  <2>2. outer' \in SUBSET Invocations
    BY <2>1 DEF TypeOK
  <2>3. pc' \in Places
    BY DEF Places
  <2>4. QED
    BY <2>2, <2>3 DEF TypeOK, gate, history
<1>2. Nesting'
  <2>1. inv \in 1..made /\ inv \notin outer /\ inv \notin performed /\ performed' = performed
    BY DEF Nesting, history
  <2>2. CASE UNCHANGED outer
    BY <2>1, <2>2 DEF Nesting
  <2>3. CASE pc' = "idle" /\ outer' = outer \cup {inv}
    BY <2>1, <2>3 DEF Nesting
  <2>4. QED
    BY <2>2, <2>3
<1>3. Numbered' /\ OpenPause' /\ AtPause' /\ Ends' /\ AnsweredOnce'
  BY DEF Numbered, OpenPause, AtPause, Ends, AnsweredOnce
<1>4. Returned' /\ Allowed' /\ Refusal' /\ ConsentBeforeEffect'
      /\ RefusedNotPerformed'
  BY DEF Returned, Answered, Allowed, Refusal, Denied, ConsentBeforeEffect,
         RefusedNotPerformed
<1>5. QED
  BY <1>1, <1>2, <1>3, <1>4

LEMMA ToHostInv == ASSUME Inv, ToHost PROVE Inv'
<1> USE DEF Inv, ToHost, gate, history
<1>1. TypeOK' /\ Numbered' /\ OpenPause' /\ AtPause' /\ Nesting' /\ Ends'
      /\ AnsweredOnce'
  BY DEF TypeOK, Numbered, OpenPause, AtPause, Nesting, Ends, AnsweredOnce
<1>2. Returned' /\ Allowed' /\ Refusal' /\ ConsentBeforeEffect'
      /\ RefusedNotPerformed'
  BY DEF Returned, Answered, Allowed, Refusal, Denied, ConsentBeforeEffect,
         RefusedNotPerformed
<1>3. QED
  BY <1>1, <1>2

LEMMA PermitsInv == ASSUME Inv, Permits PROVE Inv'
<1> USE DEF Inv, Permits, gate, history
<1>1. TypeOK' /\ Numbered' /\ OpenPause' /\ AtPause' /\ Nesting' /\ Ends'
      /\ AnsweredOnce'
  BY DEF TypeOK, Numbered, OpenPause, AtPause, Nesting, Ends, AnsweredOnce
<1>2. Returned' /\ Allowed' /\ Refusal' /\ ConsentBeforeEffect'
      /\ RefusedNotPerformed'
  BY DEF Returned, Answered, Allowed, Refusal, Denied, ConsentBeforeEffect,
         RefusedNotPerformed
<1>3. QED
  BY <1>1, <1>2

LEMMA AfterEffectInv == ASSUME Inv, AfterEffect PROVE Inv'
<1> USE DEF Inv, AfterEffect, gate, history
<1>1. Allowed'
  BY DEF Allowed, Returned, Answered
<1>2. TypeOK' /\ Numbered' /\ OpenPause' /\ AtPause' /\ Nesting' /\ Ends'
      /\ AnsweredOnce'
  BY DEF TypeOK, Numbered, OpenPause, AtPause, Nesting, Ends, AnsweredOnce
<1>3. Returned' /\ Refusal' /\ ConsentBeforeEffect' /\ RefusedNotPerformed'
  BY DEF Returned, Answered, Refusal, Denied, ConsentBeforeEffect,
         RefusedNotPerformed
<1>4. QED
  BY <1>1, <1>2, <1>3

LEMMA GrantInv == ASSUME Inv, Grant PROVE Inv'
<1> USE DEF Inv, Grant, gate, history
<1>1. TypeOK' /\ Numbered' /\ OpenPause' /\ AtPause' /\ Nesting' /\ Ends'
      /\ AnsweredOnce'
  BY DEF TypeOK, Numbered, OpenPause, AtPause, Nesting, Ends, AnsweredOnce
<1>2. Returned' /\ Allowed' /\ Refusal' /\ ConsentBeforeEffect'
      /\ RefusedNotPerformed'
  BY DEF Returned, Answered, Allowed, Refusal, Denied, ConsentBeforeEffect,
         RefusedNotPerformed
<1>3. QED
  BY <1>1, <1>2

LEMMA HostInvokeInv == ASSUME Inv, HostInvoke PROVE Inv'
<1> USE DEF Inv, HostInvoke, gate, history
<1>1. Ends'
  BY DEF Ends, TypeOK
<1>2. TypeOK' /\ Numbered' /\ OpenPause' /\ AtPause' /\ Nesting' /\ AnsweredOnce'
  BY DEF TypeOK, Numbered, OpenPause, AtPause, Nesting, AnsweredOnce
<1>3. Returned' /\ Allowed' /\ Refusal' /\ ConsentBeforeEffect'
      /\ RefusedNotPerformed'
  BY DEF Returned, Answered, Allowed, Refusal, Denied, ConsentBeforeEffect,
         RefusedNotPerformed
<1>4. QED
  BY <1>1, <1>2, <1>3

\* Only here is anything performed.
LEMMA PerformInv == ASSUME Inv, Perform PROVE Inv'
<1> USE DEF Inv, Perform, gate
<1>1. TypeOK'
  BY DEF TypeOK, Nesting
<1>2. Nesting'
  BY DEF Nesting, TypeOK
<1>3. ConsentBeforeEffect'
  BY DEF ConsentBeforeEffect, Allowed, Answered
<1>4. RefusedNotPerformed'
  BY DEF RefusedNotPerformed, TypeOK, Nesting, Refusal, Denied, Answered
<1>5. Numbered' /\ OpenPause' /\ AtPause' /\ Ends' /\ AnsweredOnce'
  BY DEF Numbered, OpenPause, AtPause, Ends, AnsweredOnce
<1>6. Returned' /\ Allowed' /\ Refusal'
  BY DEF Returned, Answered, Allowed, Refusal, Denied
<1>7. QED
  BY <1>1, <1>2, <1>3, <1>4, <1>5, <1>6

LEMMA ReportInv == ASSUME Inv, Report PROVE Inv'
<1> USE DEF Inv, Report, gate, history
<1>1. TypeOK' /\ Numbered' /\ OpenPause' /\ AtPause' /\ Nesting' /\ Ends'
      /\ AnsweredOnce'
  BY DEF TypeOK, Numbered, OpenPause, AtPause, Nesting, Ends, AnsweredOnce
<1>2. Returned' /\ Allowed' /\ Refusal' /\ ConsentBeforeEffect'
      /\ RefusedNotPerformed'
  BY DEF Returned, Answered, Allowed, Refusal, Denied, ConsentBeforeEffect,
         RefusedNotPerformed
<1>3. QED
  BY <1>1, <1>2

LEMMA FinishInv == ASSUME Inv, Finish PROVE Inv'
<1> USE DEF Inv, Finish, history
<1>1. TypeOK' /\ Numbered' /\ OpenPause' /\ AtPause' /\ Nesting' /\ Ends'
      /\ AnsweredOnce'
  BY DEF TypeOK, Numbered, OpenPause, AtPause, Nesting, Ends, AnsweredOnce
<1>2. Returned' /\ Allowed' /\ Refusal' /\ ConsentBeforeEffect'
      /\ RefusedNotPerformed'
  BY DEF Returned, Answered, Allowed, Refusal, Denied, ConsentBeforeEffect,
         RefusedNotPerformed
<1>3. QED
  BY <1>1, <1>2

\* An answer is accepted once, for the pause the run thread is at, whose invocation is
\* not performed.
LEMMA AnswerInv ==
    ASSUME Inv, NEW n \in 1..sequence, NEW a \in {"continue", "deny"}, Answer(n, a)
    PROVE  Inv'
<1> USE DEF Inv, Answer, worker
<1>1. AtPause'
  BY DEF AtPause, OpenPause
<1>2. Refusal'
  BY DEF Refusal, OpenPause, Denied, Answered
<1>3. RefusedNotPerformed'
  BY DEF RefusedNotPerformed, TypeOK, Numbered, AtPause, OpenPause, Nesting, Denied,
         Answered
<1>4. AnsweredOnce'
  BY DEF AnsweredOnce, OpenPause
<1>5. TypeOK' /\ Numbered' /\ OpenPause' /\ Nesting' /\ Ends'
  BY DEF TypeOK, Numbered, OpenPause, Nesting, Ends
<1>6. Returned' /\ Allowed' /\ ConsentBeforeEffect'
  BY DEF Returned, Answered, Allowed, ConsentBeforeEffect
<1>7. QED
  BY <1>1, <1>2, <1>3, <1>4, <1>5, <1>6

LEMMA CancelInv == ASSUME Inv, Cancel PROVE Inv'
<1> USE DEF Inv, Cancel, worker, history
<1>1. TypeOK' /\ Numbered' /\ OpenPause' /\ AtPause' /\ Nesting' /\ Ends'
      /\ AnsweredOnce'
  BY DEF TypeOK, Numbered, OpenPause, AtPause, Nesting, Ends, AnsweredOnce
<1>2. Returned' /\ Allowed' /\ Refusal' /\ ConsentBeforeEffect'
      /\ RefusedNotPerformed'
  BY DEF Returned, Answered, Allowed, Refusal, Denied, ConsentBeforeEffect,
         RefusedNotPerformed
<1>3. QED
  BY <1>1, <1>2

LEMMA InvNext == Inv /\ [Next]_vars => Inv'
<1> SUFFICES ASSUME Inv, [Next]_vars PROVE Inv'
  OBVIOUS
<1>1. CASE Work
  BY <1>1, HoldRegisterInv, HoldRefuseInv, HoldAnnounceInv, HoldResumeInv, HoldReturnInv,
     InvokeInv, InvokeAgainInv, AfterOperationInv, DispatchInv, ToHostInv,
     PermitsInv, AfterEffectInv, GrantInv, HostInvokeInv, PerformInv, ReportInv,
     FinishInv DEF Work
<1>2. CASE \E n \in 1..sequence, a \in {"continue", "deny"} : Answer(n, a)
  BY <1>2, AnswerInv
<1>3. CASE Cancel
  BY <1>3, CancelInv
<1>4. CASE UNCHANGED vars
  <2> USE <1>4 DEF vars, worker, gate, history
  <2>1. TypeOK' /\ Numbered' /\ OpenPause' /\ AtPause' /\ Nesting' /\ Ends' /\ AnsweredOnce'
    BY DEF Inv, TypeOK, Numbered, OpenPause, AtPause, Nesting, Ends, AnsweredOnce
  <2>2. Returned' /\ Allowed' /\ Refusal' /\ ConsentBeforeEffect' /\ RefusedNotPerformed'
    BY DEF Inv, Returned, Allowed, Refusal, ConsentBeforeEffect, RefusedNotPerformed, Denied,
           Answered
  <2>3. QED
    BY <2>1, <2>2 DEF Inv
<1>5. QED
  BY <1>1, <1>2, <1>3, <1>4 DEF Next

LEMMA Invariant == Spec => []Inv
  BY InvInit, InvNext, PTL DEF Spec

-----------------------------------------------------------------------------
(* Theorems. *)

\* The run and its gate stay what their types say, the refusals recorded included.
THEOREM TypeCorrect == Spec => []TypeOK
<1>1. Inv => TypeOK
  BY DEF Inv
<1>2. QED
  BY Invariant, <1>1, PTL

\* No effect is performed without the consent that was asked for (WatchedHost).
THEOREM Consent == Spec => []ConsentBeforeEffect
<1>1. Inv => ConsentBeforeEffect
  BY DEF Inv
<1>2. QED
  BY Invariant, <1>1, PTL

\* Nothing that was refused is performed (WatchedOperations, WatchedHost).
THEOREM Refused == Spec => []RefusedNotPerformed
<1>1. Inv => RefusedNotPerformed
  BY DEF Inv
<1>2. QED
  BY Invariant, <1>1, PTL

\* A pause takes one answer (Session::answer).
THEOREM OneAnswer == Spec => []AnsweredOnce
<1>1. Inv => AnsweredOnce
  BY DEF Inv
<1>2. QED
  BY Invariant, <1>1, PTL

\* A cancelled run performs at most the effect that had passed its last check, and
\* has no pause open (Session::cancel, Session::hold).
THEOREM Stops == Spec => []CancelStops
<1>1. Inv => CancelStops
  BY DEF Inv, TypeOK, Ends, OpenPause, CancelStops
<1>2. QED
  BY Invariant, <1>1, PTL

\* A run never waits at a pause that is not the current one and in the log
\* (Session::hold).
THEOREM Answerable == Spec => []WaitsAnswerably
<1>1. Inv => WaitsAnswerably
  <2> SUFFICES ASSUME Inv, pc = "waiting", answer = "none", ~cancelled
               PROVE  paused = sequence /\ sequence \in shown
    BY DEF WaitsAnswerably
  <2>1. Reply(sequence, "none") \notin reply
    BY DEF Inv, TypeOK, Reply
  <2>2. QED
    BY <2>1 DEF Inv, AtPause
<1>2. QED
  BY Invariant, <1>1, PTL
=============================================================================
