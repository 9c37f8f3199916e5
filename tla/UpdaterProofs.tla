--------------------------- MODULE UpdaterProofs ---------------------------
(***************************************************************************)
(* Proofs about Updater, for any processes, installations of any number of *)
(* parts, any releases, failures and kills.                                *)
(*                                                                         *)
(* Only the process that holds the lock matters (`holder`): a process is   *)
(* past its start exactly if it has the lock.  What the properties need of *)
(* it at each place is Fits: what is staged is the signed manifest's, the  *)
(* copy is of a whole installation, and how far the installer or the       *)
(* restoring has come.  An installer that a killed process left goes on    *)
(* without the lock: Lefts says that, unless an installation began beside  *)
(* it, it is the only one and the copy of what it began on is kept.        *)
(***************************************************************************)
EXTENDS Updater, TLAPS

Process == [op : Actions, at : Places, version : 0..MaxVersion, stale : BOOLEAN,
            ask : BOOLEAN, found : 0..MaxVersion, part : 0..(NParts + 1),
            was : BOOLEAN, whole : BOOLEAN]

Resting(r) == r.at \in {"none", "start", "left"}

holder == IF lock = None THEN Idle ELSE proc[lock]

\* A process has the lock exactly while it acts, and none but the one that
\* acts has stopped the service.
Alone ==
    \A p \in Procs :
        /\ lock = p <=> ~Resting(proc[p])
        /\ Resting(proc[p]) => ~proc[p].was

\* No part installed or copied is newer than version v.
Covers(v) == \A q \in Parts : installed[q] <= v /\ rollback[q] <= v

Newest ==
    /\ Covers(latest)
    /\ manifest <= latest
    /\ manifest # 0 => Covers(manifest)

\* What holds of the process that acts, at the place it has come to.
Fits(r) ==
    /\ r.was => r.op = "apply" /\ r.at \in {"installing", "restoring", "restored"}
    /\ r.op = "check" /\ r.at \in {"manifest", "signature"} => r.found <= latest /\ Covers(r.found)
    /\ r.op = "apply" /\ r.at \in {"waiting", "copying", "stopping", "installing"} =>
          saved_manifest /\ staged_payload
    /\ r.op = "apply" /\ r.at = "stopping" => torn \/ (Uniform(installed) /\ Uniform(rollback))
    /\ r.op = "apply" /\ r.at \in {"installing", "restoring"} => torn \/ Uniform(rollback)
    /\ r.op = "apply" /\ r.at = "installing" =>
          /\ r.part \in 1..(NParts + 1)
          /\ torn \/ \A q \in Parts : q < r.part => installed[q] = staging.version
    /\ r.op = "apply" /\ r.at = "restoring" =>
          /\ r.part \in 0..NParts
          /\ r.whole => torn \/ \A q \in Parts : q > r.part => installed[q] = rollback[q]
    /\ r.op = "apply" /\ r.at = "restored" => (r.was => remote \/ lostService)

\* The service is as it was at first, or was stopped by the process that acts.
Serves(r) == lostService \/ IF r.was THEN ran ELSE remote = ran

Whole(r) ==
    \/ torn \/ Uniform(installed) \/ Uniform(rollback)
    \/ r.op = "apply" /\ r.at \in {"installing", "restoring"}

\* The copy is taken, and is not gone yet.
Late(r) == r.op = "apply" /\ r.at \in {"stopping", "installing", "restoring", "restored"}

\* The installer left of p is alone with what it found.
Undisturbed(p, r) ==
    /\ Uniform(rollback)
    /\ \A q \in Parts : installed[q] <= proc[p].version
    /\ ~Late(r)
    /\ \A x \in Procs : Left(x) => x = p

\* What holds of the installers that were left, while r acts.
Lefts(r) ==
    \A p \in Procs : Left(p) =>
        /\ proc[p].version <= latest
        /\ manifest # 0 => proc[p].version <= manifest
        /\ r.op = "check" /\ r.at \in {"manifest", "signature"} => proc[p].version <= r.found
        /\ torn \/ Undisturbed(p, r)

Inv ==
    /\ TypeOK /\ Alone /\ Newest
    /\ Fits(holder) /\ Serves(holder) /\ Whole(holder) /\ Lefts(holder)

States == [state : {"up_to_date", "update_available", "downloading", "ready_to_install",
                    "installing", "failed"}, available : 0..MaxVersion]
Payloads == [version : 0..MaxVersion, whole : BOOLEAN]
Copies == [Parts -> Versions \cup {Missing}]

-----------------------------------------------------------------------------
(* The process that acts. *)

LEMMA IdleFacts ==
    /\ Idle \in Process /\ Resting(Idle) /\ Idle.was = FALSE /\ Idle.op = "none" /\ Idle.ask = FALSE
    /\ Idle.at = "none" /\ NoPayload \in Payloads /\ NoCopy \in Copies
    /\ \A q \in Parts : NoCopy[q] = 0
<1>1. 0 \in 0..MaxVersion /\ 0 \in 0..(NParts + 1)
  BY UpdaterAssumption
<1>2. Idle \in Process
  BY <1>1 DEF Idle, Process, Actions, Places
<1>3. NoPayload \in Payloads /\ NoCopy \in Copies
  BY <1>1 DEF NoPayload, NoCopy, Payloads, Copies
<1>4. QED
  BY <1>2, <1>3 DEF Idle, Resting, NoCopy, Missing

LEMMA IdleFits == Fits(Idle)
BY IdleFacts DEF Fits

LEMMA IdleFitsNext == Fits(Idle)'
BY IdleFacts DEF Fits

LEMMA Types ==
    ASSUME Inv
    PROVE  /\ latest \in 1..MaxVersion /\ installed \in Copies /\ rollback \in Copies
           /\ manifest \in 0..MaxVersion /\ signature \in 0..MaxVersion /\ staging \in Payloads
           /\ state \in States /\ lock \in Procs \cup {None} /\ proc \in [Procs -> Process]
           /\ remote \in BOOLEAN /\ torn \in BOOLEAN /\ ran \in BOOLEAN
           /\ workspace \in {"open", "closing", "closed"}
           /\ lostWindow \in BOOLEAN /\ lostService \in BOOLEAN
           /\ MaxVersion \in Nat \ {0} /\ NParts \in Nat \ {0} /\ None \notin Procs
           /\ state.available \in 0..MaxVersion
BY UpdaterAssumption
   DEF Inv, TypeOK, Process, States, Payloads, Copies, Versions

LEMMA TypesNext ==
    ASSUME latest' \in 1..MaxVersion, installed' \in Copies, rollback' \in Copies,
           manifest' \in 0..MaxVersion, signature' \in 0..MaxVersion, staging' \in Payloads,
           state' \in States, lock' \in Procs \cup {None}, proc' \in [Procs -> Process],
           remote' \in BOOLEAN, torn' \in BOOLEAN, ran' \in BOOLEAN,
           workspace' \in {"open", "closing", "closed"}, lostWindow' \in BOOLEAN,
           lostService' \in BOOLEAN
    PROVE  TypeOK'
BY DEF TypeOK, Process, States, Payloads, Copies, Versions

LEMMA HolderFacts ==
    ASSUME Inv, NEW p \in Procs, ~Resting(proc[p])
    PROVE  /\ lock = p /\ proc[p] \in Process
           /\ Fits(proc[p]) /\ Serves(proc[p]) /\ Whole(proc[p])
<1>1. lock = p /\ p # None
  BY Types DEF Inv, Alone
<1>2. holder = proc[p]
  BY <1>1 DEF holder
<1>3. Fits(proc[p]) /\ Serves(proc[p]) /\ Whole(proc[p])
  BY <1>2 DEF Inv
<1>4. QED
  BY <1>1, <1>3, Types

LEMMA LateAlone ==
    ASSUME Inv, NEW p \in Procs, Late(proc[p])
    PROVE  torn \/ \A x \in Procs : ~Left(x)
<1>1. holder = proc[p]
  <2>1. ~Resting(proc[p])
    BY DEF Late, Resting
  <2>2. QED
    BY <2>1, HolderFacts, Types DEF holder
<1>2. QED
  BY <1>1 DEF Inv, Lefts, Undisturbed

\* The others stay as they are, but for a program replaced under them.
Others(p) ==
    \A q \in Procs : q # p =>
        /\ proc'[q].at = proc[q].at /\ proc'[q].was = proc[q].was
        /\ proc'[q].op = proc[q].op /\ proc'[q].version = proc[q].version

\* A step of p that goes on as r does not disturb an installer that was left, or
\* counts as an installation begun beside it.
Spares(p, r) ==
    /\ latest' = latest /\ (torn => torn')
    /\ \/ manifest' \in {manifest, 0}
       \/ /\ proc[p].op = "check" /\ proc[p].at \in {"manifest", "signature"}
          /\ manifest' = proc[p].found
    /\ r.op = "check" /\ r.at \in {"manifest", "signature"} =>
          \/ r.found = latest
          \/ /\ proc[p].op = "check" /\ proc[p].at \in {"manifest", "signature"}
             /\ r.found = proc[p].found
    /\ \/ torn' \/ \A x \in Procs : ~Left(x)
       \/ UNCHANGED <<rollback, installed>> /\ (Late(r) => Late(proc[p]))

LEMMA LeftsSpared ==
    ASSUME Inv, NEW p \in Procs, ~Resting(proc[p]), NEW r,
           Others(p), ~Left(p)', Spares(p, r)
    PROVE  Lefts(r)'
<1>1. holder = proc[p] /\ Lefts(proc[p])
  BY HolderFacts, Types DEF holder, Inv
<1>2. \A x \in Procs : Left(x)' => Left(x) /\ x # p /\ proc'[x].version = proc[x].version
  BY DEF Left, At, Others
<1> SUFFICES ASSUME NEW x \in Procs, Left(x), x # p, proc'[x].version = proc[x].version
             PROVE  /\ proc[x].version <= latest'
                    /\ manifest' # 0 => proc[x].version <= manifest'
                    /\ r.op = "check" /\ r.at \in {"manifest", "signature"} =>
                          proc[x].version <= r.found
                    /\ torn' \/ Undisturbed(x, r)'
  BY <1>2 DEF Lefts, Late, Undisturbed
<1>3. /\ proc[x].version <= latest /\ (manifest # 0 => proc[x].version <= manifest)
      /\ proc[p].op = "check" /\ proc[p].at \in {"manifest", "signature"} =>
            proc[x].version <= proc[p].found
      /\ torn \/ Undisturbed(x, proc[p])
  BY <1>1 DEF Lefts
<1>4. torn' \/ Undisturbed(x, r)'
  <2>1. CASE torn' \/ \A y \in Procs : ~Left(y)
    BY <2>1
  <2>2. CASE ~torn' /\ UNCHANGED <<rollback, installed>> /\ (Late(r) => Late(proc[p]))
    <3>1. Undisturbed(x, proc[p])
      BY <1>3, <2>2 DEF Spares
    <3>2. QED
      BY <1>2, <2>2, <3>1 DEF Undisturbed, Uniform, Late
  <2>3. QED
    BY <2>1, <2>2 DEF Spares
<1>5. QED
  BY <1>3, <1>4 DEF Spares

\* The process that acts goes on as r, or it ends or is killed.
LEMMA HolderStep ==
    ASSUME Inv, NEW p \in Procs, ~Resting(proc[p]), NEW r \in Process,
           proc' \in [Procs -> Process], Others(p),
           \/ lock' = p /\ ~Resting(r) /\ proc'[p] = r
           \/ lock' = None /\ r = Idle /\ Resting(proc'[p]) /\ ~proc'[p].was,
           TypeOK', Newest', Fits(r)', Serves(r)', Whole(r)', Lefts(r)'
    PROVE  Inv'
<1>1. lock = p /\ p # None
  BY HolderFacts, Types
<1>2. holder' = r
  BY <1>1 DEF holder
<1>3. Alone'
  <2> SUFFICES ASSUME NEW q \in Procs
               PROVE  /\ lock' = q <=> ~Resting(proc'[q])
                      /\ Resting(proc'[q]) => ~proc'[q].was
    BY DEF Alone, Resting
  <2>1. CASE q = p
    BY <1>1, <2>1 DEF Resting
  <2>2. CASE q # p
    <3>1. Resting(proc[q]) /\ ~proc[q].was
      BY <1>1, <2>2 DEF Inv, Alone
    <3>2. lock' # q
      BY <2>2, Types
    <3>3. QED
      BY <2>2, <3>1, <3>2 DEF Resting, Others
  <2>3. QED
    BY <2>1, <2>2
<1>4. Fits(holder)'
  BY <1>2 DEF Fits
<1>5. Serves(holder)' /\ Whole(holder)'
  BY <1>2 DEF Serves, Whole
<1>6. Lefts(holder)'
  BY <1>2 DEF Lefts, Undisturbed, Late
<1>7. QED
  BY <1>3, <1>4, <1>5, <1>6 DEF Inv

\* A process that has not begun starts, ends or is killed, or something around
\* changes: the process that acts is the same.
LEMMA AsideStep ==
    ASSUME Inv, proc' \in [Procs -> Process], lock' = lock,
           \A q \in Procs : \/ proc'[q] = proc[q]
                            \/ /\ Resting(proc[q]) /\ Resting(proc'[q]) /\ ~proc'[q].was
                               /\ proc'[q].at # "left",
           UNCHANGED <<Files, state, Service, torn, ran>>,
           latest' \in 1..MaxVersion, latest <= latest',
           workspace' \in {"open", "closing", "closed"}, lostWindow' \in BOOLEAN
    PROVE  Inv'
<1>1. TypeOK'
  BY Types, TypesNext DEF Files, Service
<1>2. Alone'
  <2> SUFFICES ASSUME NEW q \in Procs
               PROVE  /\ lock' = q <=> ~Resting(proc'[q])
                      /\ Resting(proc'[q]) => ~proc'[q].was
    BY DEF Alone, Resting
  <2>1. QED
    BY DEF Inv, Alone, Resting
<1>3. holder' = holder
  <2>1. CASE lock = None
    BY <2>1 DEF holder
  <2>2. CASE lock # None
    BY <2>2, Types DEF holder, Inv, Alone, Resting
  <2>3. QED
    BY <2>1, <2>2
<1>4. /\ installed' = installed /\ rollback' = rollback /\ manifest' = manifest
      /\ signature' = signature /\ staging' = staging
  BY DEF Files
<1>5. \A v \in Nat : Covers(v) => Covers(v)'
  BY <1>4 DEF Covers
<1>6. \A q \in Parts : installed[q] \in Nat /\ rollback[q] \in Nat
  BY Types DEF Copies, Versions, Missing
<1>7. Newest'
  BY <1>4, <1>6, Types DEF Inv, Newest, Covers
<1>8. holder \in Process
  BY Types, IdleFacts DEF holder
<1>9. holder.op = "check" /\ holder.at \in {"manifest", "signature"} => holder.found <= latest'
  BY <1>8, Types DEF Inv, Fits, Process
<1>10. Fits(holder)'
  BY <1>3, <1>4, <1>9
     DEF Inv, Fits, saved_manifest, staged_payload, Uniform, Covers, Service
<1>11. Serves(holder)' /\ Whole(holder)'
  BY <1>3, <1>4 DEF Inv, Serves, Whole, Uniform, Service
<1>12. Lefts(holder)'
  <2>1. \A x \in Procs : Left(x)' => Left(x) /\ proc'[x] = proc[x]
    BY DEF Left, At
  <2> SUFFICES ASSUME NEW x \in Procs, Left(x), proc'[x] = proc[x]
               PROVE  /\ proc[x].version <= latest'
                      /\ manifest # 0 => proc[x].version <= manifest
                      /\ holder.op = "check" /\ holder.at \in {"manifest", "signature"} =>
                            proc[x].version <= holder.found
                      /\ torn \/ Undisturbed(x, holder)'
    BY <1>3, <1>4, <2>1 DEF Lefts
  <2>2. proc[x].version \in Nat
    BY Types DEF Process
  <2>3. torn \/ Undisturbed(x, holder)'
    BY <1>3, <1>4, <2>1 DEF Inv, Lefts, Undisturbed, Uniform, Late
  <2>4. QED
    BY <2>2, <2>3, Types DEF Inv, Lefts
<1>13. QED
  BY <1>1, <1>2, <1>7, <1>10, <1>11, <1>12 DEF Inv

\* The process that acts goes on as r.
LEMMA OnStep ==
    ASSUME Inv, NEW p \in Procs, ~Resting(proc[p]), NEW r \in Process, ~Resting(r),
           proc' = [proc EXCEPT ![p] = r], lock' = lock, Spares(p, r),
           TypeOK', Newest', Fits(r)', Serves(r)', Whole(r)'
    PROVE  Inv'
<1>1. /\ proc' \in [Procs -> Process] /\ proc'[p] = r
      /\ \A q \in Procs : q # p => proc'[q] = proc[q]
  BY Types
<1>2. lock' = p
  BY HolderFacts
<1>3. Others(p)
  BY <1>1 DEF Others
<1>4. Lefts(r)'
  BY <1>1, <1>3, LeftsSpared DEF Left, At, Resting
<1>5. QED
  BY <1>1, <1>2, <1>3, <1>4, HolderStep

\* The process that acts goes on, and what is installed, saved, staged and kept
\* stays, as do the service and the history.
LEMMA MoveStep ==
    ASSUME Inv, NEW p \in Procs, ~Resting(proc[p]), NEW r \in Process, ~Resting(r),
           proc' = [proc EXCEPT ![p] = r], lock' = lock, state' \in States,
           UNCHANGED <<Around, Files, ran>>,
           r.was = proc[p].was, Fits(r), ~Late(r),
           r.op = "check" /\ r.at \in {"manifest", "signature"} => r.found = latest,
           Whole(proc[p]) => Whole(r)
    PROVE  Inv'
<1>1. proc' \in [Procs -> Process]
  BY Types
<1>2. TypeOK'
  BY <1>1, Types, TypesNext DEF Files, Around, Window, Service
<1>3. Newest' /\ Fits(r)' /\ Serves(r)' /\ Whole(r)'
  BY HolderFacts
     DEF Files, Around, Service, Inv, Newest, Covers, Fits, Serves, Whole, saved_manifest,
         staged_payload, Uniform
<1>4. Spares(p, r)
  BY DEF Spares, Files, Around
<1>5. QED
  BY <1>2, <1>3, <1>4, OnStep

\* The process that acts ends, with nothing installed by it.
LEMMA EndStep ==
    ASSUME Inv, NEW p \in Procs, ~Resting(proc[p]), NEW said, NEW available,
           End(p, said, available),
           [state |-> said, available |-> available] \in States,
           Spares(p, Idle), ran' = ran, installed' \in Copies, rollback' \in Copies,
           manifest' \in 0..MaxVersion, signature' \in 0..MaxVersion, staging' \in Payloads,
           remote' \in BOOLEAN, torn' \in BOOLEAN,
           workspace' \in {"open", "closing", "closed"}, lostWindow' \in BOOLEAN,
           lostService' \in BOOLEAN, Newest', Serves(Idle)', Whole(Idle)'
    PROVE  Inv'
<1>1. /\ proc' = [proc EXCEPT ![p] = Idle] /\ lock' = None
      /\ state' = [state |-> said, available |-> available]
  BY DEF End
<1>2. /\ proc' \in [Procs -> Process] /\ proc'[p] = Idle
      /\ \A q \in Procs : q # p => proc'[q] = proc[q]
  BY <1>1, IdleFacts, Types
<1>3. TypeOK'
  BY <1>1, <1>2, Types, TypesNext DEF Spares
<1>4. Others(p)
  BY <1>2 DEF Others
<1>5. Lefts(Idle)'
  BY <1>2, <1>4, IdleFacts, LeftsSpared DEF Left, At
<1>6. QED
  BY <1>1, <1>2, <1>3, <1>4, <1>5, IdleFacts, IdleFitsNext, HolderStep

\* An action that leaves the installation, the copy and the service alone ends.
LEMMA PlainEnd ==
    ASSUME Inv, NEW p \in Procs, ~Resting(proc[p]), NEW said, NEW available,
           End(p, said, available),
           [state |-> said, available |-> available] \in States,
           UNCHANGED <<latest, installed, rollback, Service, torn, ran, manifest>>,
           signature' \in 0..MaxVersion, staging' \in Payloads,
           workspace' \in {"open", "closing", "closed"}, lostWindow' \in BOOLEAN,
           ~proc[p].was,
           ~(proc[p].op = "apply" /\ proc[p].at \in {"installing", "restoring"})
    PROVE  Inv'
<1>1. Newest'
  BY Types DEF Inv, Newest, Covers
<1>2. Serves(Idle)' /\ Whole(Idle)'
  BY HolderFacts, IdleFacts DEF Serves, Whole, Uniform, Service
<1>3. Spares(p, Idle)
  BY IdleFacts DEF Spares, Late
<1>4. QED
  BY <1>1, <1>2, <1>3, EndStep, Types DEF Service

LEMMA RelaunchTypes ==
    ASSUME Inv, NEW p \in Procs, relaunch(p)
    PROVE  workspace' \in {"open", "closing", "closed"} /\ lostWindow' \in BOOLEAN
BY Types DEF relaunch, Window

\* The lowest steps: what a state said may be.
LEMMA Said ==
    ASSUME NEW said \in {"up_to_date", "update_available", "downloading", "ready_to_install",
                         "installing", "failed"}, NEW available \in 0..MaxVersion
    PROVE  [state |-> said, available |-> available] \in States
BY DEF States

-----------------------------------------------------------------------------
(* Checking and downloading. *)

LEMMA CheckSteps ==
    ASSUME Inv, NEW p \in Procs,
           CheckEnds(p) \/ CheckFinds(p) \/ SaveManifest(p) \/ SaveSignature(p) \/ SaveFails(p)
    PROVE  Inv'
<1>1. /\ ~Resting(proc[p]) /\ proc[p].op = "check"
      /\ proc[p].at \in {"begun", "manifest", "signature"}
  BY DEF CheckEnds, CheckFinds, SaveManifest, SaveSignature, SaveFails, At, Resting
<1>2. /\ ~proc[p].was /\ proc[p] \in Process /\ Fits(proc[p]) /\ Newest
      /\ 0 \in 0..MaxVersion
  BY <1>1, HolderFacts, Types DEF Inv, Fits
<1>3. CASE CheckEnds(p)
  <2>1. /\ UNCHANGED <<Around, Files, Bounds>>
        /\ \/ End(p, "up_to_date", 0)
           \/ \E available \in {state.available, 0} : End(p, "failed", available)
    BY <1>3 DEF CheckEnds
  <2>2. /\ UNCHANGED <<latest, installed, rollback, Service, torn, ran, manifest>>
        /\ signature' \in 0..MaxVersion /\ staging' \in Payloads
        /\ workspace' \in {"open", "closing", "closed"} /\ lostWindow' \in BOOLEAN
    BY <2>1, Types DEF Around, Service, Window, Files, Bounds
  <2>3. CASE End(p, "up_to_date", 0)
    BY <1>1, <1>2, <2>2, <2>3, Said, PlainEnd
  <2>4. ASSUME NEW available \in {state.available, 0}, End(p, "failed", available) PROVE Inv'
    <3>1. available \in 0..MaxVersion
      BY <1>2, Types
    <3>2. QED
      BY <1>1, <1>2, <2>2, <2>4, <3>1, Said, PlainEnd
  <2>5. QED
    BY <2>1, <2>3, <2>4
<1>4. CASE CheckFinds(p)
  <2> DEFINE r == [proc[p] EXCEPT !.at = "manifest", !.found = latest]
  <2>1. latest \in 0..MaxVersion /\ "manifest" \in Places
    BY Types DEF Places
  <2>2. /\ r \in Process /\ r.at = "manifest" /\ r.op = "check" /\ r.found = latest
        /\ r.was = proc[p].was /\ ~Resting(r)
    BY <1>1, <1>2, <2>1 DEF Process, Resting
  <2>3. Fits(r)
    BY <1>2, <2>2, Types DEF Fits, Newest
  <2>4. (Whole(proc[p]) => Whole(r)) /\ ~Late(r)
    BY <1>1, <2>2 DEF Whole, Late
  <2>5. /\ proc' = [proc EXCEPT ![p] = r] /\ lock' = lock /\ state' \in States
        /\ UNCHANGED <<Around, Files, ran>>
    BY <1>4, Types DEF CheckFinds, Bounds
  <2> HIDE DEF r
  <2>6. QED
    BY <1>1, <2>2, <2>3, <2>4, <2>5, MoveStep
<1>5. CASE SaveManifest(p)
  <2>1. proc[p].at = "manifest" /\ proc[p].found <= latest /\ Covers(proc[p].found)
        /\ proc[p].found \in 0..MaxVersion
    BY <1>1, <1>2, <1>5 DEF SaveManifest, At, Fits, Process
  <2>2. [proc[p] EXCEPT !.at = "signature"] \in Process
    BY <1>2 DEF Process, Places
  <2>3. PICK r \in Process : r = [proc[p] EXCEPT !.at = "signature"]
    BY <2>2, Zenon
  <2>4. /\ r.at = "signature" /\ r.op = "check" /\ r.found = proc[p].found
        /\ r.was = proc[p].was /\ ~Resting(r)
    BY <1>1, <1>2, <2>3 DEF Process, Resting
  <2>5. /\ proc' = [proc EXCEPT ![p] = r] /\ lock' = lock /\ manifest' = proc[p].found
        /\ UNCHANGED <<latest, remote, workspace, lostWindow, lostService, torn, installed, rollback,
                       signature, staging, state, ran>>
    BY <1>5, <2>3 DEF SaveManifest, Goto, Around, Service, Window, Bounds
  <2>6. proc' \in [Procs -> Process] /\ proc'[p] = r /\ \A q \in Procs : q # p => proc'[q] = proc[q]
    BY <2>4, <2>5, Types
  <2>7. TypeOK'
    BY <2>1, <2>5, <2>6, Types, TypesNext
  <2>8. Newest' /\ Fits(r)'
    BY <1>2, <2>1, <2>4, <2>5 DEF Newest, Covers, Fits
  <2>9. Serves(r)' /\ Whole(r)'
    BY <1>1, <2>4, <2>5, HolderFacts DEF Serves, Whole, Uniform
  <2>10. Spares(p, r)
    BY <1>1, <2>1, <2>4, <2>5 DEF Spares, Late
  <2>11. QED
    BY <1>1, <2>4, <2>5, <2>7, <2>8, <2>9, <2>10, OnStep
<1>6. CASE SaveSignature(p)
  <2>1. proc[p].found \in 0..MaxVersion
    BY <1>2 DEF Process
  <2>2. /\ UNCHANGED <<latest, installed, rollback, Service, torn, ran, manifest>>
        /\ signature' \in 0..MaxVersion /\ staging' \in Payloads
        /\ workspace' \in {"open", "closing", "closed"} /\ lostWindow' \in BOOLEAN
        /\ \E said \in {"ready_to_install", "update_available"} : End(p, said, proc[p].found)
    BY <1>6, <2>1, Types DEF SaveSignature, Around, Service, Window, Bounds
  <2>3. QED
    BY <1>1, <1>2, <2>1, <2>2, Said, PlainEnd
<1>7. CASE SaveFails(p)
  <2>1. /\ UNCHANGED <<latest, installed, rollback, Service, torn, ran, manifest>>
        /\ signature' \in 0..MaxVersion /\ staging' \in Payloads
        /\ workspace' \in {"open", "closing", "closed"} /\ lostWindow' \in BOOLEAN /\ End(p, "failed", state.available)
    BY <1>7, Types DEF SaveFails, Around, Service, Window, Files, Bounds
  <2>2. QED
    BY <1>1, <1>2, <2>1, Types, Said, PlainEnd
<1>8. QED
  BY <1>3, <1>4, <1>5, <1>6, <1>7

\* A download changes what is staged, which only an installation relies on.
LEMMA DownloadSteps ==
    ASSUME Inv, NEW p \in Procs,
           DownloadBegins(p) \/ DownloadRefused(p) \/ Stage(p) \/ Staged(p) \/ DownloadFails(p)
    PROVE  Inv'
<1>1. /\ ~Resting(proc[p]) /\ proc[p].op = "download"
      /\ proc[p].at \in {"begun", "fetching", "validating"}
  BY DEF DownloadBegins, DownloadRefused, Stage, Staged, DownloadFails, At, Resting
<1>2. ~proc[p].was /\ proc[p] \in Process /\ Fits(proc[p]) /\ Newest
  BY <1>1, HolderFacts, Types DEF Inv, Fits
<1>3. CASE DownloadRefused(p) \/ Staged(p) \/ DownloadFails(p)
  <2>1. staging.version \in 0..MaxVersion /\ [staging EXCEPT !.whole = TRUE] \in Payloads
    BY Types DEF Payloads
  <2>2. /\ UNCHANGED <<latest, installed, rollback, Service, torn, ran, manifest>>
        /\ signature' \in 0..MaxVersion /\ staging' \in Payloads
        /\ workspace' \in {"open", "closing", "closed"} /\ lostWindow' \in BOOLEAN
        /\ \E said \in {"failed", "ready_to_install"} : End(p, said, state.available)
    BY <1>3, <2>1, IdleFacts, Types
       DEF DownloadRefused, Staged, DownloadFails, Around, Service, Window, Files, Bounds
  <2>3. QED
    BY <1>1, <1>2, <2>2, Types, Said, PlainEnd
<1>4. CASE DownloadBegins(p) \/ Stage(p)
  <2>1. PICK at \in {"fetching", "validating"} :
          /\ proc' = [proc EXCEPT ![p].at = at] /\ lock' = lock
          /\ UNCHANGED <<latest, remote, workspace, lostWindow, lostService, torn, installed,
                         rollback, manifest, signature, ran>>
    BY <1>4 DEF DownloadBegins, Stage, Goto, Around, Service, Window, Bounds
  <2>2. staging' \in Payloads /\ state' \in States
    <3>1. CASE DownloadBegins(p)
      BY <3>1, Types, IdleFacts DEF DownloadBegins, States
    <3>2. CASE Stage(p)
      BY <3>2, Types DEF Stage, Payloads
    <3>3. QED
      BY <1>4, <3>1, <3>2
  <2>3. [proc[p] EXCEPT !.at = at] \in Process
    BY <1>2 DEF Process, Places
  <2>4. PICK r \in Process : r = [proc[p] EXCEPT !.at = at]
    BY <2>3, Zenon
  <2>5. /\ r.at = at /\ r.op = "download" /\ r.was = proc[p].was /\ ~Resting(r)
    BY <1>1, <1>2, <2>4 DEF Process, Resting
  <2>6. proc' = [proc EXCEPT ![p] = r] /\ lock' = lock /\ proc' \in [Procs -> Process]
    BY <2>1, <2>4, Types
  <2>7. TypeOK'
    BY <2>1, <2>2, <2>6, Types, TypesNext
  <2>8. Newest' /\ Fits(r)'
    BY <1>2, <2>1, <2>5 DEF Newest, Covers, Fits
  <2>9. Serves(r)' /\ Whole(r)'
    BY <1>1, <2>1, <2>5, HolderFacts DEF Serves, Whole, Uniform
  <2>10. Spares(p, r)
    BY <2>1, <2>5 DEF Spares, Late
  <2>11. QED
    BY <1>1, <2>5, <2>6, <2>7, <2>8, <2>9, <2>10, OnStep
<1>5. QED
  BY <1>3, <1>4

-----------------------------------------------------------------------------
(* Installing. *)

\* Before anything is replaced.
LEMMA ApplyBeginsKeeps == ASSUME Inv, NEW p \in Procs, ApplyBegins(p) \/ Waited(p) PROVE Inv'
<1>1. /\ ~Resting(proc[p]) /\ proc[p].op = "apply" /\ proc[p].at \in {"begun", "waiting"}
      /\ proc[p] \in Process
  BY Types DEF ApplyBegins, Waited, At, Resting
<1>2. ~proc[p].was /\ saved_manifest /\ staged_payload
  <2>1. Fits(proc[p])
    BY <1>1, HolderFacts
  <2>2. QED
    BY <1>1, <2>1 DEF Fits, ApplyBegins, Installable, Waited, At
<1>3. PICK at \in {"waiting", "copying"} :
        /\ proc' = [proc EXCEPT ![p].at = at] /\ lock' = lock
        /\ UNCHANGED <<Around, Files, ran>>
  BY DEF ApplyBegins, Waited, Goto, Bounds
<1>4. state' \in States
  BY Types DEF ApplyBegins, Waited, States
<1> DEFINE r == [proc[p] EXCEPT !.at = at]
<1>5. /\ r \in Process /\ r.at = at /\ r.op = "apply" /\ r.was = proc[p].was /\ ~Resting(r)
  BY <1>1 DEF Process, Places, Resting
<1>6. proc' = [proc EXCEPT ![p] = r]
  BY <1>3
<1> HIDE DEF r
<1>7. Fits(r)
  BY <1>2, <1>5 DEF Fits
<1>8. (Whole(proc[p]) => Whole(r)) /\ ~Late(r)
  BY <1>1, <1>5 DEF Whole, Late
<1>9. QED
  BY <1>1, <1>3, <1>4, <1>5, <1>6, <1>7, <1>8, MoveStep

LEMMA RefusedKeeps == ASSUME Inv, NEW p \in Procs, ApplyRefused(p) \/ WaitTimesOut(p) PROVE Inv'
<1>1. /\ ~Resting(proc[p]) /\ proc[p].op = "apply" /\ proc[p].at \in {"begun", "waiting"}
  BY DEF ApplyRefused, WaitTimesOut, At, Resting
<1>2. ~proc[p].was
  BY <1>1, HolderFacts DEF Fits
<1>3. /\ End(p, "failed", state.available) /\ relaunch(p)
      /\ UNCHANGED <<latest, installed, rollback, Service, torn, ran, manifest>>
      /\ signature' = signature /\ staging' = staging
  BY DEF ApplyRefused, WaitTimesOut, Fail, Files, Bounds
<1>4. workspace' \in {"open", "closing", "closed"} /\ lostWindow' \in BOOLEAN
  BY <1>3, RelaunchTypes
<1>5. QED
  BY <1>1, <1>2, <1>3, <1>4, Types, Said, PlainEnd

\* The copy is taken: of a whole installation, or an installation on a mixture begins.
LEMMA TakeKeeps == ASSUME Inv, NEW p \in Procs, Take(p) PROVE Inv'
<1>1. /\ ~Resting(proc[p]) /\ proc[p].op = "apply" /\ proc[p].at = "copying"
      /\ proc[p] \in Process
  BY Types DEF Take, At, Resting
<1>2. ~proc[p].was /\ saved_manifest /\ staged_payload /\ Serves(proc[p])
  BY <1>1, HolderFacts DEF Fits
<1>3. [proc[p] EXCEPT !.at = "stopping"] \in Process
  BY <1>1 DEF Process, Places
<1>4. PICK r \in Process : r = [proc[p] EXCEPT !.at = "stopping"]
  BY <1>3, Zenon
<1>5. r.at = "stopping" /\ r.op = "apply" /\ r.was = proc[p].was /\ ~Resting(r)
  BY <1>1, <1>4 DEF Process, Resting
<1>6. /\ proc' = [proc EXCEPT ![p] = r] /\ lock' = lock /\ rollback' = installed
      /\ torn' = (torn \/ ~Uniform(installed) \/ \E x \in Procs : Left(x)) /\ torn' \in BOOLEAN
      /\ UNCHANGED <<latest, remote, workspace, lostWindow, lostService, installed, manifest,
                     signature, staging, state, ran>>
  BY <1>4, Types DEF Take, Tears, Goto, Service, Window, Bounds
<1>7. proc' \in [Procs -> Process]
  BY <1>6, Types
<1>8. TypeOK'
  BY <1>6, <1>7, Types, TypesNext
<1>9. Newest'
  BY <1>6 DEF Inv, Newest, Covers
<1>10. Fits(r)'
  BY <1>2, <1>5, <1>6 DEF Fits, saved_manifest, staged_payload, Uniform
<1>11. Serves(r)' /\ Whole(r)'
  BY <1>2, <1>5, <1>6 DEF Serves, Whole, Uniform
<1>12. Spares(p, r)
  BY <1>5, <1>6 DEF Spares
<1>13. QED
  BY <1>1, <1>5, <1>6, <1>8, <1>9, <1>10, <1>11, <1>12, OnStep

\* Without a copy the installation is left as it was, which is whole if the
\* installation did not begin on a mixture.
LEMMA CopyLost == ASSUME Inv, NEW p \in Procs, TakeFails(p) \/ StopFails(p) PROVE Inv'
<1>1. /\ ~Resting(proc[p]) /\ proc[p].op = "apply" /\ proc[p].at \in {"copying", "stopping"}
  BY DEF TakeFails, StopFails, At, Resting
<1>2. ~proc[p].was /\ Fits(proc[p]) /\ Serves(proc[p]) /\ Whole(proc[p])
  BY <1>1, HolderFacts DEF Fits
<1>3. /\ End(p, "failed", state.available) /\ relaunch(p)
      /\ UNCHANGED <<latest, installed, manifest, signature, staging, ran>>
  BY DEF TakeFails, StopFails, Fail, Bounds
<1>4. workspace' \in {"open", "closing", "closed"} /\ lostWindow' \in BOOLEAN
  BY <1>3, RelaunchTypes
<1>5. \/ rollback' = rollback /\ torn' = torn
      \/ /\ rollback' = NoCopy /\ torn' \in BOOLEAN /\ (torn => torn')
         /\ torn' \/ (Uniform(installed) /\ \A x \in Procs : ~Left(x))
  <2>1. CASE TakeFails(p)
    BY <2>1, Types DEF TakeFails, Tears
  <2>2. CASE StopFails(p)
    <3>1. proc[p].op = "apply" /\ proc[p].at = "stopping" /\ Late(proc[p])
      BY <2>2 DEF StopFails, At, Late
    <3>2. QED
      BY <1>2, <2>2, <3>1, LateAlone, Types DEF StopFails, Fits
  <2>3. QED
    BY <2>1, <2>2
<1>6. /\ remote' \in BOOLEAN /\ lostService' \in BOOLEAN
      /\ UNCHANGED <<remote, lostService>> \/ lostService'
  BY Types DEF TakeFails, StopFails, Service
<1>7. rollback' \in Copies /\ torn' \in BOOLEAN
  BY <1>5, IdleFacts, Types
<1>8. Newest'
  BY <1>3, <1>5, IdleFacts, Types DEF Inv, Newest, Covers
<1>9. Serves(Idle)'
  BY <1>2, <1>3, <1>6, IdleFacts DEF Serves
<1>10. Whole(Idle)'
  BY <1>1, <1>2, <1>3, <1>5 DEF Whole, Uniform
<1>11. Spares(p, Idle)
  BY <1>3, <1>5, IdleFacts DEF Spares, Late
<1>12. QED
  BY <1>1, <1>3, <1>4, <1>7, <1>8, <1>9, <1>10, <1>11, <1>6, Types, Said, EndStep

\* The service is stopped, and the process knows whether it ran.
LEMMA StopRemoteKeeps == ASSUME Inv, NEW p \in Procs, StopRemote(p) PROVE Inv'
<1>1. /\ ~Resting(proc[p]) /\ proc[p].op = "apply" /\ proc[p].at = "stopping"
      /\ proc[p] \in Process
  BY Types DEF StopRemote, At, Resting
<1>2. ~proc[p].was /\ Fits(proc[p]) /\ Serves(proc[p])
  BY <1>1, HolderFacts DEF Fits
<1> PICK was \in BOOLEAN :
        /\ was = remote \/ ~was
        /\ remote' = (remote /\ ~was)
        /\ proc' = [proc EXCEPT ![p].at = "installing", ![p].was = was, ![p].part = 1]
  BY DEF StopRemote
<1>3. [proc[p] EXCEPT !.at = "installing", !.was = was, !.part = 1] \in Process
  <2>1. "installing" \in Places /\ 1 \in 0..(NParts + 1)
    BY Types DEF Places
  <2>2. QED
    BY <1>1, <2>1 DEF Process
<1>4. PICK r \in Process : r = [proc[p] EXCEPT !.at = "installing", !.was = was, !.part = 1]
  BY <1>3, Zenon
<1>5. r.at = "installing" /\ r.op = "apply" /\ r.was = was /\ r.part = 1 /\ ~Resting(r)
  BY <1>1, <1>4 DEF Process, Resting
<1>6. /\ proc' = [proc EXCEPT ![p] = r] /\ lock' = lock /\ remote' \in BOOLEAN
      /\ UNCHANGED <<latest, workspace, lostWindow, lostService, torn, installed, rollback,
                     manifest, signature, staging, state, ran>>
  BY <1>4, Types DEF StopRemote, Files, Window, Bounds
<1>7. proc' \in [Procs -> Process]
  BY <1>6, Types
<1>8. TypeOK'
  BY <1>6, <1>7, Types, TypesNext
<1>9. Newest'
  BY <1>6 DEF Inv, Newest, Covers
<1>10. Fits(r)'
  <2>1. 1 \in 1..(NParts + 1) /\ \A q \in Parts : ~(q < 1)
    BY Types DEF Parts
  <2>2. saved_manifest /\ staged_payload /\ (torn \/ Uniform(rollback))
    BY <1>1, <1>2 DEF Fits
  <2>3. QED
    BY <1>5, <1>6, <2>1, <2>2 DEF Fits, saved_manifest, staged_payload, Uniform
<1>11. Serves(r)'
  BY <1>2, <1>5, <1>6, Types DEF Serves
<1>12. Whole(r)'
  BY <1>5 DEF Whole
<1>13. Spares(p, r)
  BY <1>1, <1>5, <1>6 DEF Spares, Late
<1>14. QED
  BY <1>1, <1>5, <1>6, <1>8, <1>9, <1>10, <1>11, <1>12, <1>13, OnStep

\* A part is put in place by the process that acts.
LEMMA PutStep ==
    ASSUME Inv, NEW p \in Procs, ~Resting(proc[p]), NEW r \in Process, ~Resting(r),
           NEW q \in Parts, NEW version \in 0..MaxVersion, Put(p, q, version, r),
           lock' = lock, UNCHANGED <<Around, rollback, manifest, signature, staging, state, ran>>,
           version <= latest, manifest # 0 => version <= manifest,
           r.was = proc[p].was, r.op = "apply", r.at \in {"installing", "restoring"},
           Late(proc[p]), Fits(r)'
    PROVE  Inv'
<1>1. installed' = [installed EXCEPT ![q] = version] /\ installed' \in Copies
  BY Types DEF Put, Copies, Versions, Missing
<1>2. /\ proc' \in [Procs -> Process] /\ proc'[p] = r
      /\ Others(p)
  <2>1. \A x \in Procs, b \in BOOLEAN :
           /\ [proc[x] EXCEPT !.stale = b] \in Process
           /\ [proc[x] EXCEPT !.stale = b].at = proc[x].at
           /\ [proc[x] EXCEPT !.stale = b].was = proc[x].was
           /\ [proc[x] EXCEPT !.stale = b].op = proc[x].op
           /\ [proc[x] EXCEPT !.stale = b].version = proc[x].version
    BY Types DEF Process
  <2>2. \A x \in Procs : (proc[x].stale \/ (q = UpdaterPart /\ proc[x] # Idle)) \in BOOLEAN
    BY Types DEF Process
  <2>3. proc' = [x \in Procs |->
                   IF x = p THEN r
                   ELSE [proc[x] EXCEPT !.stale = proc[x].stale \/ (q = UpdaterPart /\ proc[x] # Idle)]]
    BY DEF Put
  <2>4. proc' \in [Procs -> Process] /\ proc'[p] = r
    BY <2>1, <2>2, <2>3
  <2>5. Others(p)
    BY <2>1, <2>2, <2>3 DEF Others
  <2>6. QED
    BY <2>4, <2>5
<1>3. TypeOK'
  BY <1>1, <1>2, Types, TypesNext DEF Around, Service, Window
<1>4. Newest'
  BY <1>1, Types DEF Inv, Newest, Covers, Around, Copies
<1>5. Serves(r)' /\ Whole(r)'
  BY HolderFacts DEF Serves, Whole, Around, Service
<1>6. lock' = p
  BY HolderFacts
<1>7. Spares(p, r)
  BY LateAlone DEF Spares, Around
<1>8. Lefts(r)'
  BY <1>2, <1>7, LeftsSpared DEF Left, At, Resting
<1>9. QED
  BY <1>2, <1>3, <1>4, <1>5, <1>6, <1>8, HolderStep

LEMMA PublishKeeps == ASSUME Inv, NEW p \in Procs, Publish(p) PROVE Inv'
<1>1. /\ ~Resting(proc[p]) /\ proc[p].op = "apply" /\ proc[p].at = "installing"
      /\ proc[p] \in Process /\ proc[p].part \in Parts
  BY Types DEF Publish, At, Resting
<1>2. Fits(proc[p]) /\ Newest
  BY <1>1, HolderFacts DEF Inv
<1>3. [proc[p] EXCEPT !.part = @ + 1] \in Process
  <2>1. proc[p].part + 1 \in 0..(NParts + 1)
    BY <1>1, Types DEF Parts
  <2>2. QED
    BY <1>1, <2>1 DEF Process
<1>4. PICK r \in Process : r = [proc[p] EXCEPT !.part = @ + 1]
  BY <1>3, Zenon
<1>5. PICK q \in Parts : q = proc[p].part
  BY <1>1, Zenon
<1>6. /\ r.at = "installing" /\ r.op = "apply" /\ r.was = proc[p].was /\ r.part = q + 1
      /\ ~Resting(r)
  BY <1>1, <1>4, <1>5 DEF Process, Resting
<1>7. staging.version = manifest /\ manifest # 0 /\ manifest <= latest
  BY <1>1, <1>2 DEF Fits, saved_manifest, staged_payload, Newest
<1>8. PICK v \in 0..MaxVersion : v = staging.version
  BY <1>7, Types
<1>9. Put(p, q, v, r)
  BY <1>4, <1>5, <1>8 DEF Publish, Put
<1>10. /\ lock' = lock /\ UNCHANGED <<Around, rollback, manifest, signature, staging, state, ran>>
  BY DEF Publish, Bounds
<1>11. Fits(r)'
  <2>1. installed' = [installed EXCEPT ![q] = v]
    BY <1>9 DEF Put
  <2>2. q + 1 \in 1..(NParts + 1)
    BY Types DEF Parts
  <2>3. torn \/ \A x \in Parts : x < q + 1 => installed'[x] = staging.version
    <3> SUFFICES ASSUME ~torn, NEW x \in Parts, x < q + 1 PROVE installed'[x] = staging.version
      OBVIOUS
    <3>1. x = q \/ x < q
      BY DEF Parts
    <3>2. QED
      BY <1>1, <1>2, <1>5, <1>8, <2>1, <3>1, Types DEF Fits, Copies
  <2>4. saved_manifest /\ staged_payload /\ (torn \/ Uniform(rollback))
    BY <1>1, <1>2 DEF Fits
  <2>5. r.was => r.op = "apply" /\ r.at \in {"installing", "restoring", "restored"}
    BY <1>6
  <2>6. QED
    BY <1>6, <1>10, <2>2, <2>3, <2>4, <2>5
       DEF Fits, saved_manifest, staged_payload, Uniform, Around
<1>12. Late(proc[p])
  BY <1>1 DEF Late
<1>13. QED
  BY <1>1, <1>6, <1>7, <1>8, <1>9, <1>10, <1>11, <1>12, PutStep

LEMMA InstallFailsKeeps == ASSUME Inv, NEW p \in Procs, InstallFails(p) PROVE Inv'
<1>1. /\ ~Resting(proc[p]) /\ proc[p].op = "apply" /\ proc[p].at = "installing"
      /\ proc[p] \in Process
  BY Types DEF InstallFails, At, Resting
<1>2. [proc[p] EXCEPT !.at = "restoring", !.part = NParts] \in Process
  <2>1. "restoring" \in Places /\ NParts \in 0..(NParts + 1)
    BY Types DEF Places
  <2>2. QED
    BY <1>1, <2>1 DEF Process
<1> PICK r \in Process : r = [proc[p] EXCEPT !.at = "restoring", !.part = NParts]
  BY <1>2, Zenon
<1>3. /\ r.at = "restoring" /\ r.op = "apply" /\ r.was = proc[p].was
      /\ r.part = NParts /\ ~Resting(r)
  BY <1>1 DEF Process, Resting
<1>4. /\ proc' = [proc EXCEPT ![p] = r] /\ lock' = lock
      /\ UNCHANGED <<latest, workspace, lostWindow, lostService, torn, installed, rollback,
                     manifest, signature, staging, state, ran>>
      /\ remote' \in BOOLEAN /\ (~proc[p].was => remote' = remote)
  <2>1. proc[p].was \in BOOLEAN
    BY <1>1 DEF Process
  <2>2. QED
    BY <2>1, Types DEF InstallFails, Files, Window, Bounds
<1>5. Fits(r)'
  <2>1. torn \/ Uniform(rollback)
    BY <1>1, HolderFacts DEF Fits
  <2>2. NParts \in 0..NParts /\ \A q \in Parts : ~(q > NParts)
    BY Types DEF Parts
  <2>3. QED
    BY <1>3, <1>4, <2>1, <2>2 DEF Fits, Uniform
<1>6. TypeOK'
  <2>1. proc' \in [Procs -> Process]
    BY <1>3, <1>4, Types
  <2>2. QED
    BY <1>4, <2>1, Types, TypesNext
<1>7. Newest'
  BY <1>4 DEF Inv, Newest, Covers
<1>8. Serves(r)' /\ Whole(r)'
  BY <1>1, <1>3, <1>4, HolderFacts DEF Serves, Whole
<1>9. Spares(p, r)
  BY <1>1, <1>3, <1>4 DEF Spares, Late
<1>10. QED
  BY <1>1, <1>3, <1>4, <1>5, <1>6, <1>7, <1>8, <1>9, OnStep

\* All parts are of the staged version, and the service runs again if it did.
LEMMA SucceedKeeps == ASSUME Inv, NEW p \in Procs, Succeed(p) PROVE Inv'
<1>1. /\ ~Resting(proc[p]) /\ proc[p].op = "apply" /\ proc[p].at = "installing"
      /\ proc[p] \in Process /\ proc[p].part \notin Parts
  BY Types DEF Succeed, At, Resting
<1>2. Fits(proc[p]) /\ Serves(proc[p]) /\ Newest
  BY <1>1, HolderFacts DEF Inv
<1>3. /\ End(p, "up_to_date", 0) /\ relaunch(p) /\ remote' = (remote \/ proc[p].was)
      /\ rollback' = NoCopy /\ staging' = NoPayload /\ manifest' = 0 /\ signature' = 0
      /\ UNCHANGED <<latest, torn, installed, ran, lostService>>
  BY DEF Succeed, Bounds
<1>4. workspace' \in {"open", "closing", "closed"} /\ lostWindow' \in BOOLEAN
  BY <1>3, RelaunchTypes
<1>5. proc[p].was \in BOOLEAN /\ remote' \in BOOLEAN /\ 0 \in 0..MaxVersion
  BY <1>1, <1>3, Types DEF Process
<1>6. Newest'
  BY <1>2, <1>3, IdleFacts, Types DEF Newest, Covers
<1>7. Serves(Idle)'
  BY <1>2, <1>3, <1>4, <1>5, IdleFacts, Types DEF Serves
<1>8. torn \/ Uniform(installed)
  <2>1. \A q \in Parts : q < proc[p].part
    BY <1>1, <1>2, Types DEF Fits, Parts
  <2>2. torn \/ \A q \in Parts : installed[q] = manifest /\ manifest # 0
    BY <1>1, <1>2, <2>1 DEF Fits, saved_manifest, staged_payload
  <2>3. 1 \in Parts
    BY Types DEF Parts
  <2>4. QED
    BY <2>2, <2>3 DEF Uniform, Missing
<1>9. Whole(Idle)'
  BY <1>3, <1>8 DEF Whole, Uniform
<1>10. Spares(p, Idle)
  <2>1. torn \/ \A x \in Procs : ~Left(x)
    BY <1>1, LateAlone DEF Late
  <2>2. QED
    BY <1>3, <2>1, IdleFacts DEF Spares
<1>11. QED
  BY <1>1, <1>3, <1>4, <1>5, <1>6, <1>7, <1>9, <1>10, IdleFacts, Types, Said, EndStep

\* A part is put back, or left as it is, or lost.
LEMMA RestoreKeeps == ASSUME Inv, NEW p \in Procs, Restore(p) PROVE Inv'
<1>1. /\ ~Resting(proc[p]) /\ proc[p].op = "apply" /\ proc[p].at = "restoring"
      /\ proc[p] \in Process /\ proc[p].part \in Parts
  BY Types DEF Restore, At, Resting
<1>2. Fits(proc[p]) /\ Newest
  BY <1>1, HolderFacts DEF Inv
<1>3. PICK q \in Parts : q = proc[p].part
  BY <1>1, Zenon
<1>4. PICK r \in Process, v \in 0..MaxVersion :
        /\ Put(p, q, v, r)
        /\ v \in {rollback[q], installed[q], Missing}
        /\ r.at = "restoring" /\ r.op = "apply" /\ r.was = proc[p].was /\ r.part = q - 1
        /\ r.whole => proc[p].whole /\ v = rollback[q]
  <2> DEFINE next == [proc[p] EXCEPT !.part = @ - 1]
             broken == [next EXCEPT !.whole = FALSE]
  <2>1. proc[p].part - 1 \in 0..(NParts + 1)
    BY <1>1, Types DEF Parts
  <2>2. /\ next \in Process /\ next.at = "restoring" /\ next.op = "apply"
        /\ next.was = proc[p].was /\ next.part = q - 1 /\ next.whole = proc[p].whole
    BY <1>1, <1>3, <2>1 DEF Process
  <2>3. /\ broken \in Process /\ broken.at = "restoring" /\ broken.op = "apply"
        /\ broken.was = proc[p].was /\ broken.part = q - 1 /\ broken.whole = FALSE
    BY <2>2 DEF Process
  <2>4. {rollback[q], installed[q], Missing} \subseteq 0..MaxVersion
    BY Types DEF Copies, Versions, Missing
  <2> HIDE DEF next, broken
  <2>5. \/ Put(p, q, rollback[q], next)
        \/ \E left \in {installed[q], Missing} : Put(p, q, left, broken)
    BY <1>3 DEF Restore, next, broken
  <2>6. CASE Put(p, q, rollback[q], next)
    BY <2>2, <2>4, <2>6
  <2>7. ASSUME NEW left \in {installed[q], Missing}, Put(p, q, left, broken)
        PROVE  \E r \in Process, v \in 0..MaxVersion :
                 /\ Put(p, q, v, r)
                 /\ v \in {rollback[q], installed[q], Missing}
                 /\ r.at = "restoring" /\ r.op = "apply" /\ r.was = proc[p].was /\ r.part = q - 1
                 /\ r.whole => proc[p].whole /\ v = rollback[q]
    BY <2>3, <2>4, <2>7
  <2>8. QED
    BY <2>5, <2>6, <2>7
<1>5. ~Resting(r)
  BY <1>4 DEF Resting
<1>6. lock' = lock /\ UNCHANGED <<Around, rollback, manifest, signature, staging, state, ran>>
  BY DEF Restore, Bounds
<1>7. v <= latest /\ (manifest # 0 => v <= manifest)
  BY <1>2, <1>4, Types DEF Newest, Covers, Missing
<1>8. Fits(r)'
  <2>1. installed' = [installed EXCEPT ![q] = v]
    BY <1>4 DEF Put
  <2>2. q - 1 \in 0..NParts
    BY Types DEF Parts
  <2>3. r.whole => torn \/ \A x \in Parts : x > q - 1 => installed'[x] = rollback[x]
    <3> SUFFICES ASSUME r.whole, ~torn, NEW x \in Parts, x > q - 1 PROVE installed'[x] = rollback[x]
      OBVIOUS
    <3>1. x = q \/ x > q
      BY DEF Parts
    <3>2. QED
      BY <1>1, <1>2, <1>3, <1>4, <2>1, <3>1, Types DEF Fits, Copies
  <2>4. torn \/ Uniform(rollback)
    BY <1>1, <1>2 DEF Fits
  <2>5. QED
    BY <1>4, <1>6, <2>2, <2>3, <2>4 DEF Fits, Uniform, Around
<1>9. Late(proc[p])
  BY <1>1 DEF Late
<1>10. QED
  BY <1>1, <1>4, <1>5, <1>6, <1>7, <1>8, <1>9, PutStep

\* What was put back whole needs no copy.
LEMMA RestoredKeeps == ASSUME Inv, NEW p \in Procs, Restored(p) PROVE Inv'
<1>1. /\ ~Resting(proc[p]) /\ proc[p].op = "apply" /\ proc[p].at = "restoring"
      /\ proc[p] \in Process /\ proc[p].part \notin Parts
  BY Types DEF Restored, At, Resting
<1>2. Fits(proc[p]) /\ Newest /\ Serves(proc[p])
  BY <1>1, HolderFacts DEF Inv
<1>3. [proc[p] EXCEPT !.at = "restored"] \in Process
  BY <1>1 DEF Process, Places
<1>4. PICK r \in Process : r = [proc[p] EXCEPT !.at = "restored"]
  BY <1>3, Zenon
<1>5. /\ r.at = "restored" /\ r.op = "apply" /\ r.was = proc[p].was /\ ~Resting(r)
      /\ r.was \in BOOLEAN
  BY <1>1, <1>4 DEF Process, Resting
<1>6. /\ proc' = [proc EXCEPT ![p] = r] /\ lock' = lock
      /\ rollback' = IF ~proc[p].whole THEN rollback ELSE NoCopy
      /\ UNCHANGED <<latest, workspace, lostWindow, torn, installed, manifest, signature, staging,
                     state, ran>>
  BY <1>4 DEF Restored, Kept, Goto, Window, Bounds
<1>7. /\ remote' \in BOOLEAN /\ lostService' \in BOOLEAN
      /\ \/ remote' = (remote \/ r.was) /\ lostService' = lostService
         \/ r.was /\ (remote' \/ lostService') /\ (lostService => lostService')
  <2>1. ServiceStart(p)
    BY DEF Restored
  <2>2. QED
    BY <1>5, <2>1, Types DEF ServiceStart
<1>8. proc' \in [Procs -> Process] /\ rollback' \in Copies
  BY <1>6, IdleFacts, Types
<1>9. TypeOK'
  BY <1>6, <1>7, <1>8, Types, TypesNext
<1>10. Newest'
  BY <1>2, <1>6, IdleFacts, Types DEF Newest, Covers
<1>11. Fits(r)'
  BY <1>5, <1>7 DEF Fits
<1>12. Serves(r)'
  <2>1. lostService \/ IF r.was THEN ran ELSE remote = ran
    BY <1>2, <1>5 DEF Serves
  <2>2. CASE r.was /\ (lostService => lostService')
    BY <1>6, <2>1, <2>2 DEF Serves
  <2>3. CASE remote' = (remote \/ r.was) /\ lostService' = lostService
    <3>1. ~r.was => remote' = remote
      BY <1>5, <2>3, Types
    <3>2. QED
      BY <1>6, <2>1, <2>3, <3>1 DEF Serves
  <2>4. QED
    BY <1>7, <2>2, <2>3
<1>13. Whole(r)'
  <2>1. proc[p].whole => torn \/ \A q \in Parts : installed[q] = rollback[q]
    BY <1>1, <1>2, Types DEF Fits, Parts
  <2>2. 1 \in Parts
    BY Types DEF Parts
  <2>3. torn \/ Uniform(rollback)
    BY <1>1, <1>2 DEF Fits
  <2>4. torn \/ Uniform(installed) \/ Uniform(rollback')
    BY <1>6, <2>1, <2>2, <2>3 DEF Uniform
  <2>5. QED
    BY <1>6, <2>4 DEF Whole, Uniform
<1>14. Spares(p, r)
  <2>1. torn \/ \A x \in Procs : ~Left(x)
    BY <1>1, LateAlone DEF Late
  <2>2. QED
    BY <1>5, <1>6, <2>1 DEF Spares
<1>15. QED
  BY <1>1, <1>5, <1>6, <1>9, <1>10, <1>11, <1>12, <1>13, <1>14, OnStep

LEMMA ApplyFailsKeeps == ASSUME Inv, NEW p \in Procs, ApplyFails(p) PROVE Inv'
<1>1. /\ ~Resting(proc[p]) /\ proc[p].op = "apply" /\ proc[p].at = "restored"
      /\ proc[p] \in Process
  BY Types DEF ApplyFails, At, Resting
<1>2. Fits(proc[p]) /\ Newest /\ Serves(proc[p]) /\ Whole(proc[p])
  BY <1>1, HolderFacts DEF Inv
<1>3. /\ End(p, "failed", state.available) /\ relaunch(p)
      /\ UNCHANGED <<latest, remote, lostService, torn, installed, rollback, manifest,
                     signature, staging, ran>>
  BY DEF ApplyFails, Fail, Files, Service, Bounds
<1>4. workspace' \in {"open", "closing", "closed"} /\ lostWindow' \in BOOLEAN
  BY <1>3, RelaunchTypes
<1>5. Newest'
  BY <1>2, <1>3 DEF Newest, Covers
<1>6. Serves(Idle)'
  BY <1>1, <1>2, <1>3, <1>4, IdleFacts, Types DEF Serves, Fits
<1>7. Whole(Idle)'
  BY <1>1, <1>2, <1>3 DEF Whole, Uniform
<1>8. Spares(p, Idle)
  BY <1>3, IdleFacts DEF Spares, Late
<1>9. QED
  BY <1>1, <1>3, <1>4, <1>5, <1>6, <1>7, <1>8, Types, Said, EndStep

-----------------------------------------------------------------------------
(* Starting, the lock, and being killed. *)

LEMMA LockKeeps == ASSUME Inv, NEW p \in Procs, Lock(p) PROVE Inv'
<1>1. /\ proc[p].at = "start" /\ lock = None /\ lock' = p /\ proc[p] \in Process
      /\ proc' = [proc EXCEPT ![p].at = "begun"]
      /\ UNCHANGED <<Around, Files, state, ran>>
  BY Types DEF Lock, LockFree, Goto, Bounds
<1>2. ~proc[p].was /\ holder = Idle
  BY <1>1 DEF Inv, Alone, Resting, holder
<1>3. [proc[p] EXCEPT !.at = "begun"] \in Process
  BY <1>1 DEF Process, Places
<1>4. PICK r \in Process : r = [proc[p] EXCEPT !.at = "begun"]
  BY <1>3, Zenon
<1>5. r.at = "begun" /\ r.was = proc[p].was /\ ~Resting(r)
  BY <1>1, <1>4 DEF Process, Resting
<1>6. /\ proc' \in [Procs -> Process] /\ proc'[p] = r
      /\ \A q \in Procs : q # p => proc'[q] = proc[q]
  BY <1>1, <1>4, Types
<1>7. TypeOK'
  BY <1>1, <1>6, Types, TypesNext DEF Files, Around, Service, Window
<1>8. Alone'
  <2> SUFFICES ASSUME NEW q \in Procs
               PROVE  /\ lock' = q <=> ~Resting(proc'[q])
                      /\ Resting(proc'[q]) => ~proc'[q].was
    BY DEF Alone, Resting
  <2>1. lock # q
    BY <1>1, Types
  <2>2. QED
    BY <1>1, <1>5, <1>6, <2>1 DEF Inv, Alone
<1>9. Newest'
  BY <1>1 DEF Inv, Newest, Covers, Files, Around
<1>10. holder' = r
  <2>1. p # None
    BY Types
  <2>2. QED
    BY <1>1, <1>6, <2>1 DEF holder
<1>11. Serves(Idle) /\ Whole(Idle) /\ Lefts(Idle)
  BY <1>2 DEF Inv
<1>12. Fits(holder)'
  BY <1>2, <1>5, <1>10 DEF Fits
<1>13. Serves(holder)' /\ Whole(holder)'
  BY <1>1, <1>2, <1>5, <1>10, <1>11, IdleFacts
     DEF Serves, Whole, Uniform, Files, Around, Service
<1>14. Lefts(holder)'
  <2>1. /\ UNCHANGED <<latest, manifest, installed, rollback, torn>> /\ r.at = "begun" /\ ~Late(r)
        /\ \A x \in Procs : Left(x)' => Left(x) /\ proc'[x] = proc[x]
    BY <1>1, <1>5, <1>6 DEF Files, Around, Late, Left, At
  <2> SUFFICES ASSUME NEW x \in Procs, Left(x), proc'[x] = proc[x]
               PROVE  /\ proc[x].version <= latest
                      /\ manifest # 0 => proc[x].version <= manifest
                      /\ torn \/ Undisturbed(x, r)'
    BY <1>10, <2>1 DEF Lefts, Undisturbed, Late
  <2>2. /\ proc[x].version <= latest /\ (manifest # 0 => proc[x].version <= manifest)
        /\ torn \/ Undisturbed(x, Idle)
    BY <1>11 DEF Lefts
  <2>3. torn \/ Undisturbed(x, r)'
    BY <2>1, <2>2 DEF Undisturbed, Uniform, Late
  <2>4. QED
    BY <2>2, <2>3
<1>15. QED
  BY <1>7, <1>8, <1>9, <1>12, <1>13, <1>14 DEF Inv

LEMMA AsideSteps ==
    ASSUME Inv,
           \/ Release \/ Closed
           \/ \E p \in Procs : \/ \E op \in {"check", "download", "apply"} : Start(p, op)
                               \/ install(p) \/ Busy(p) \/ LeftEnds(p)
    PROVE  Inv'
<1>1. CASE Release \/ Closed
  BY <1>1, Types, AsideStep DEF Release, Closed, Files, Service, Window, Bounds, Versions
<1>2. ASSUME NEW p \in Procs, NEW op \in {"check", "download", "apply"}, NEW ask \in BOOLEAN,
             proc[p] = Idle, proc' = [proc EXCEPT ![p] = Begun(op, ask)],
             UNCHANGED <<Files, state, lock, latest, Service, lostWindow, torn, ran>>,
             workspace' \in {"open", "closing", "closed"}
      PROVE  Inv'
  <2>1. installed[UpdaterPart] \in 0..MaxVersion
    BY Types, UpdaterAssumption DEF Copies, Versions, Missing
  <2>2. Begun(op, ask) \in Process /\ Begun(op, ask).at = "start" /\ ~Begun(op, ask).was
    BY <2>1, IdleFacts DEF Begun, Process, Actions, Places
  <2>3. Resting(proc[p]) /\ Resting(Begun(op, ask))
    BY <1>2, <2>2, IdleFacts DEF Resting
  <2>4. proc' \in [Procs -> Process] /\ proc'[p] = Begun(op, ask)
        /\ \A q \in Procs : q # p => proc'[q] = proc[q]
    BY <1>2, <2>2, Types
  <2>5. QED
    BY <1>2, <2>2, <2>3, <2>4, Types, AsideStep
<1>3. ASSUME NEW p \in Procs, NEW op \in {"check", "download", "apply"}, Start(p, op) PROVE Inv'
  BY <1>2, <1>3, Types DEF Start, Around, Window
<1>4. ASSUME NEW p \in Procs, install(p) PROVE Inv'
  BY <1>2, <1>4, Types DEF install
<1>5. ASSUME NEW p \in Procs, Busy(p) PROVE Inv'
  <2>1. /\ Resting(proc[p]) /\ proc' = [proc EXCEPT ![p] = Idle] /\ lock' = lock
        /\ lostWindow' = (lostWindow \/ proc[p].ask)
        /\ UNCHANGED <<Files, state, latest, Service, workspace, torn, ran>>
    BY <1>5 DEF Busy, Resting, Bounds
  <2>2. lostWindow' \in BOOLEAN
    BY <2>1, Types DEF Process
  <2>3. /\ proc' \in [Procs -> Process] /\ proc'[p] = Idle
        /\ \A q \in Procs : q # p => proc'[q] = proc[q]
    BY <2>1, IdleFacts, Types
  <2>4. QED
    BY <2>1, <2>2, <2>3, IdleFacts, Types, AsideStep
<1>6. ASSUME NEW p \in Procs, LeftEnds(p) PROVE Inv'
  <2>1. /\ Resting(proc[p]) /\ proc' = [proc EXCEPT ![p] = Idle] /\ lock' = lock
        /\ UNCHANGED <<Files, state, latest, Service, Window, torn, ran>>
    BY <1>6 DEF LeftEnds, Left, At, Resting, Around, Bounds
  <2>2. /\ proc' \in [Procs -> Process] /\ proc'[p] = Idle
        /\ \A q \in Procs : q # p => proc'[q] = proc[q]
    BY <2>1, IdleFacts, Types
  <2>3. QED
    BY <2>1, <2>2, IdleFacts, Types, AsideStep DEF Window
<1>7. QED
  BY <1>1, <1>3, <1>4, <1>5, <1>6

\* Killed before it has the lock, a process changes nothing; killed with it, it
\* leaves the copy, or the installation it had not touched, and its installer.
LEMMA CrashKeeps == ASSUME Inv, NEW p \in Procs, Crash(p) PROVE Inv'
<1>1. PICK r \in Remains(p) : proc' = [proc EXCEPT ![p] = r]
  BY DEF Crash
<1>2. /\ UNCHANGED <<latest, workspace, installed, manifest, signature, state, ran>>
      /\ lock' = IF lock = p THEN None ELSE lock
      /\ lostService' = (lostService \/ proc[p].was \/ remote' # remote)
      /\ proc[p] \in Process
  BY Types DEF Crash
<1>3. /\ r \in Process /\ Resting(r) /\ ~r.was
      /\ \/ r = Idle
         \/ /\ At(p, "apply", "installing") /\ proc[p].part \in Parts
            /\ r.version = staging.version
  <2>1. CASE r = Idle
    BY <2>1, IdleFacts
  <2>2. CASE r # Idle
    <3>1. /\ At(p, "apply", "installing") /\ proc[p].part \in Parts
          /\ r = [Idle EXCEPT !.op = "apply", !.at = "left", !.version = staging.version,
                              !.part = proc[p].part]
      BY <2>2 DEF Remains
    <3>2. staging.version \in 0..MaxVersion /\ proc[p].part \in 0..(NParts + 1)
      BY <1>2, Types DEF Process, Payloads
    <3>3. QED
      BY <3>1, <3>2, IdleFacts DEF Process, Actions, Places, Resting, Idle
  <2>3. QED
    BY <2>1, <2>2
<1>4. /\ proc' \in [Procs -> Process] /\ proc'[p] = r
      /\ \A q \in Procs : q # p => proc'[q] = proc[q]
  BY <1>1, <1>3, Types
<1>5. /\ lostService' \in BOOLEAN /\ lostWindow' \in BOOLEAN /\ remote' \in BOOLEAN
      /\ staging' \in Payloads
  <2>1. proc[p].was \in BOOLEAN /\ proc[p].ask \in BOOLEAN
    BY <1>2 DEF Process
  <2>2. lostWindow' \in BOOLEAN /\ remote' \in BOOLEAN
    BY <2>1, Types DEF Crash, Serviced
  <2>3. [staging EXCEPT !.whole = TRUE] \in Payloads
    BY Types DEF Payloads
  <2>4. QED
    BY <1>2, <2>1, <2>2, <2>3, Types DEF Crash
<1>6. CASE Resting(proc[p])
  <2>1. lock' = lock /\ ~proc[p].was
    BY <1>2, <1>6 DEF Inv, Alone
  <2>2. /\ UNCHANGED <<rollback, torn, staging>> /\ remote' = remote /\ r = Idle
    BY <1>3, <1>6, <2>1 DEF Crash, Serviced, At, Resting
  <2>3. lostService' = lostService
    BY <1>2, <2>1, <2>2, Types
  <2>4. UNCHANGED <<Files, state, Service, torn, ran>>
    BY <1>2, <2>2, <2>3 DEF Files, Service
  <2>5. QED
    BY <1>2, <1>4, <1>5, <1>6, <2>1, <2>2, <2>4, IdleFacts, Types, AsideStep
<1>7. CASE ~Resting(proc[p])
  <2>1. /\ lock' = None /\ Fits(proc[p]) /\ Serves(proc[p]) /\ Whole(proc[p])
        /\ Lefts(proc[p])
    BY <1>2, <1>7, HolderFacts, Types DEF Inv, holder
  <2>2. \/ rollback' = rollback /\ torn' = torn
        \/ /\ proc[p].op = "apply" /\ proc[p].at = "copying" /\ rollback' = NoCopy
           /\ torn' = (torn \/ ~Uniform(installed) \/ \E x \in Procs : Left(x))
    BY DEF Crash, At, Tears
  <2>3. rollback' \in Copies /\ torn' \in BOOLEAN
    BY <2>2, IdleFacts, Types
  <2>4. TypeOK'
    BY <1>2, <1>4, <1>5, <2>1, <2>3, Types, TypesNext
  <2>5. Newest'
    BY <1>2, <2>2, IdleFacts, Types DEF Inv, Newest, Covers
  <2>6. Serves(Idle)'
    BY <1>2, <2>1, IdleFacts DEF Serves
  <2>7. torn' \/ Uniform(installed) \/ Uniform(rollback')
    BY <2>1, <2>2 DEF Fits, Whole
  <2>8. Whole(Idle)'
    BY <1>2, <2>7 DEF Whole, Uniform
  <2>9. Others(p)
    BY <1>4 DEF Others
  <2>10. Lefts(Idle)'
    <3>1. CASE r = Idle
      <4>1. Spares(p, Idle)
        BY <1>2, <2>2, <2>3, IdleFacts DEF Spares, Late
      <4>2. QED
        BY <1>4, <1>7, <2>9, <3>1, <4>1, IdleFacts, LeftsSpared DEF Left, At
    <3>2. CASE /\ proc[p].op = "apply" /\ proc[p].at = "installing"
               /\ r.version = staging.version
      <4>1. /\ rollback' = rollback /\ torn' = torn
            /\ staging.version = manifest /\ manifest # 0
            /\ Covers(manifest) /\ manifest <= latest /\ (torn \/ Uniform(rollback))
        BY <2>1, <2>2, <3>2 DEF Inv, Newest, Fits, saved_manifest, staged_payload
      <4>2. torn \/ \A x \in Procs : ~Left(x)
        BY <3>2, LateAlone DEF Late
      <4>3. \A x \in Procs : x # p /\ Left(x)' => Left(x) /\ proc'[x] = proc[x]
        BY <1>4 DEF Left, At
      <4> SUFFICES ASSUME NEW x \in Procs, Left(x)'
                   PROVE  /\ proc'[x].version <= latest
                          /\ manifest # 0 => proc'[x].version <= manifest
                          /\ torn \/ Undisturbed(x, Idle)'
        BY <1>2, <4>1, IdleFacts DEF Lefts
      <4>4. CASE x = p
        <5>1. proc'[x].version = manifest /\ manifest <= manifest
          BY <1>4, <3>2, <4>1, <4>4, Types
        <5>2. torn \/ \A q \in Parts : installed'[q] <= proc'[x].version
          BY <1>2, <4>1, <5>1 DEF Covers
        <5>3. torn \/ Undisturbed(x, Idle)'
          BY <1>2, <4>1, <4>2, <4>3, <4>4, <5>2, IdleFacts DEF Undisturbed, Uniform, Late
        <5>4. QED
          BY <4>1, <5>1, <5>3
      <4>5. CASE x # p
        BY <2>1, <4>2, <4>3, <4>5 DEF Lefts
      <4>6. QED
        BY <4>4, <4>5
    <3>3. QED
      BY <1>3, <3>1, <3>2 DEF At
  <2>11. QED
    BY <1>3, <1>4, <1>7, <2>1, <2>4, <2>5, <2>6, <2>8, <2>9, <2>10, IdleFacts, IdleFitsNext,
       HolderStep
<1>8. QED
  BY <1>6, <1>7

\* An installer that was left puts a part in place while another may act: it finds
\* no copy taken and nothing newer, or the installation is torn.
LEMMA LeftPublishesKeeps == ASSUME Inv, NEW p \in Procs, LeftPublishes(p) PROVE Inv'
<1>1. /\ Left(p) /\ proc[p].part \in Parts /\ proc[p] \in Process /\ Resting(proc[p])
      /\ lock' = lock
      /\ UNCHANGED <<latest, remote, lostService, workspace, lostWindow, torn, rollback, manifest,
                     signature, staging, state, ran>>
  BY Types DEF LeftPublishes, Left, At, Resting, Around, Service, Window, Bounds
<1>2. PICK q \in Parts, v \in {proc[p].version, Missing}, r \in {[proc[p] EXCEPT !.part = @ + 1], Idle} :
        Put(p, q, v, r)
  BY <1>1 DEF LeftPublishes
<1>3. /\ r \in Process /\ Resting(r) /\ ~r.was
      /\ \/ r.at # "left"
         \/ r.version = proc[p].version
  <2>1. proc[p].part + 1 \in 0..(NParts + 1)
    BY <1>1, Types DEF Parts
  <2>2. ~proc[p].was
    BY <1>1 DEF Inv, Alone
  <2>3. QED
    BY <1>1, <1>2, <2>1, <2>2, IdleFacts DEF Process, Resting
<1>4. v \in 0..MaxVersion
  BY <1>1, Types DEF Process, Missing
<1>5. installed' = [installed EXCEPT ![q] = v] /\ installed' \in Copies
  BY <1>2, <1>4, Types DEF Put, Copies, Versions, Missing
<1>6. /\ proc' \in [Procs -> Process] /\ proc'[p] = r
      /\ \A x \in Procs : x # p => \E b \in BOOLEAN : proc'[x] = [proc[x] EXCEPT !.stale = b]
  <2>1. \A x \in Procs, b \in BOOLEAN : [proc[x] EXCEPT !.stale = b] \in Process
    BY Types DEF Process
  <2>2. \A x \in Procs : (proc[x].stale \/ (q = UpdaterPart /\ proc[x] # Idle)) \in BOOLEAN
    BY Types DEF Process
  <2>3. proc' = [x \in Procs |->
                   IF x = p THEN r
                   ELSE [proc[x] EXCEPT !.stale = proc[x].stale \/ (q = UpdaterPart /\ proc[x] # Idle)]]
    BY <1>2 DEF Put
  <2>4. QED
    BY <1>3, <2>1, <2>2, <2>3
<1>7. \A x \in Procs : x # p =>
        /\ proc'[x].op = proc[x].op /\ proc'[x].at = proc[x].at /\ proc'[x].was = proc[x].was
        /\ proc'[x].version = proc[x].version /\ proc'[x].found = proc[x].found
        /\ proc'[x].part = proc[x].part /\ proc'[x].whole = proc[x].whole
  BY <1>6, Types DEF Process
<1>8. TypeOK'
  BY <1>1, <1>5, <1>6, Types, TypesNext
<1>9. Alone'
  <2> SUFFICES ASSUME NEW x \in Procs
               PROVE  /\ lock' = x <=> ~Resting(proc'[x])
                      /\ Resting(proc'[x]) => ~proc'[x].was
    BY DEF Alone, Resting
  <2>1. lock # p
    BY <1>1 DEF Inv, Alone
  <2>2. QED
    BY <1>1, <1>3, <1>6, <1>7, <2>1 DEF Inv, Alone, Resting
<1>10. /\ holder'.op = holder.op /\ holder'.at = holder.at /\ holder'.was = holder.was
       /\ holder'.found = holder.found /\ holder'.part = holder.part /\ holder'.whole = holder.whole
  <2>1. lock # p
    BY <1>1 DEF Inv, Alone
  <2>2. QED
    BY <1>1, <1>7, <2>1, Types DEF holder
<1>11. /\ proc[p].version <= latest /\ (manifest # 0 => proc[p].version <= manifest)
       /\ holder.op = "check" /\ holder.at \in {"manifest", "signature"} =>
             proc[p].version <= holder.found
       /\ torn \/ Undisturbed(p, holder)
  BY <1>1 DEF Inv, Lefts
<1>12. \A n \in Nat : Covers(n) /\ proc[p].version <= n =>
          \A x \in Parts : installed'[x] <= n /\ rollback'[x] <= n
  <2>1. proc[p].version \in Nat /\ \A x \in Parts : installed[x] \in Nat
    BY <1>1, Types DEF Process, Copies, Versions, Missing
  <2>2. QED
    BY <1>1, <1>2, <1>5, <2>1, Types DEF Covers, Copies, Missing
<1>13. Newest'
  BY <1>1, <1>11, <1>12, Types DEF Inv, Newest, Covers
<1>14. holder.found \in Nat
  BY Types, IdleFacts DEF holder, Process
<1>15. Fits(holder)'
  <2>1. Fits(holder)
    BY DEF Inv
  <2>2. torn \/ ~(holder.op = "apply" /\ holder.at \in {"stopping", "installing", "restoring"})
    BY <1>11 DEF Undisturbed, Late
  <2>3. /\ saved_manifest' = saved_manifest /\ staged_payload' = staged_payload
        /\ Uniform(rollback)' = Uniform(rollback)
    BY <1>1 DEF saved_manifest, staged_payload, Uniform
  <2>4. holder.op = "check" /\ holder.at \in {"manifest", "signature"} =>
          /\ holder.found <= latest
          /\ \A x \in Parts : installed'[x] <= holder.found /\ rollback'[x] <= holder.found
    BY <1>11, <1>12, <1>14, <2>1 DEF Fits
  <2>5. QED
    BY <1>1, <1>10, <2>1, <2>2, <2>3, <2>4 DEF Fits, Covers
<1>16. Serves(holder)' /\ Whole(holder)'
  BY <1>1, <1>10, <1>11 DEF Inv, Serves, Whole, Undisturbed, Uniform
<1>17. Lefts(holder)'
  <2>1. \A x \in Procs : Left(x)' => Left(x) /\ proc'[x].version = proc[x].version
    BY <1>1, <1>3, <1>6, <1>7 DEF Left, At
  <2> SUFFICES ASSUME NEW x \in Procs, Left(x), proc'[x].version = proc[x].version
               PROVE  /\ proc[x].version <= latest
                      /\ manifest # 0 => proc[x].version <= manifest
                      /\ holder.op = "check" /\ holder.at \in {"manifest", "signature"} =>
                            proc[x].version <= holder.found
                      /\ torn \/ Undisturbed(x, holder)'
    BY <1>1, <1>10, <2>1 DEF Lefts
  <2>2. ASSUME ~torn PROVE Undisturbed(x, holder)'
    <3>1. Undisturbed(p, holder) /\ x = p
      BY <1>11, <2>2 DEF Undisturbed
    <3>2. \A y \in Parts : installed'[y] <= proc[p].version
      <4>1. proc[p].version \in Nat
        BY <1>1, Types DEF Process
      <4>2. QED
        BY <1>2, <1>5, <3>1, <4>1, Types DEF Undisturbed, Copies, Missing
    <3>3. QED
      BY <1>1, <1>10, <2>1, <3>1, <3>2 DEF Undisturbed, Uniform, Late
  <2>3. QED
    BY <2>2 DEF Inv, Lefts
<1>18. QED
  BY <1>8, <1>9, <1>13, <1>15, <1>16, <1>17 DEF Inv

-----------------------------------------------------------------------------
(* The theorems. *)

LEMMA InvInit == Init => Inv
<1> SUFFICES ASSUME Init PROVE Inv
  OBVIOUS
<1>1. /\ latest \in 1..MaxVersion /\ installed \in Copies /\ rollback \in Copies
      /\ 0 \in 0..MaxVersion /\ 1 \in 1..MaxVersion
  BY IdleFacts, UpdaterAssumption DEF Init, Copies, Versions, Missing
<1>2. [state |-> "up_to_date", available |-> 0] \in States /\ staging \in Payloads
      /\ proc \in [Procs -> Process]
  BY <1>1, IdleFacts, Said DEF Init
<1>3. Lefts(Idle)
  BY IdleFacts DEF Init, Lefts, Left, At
<1>4. TypeOK
  BY <1>1, <1>2
     DEF Init, TypeOK, Process, States, Payloads, Copies, Versions
<1>5. Alone
  BY IdleFacts, UpdaterAssumption DEF Init, Alone
<1>6. Newest
  BY IdleFacts, UpdaterAssumption DEF Init, Newest, Covers
<1>7. holder = Idle
  BY DEF Init, holder
<1>8. Serves(Idle)
  BY IdleFacts DEF Init, Serves
<1>9. Whole(Idle)
  <2>1. 1 \in Parts /\ \A q \in Parts : installed[q] = 1
    BY UpdaterAssumption DEF Init, Parts
  <2>2. QED
    BY <2>1 DEF Whole, Uniform, Missing
<1>10. QED
  BY <1>3, <1>4, <1>5, <1>6, <1>7, <1>8, <1>9, IdleFits DEF Inv

LEMMA InvNext == Inv /\ [Next]_vars => Inv'
<1> SUFFICES ASSUME Inv, [Next]_vars PROVE Inv'
  OBVIOUS
<1>1. CASE UNCHANGED vars
  BY <1>1, Types, AsideStep DEF vars, Files, Service
<1>2. CASE Release \/ Closed
  BY <1>2, AsideSteps
<1>3. ASSUME NEW p \in Procs,
             (\E op \in {"check", "download", "apply"} : Start(p, op)) \/ install(p)
      PROVE  Inv'
  BY <1>3, AsideSteps
<1>4. ASSUME NEW p \in Procs, Step(p) PROVE Inv'
  <2>1. CASE Lock(p) \/ Busy(p)
    BY <2>1, LockKeeps, AsideSteps
  <2>2. CASE CheckEnds(p) \/ CheckFinds(p) \/ SaveManifest(p) \/ SaveSignature(p) \/ SaveFails(p)
    BY <2>2, CheckSteps
  <2>3. CASE \/ DownloadBegins(p) \/ DownloadRefused(p) \/ Stage(p) \/ Staged(p)
             \/ DownloadFails(p)
    BY <2>3, DownloadSteps
  <2>4. CASE ApplyBegins(p) \/ ApplyRefused(p) \/ Waited(p) \/ WaitTimesOut(p)
    BY <2>4, ApplyBeginsKeeps, RefusedKeeps
  <2>5. CASE Take(p) \/ TakeFails(p) \/ StopRemote(p) \/ StopFails(p)
    BY <2>5, TakeKeeps, CopyLost, StopRemoteKeeps
  <2>6. CASE Publish(p) \/ InstallFails(p) \/ Succeed(p)
    BY <2>6, PublishKeeps, InstallFailsKeeps, SucceedKeeps
  <2>7. CASE Restore(p) \/ Restored(p) \/ ApplyFails(p)
    BY <2>7, RestoreKeeps, RestoredKeeps, ApplyFailsKeeps
  <2>8. QED
    BY <1>4, <2>1, <2>2, <2>3, <2>4, <2>5, <2>6, <2>7 DEF Step
<1>5. ASSUME NEW p \in Procs, Crash(p) PROVE Inv'
  BY <1>5, CrashKeeps
<1>6. ASSUME NEW p \in Procs, LeftPublishes(p) \/ LeftEnds(p) PROVE Inv'
  BY <1>6, LeftPublishesKeeps, AsideSteps
<1>7. QED
  BY <1>1, <1>2, <1>3, <1>4, <1>5, <1>6 DEF Next

\* The inductive invariant holds of every behaviour of the updater.
THEOREM InvHolds == Spec => []Inv
BY InvInit, InvNext, PTL DEF Spec

\* An installation that began on a whole version, with no installer of a killed
\* process beside it, leaves a whole version or the copy of the one it began on,
\* whatever fails, whenever it is killed and however its own installer goes on
\* (apply.rs `apply`, `Rollback`).
THEOREM WholeOrKeptHolds == Spec => []WholeOrKept
<1>1. Inv => WholeOrKept
  <2> SUFFICES ASSUME Inv PROVE WholeOrKept
    OBVIOUS
  <2>1. CASE lock = None
    BY <2>1, IdleFacts DEF Inv, holder, Whole, WholeOrKept
  <2>2. CASE lock # None
    BY <2>2, Types DEF Inv, holder, Whole, WholeOrKept, Installing
  <2>3. QED
    BY <2>1, <2>2
<1>2. QED
  BY <1>1, InvHolds, PTL

\* A remote service that ran before an installation runs after it, unless it would
\* not start, a stop that was reported failed stopped it, or the updater was killed
\* (apply.rs `apply`).
THEOREM ServiceReturnsHolds == Spec => []ServiceReturns
<1>1. Inv => ServiceReturns
  <2> SUFFICES ASSUME Inv PROVE ServiceReturns
    OBVIOUS
  <2>1. CASE lock = None
    BY <2>1, IdleFacts DEF Inv, holder, Serves, ServiceReturns
  <2>2. CASE lock # None
    BY <2>2, Types DEF Inv, holder, Serves, ServiceReturns
  <2>3. QED
    BY <2>1, <2>2
<1>2. QED
  BY <1>1, InvHolds, PTL

\* Only what was signed and staged is installed, and no part becomes older by it,
\* nor by the installer of a killed process unless another installation began beside
\* it (check.rs `saved_manifest`, `applicable`, stage.rs `staged_payload`).
THEOREM InstallsSignedHolds == Spec => InstallsSigned
<1> DEFINE Installs ==
             \A p \in Procs :
               /\ Publish(p) =>
                    /\ staging = [version |-> signature, whole |-> TRUE]
                    /\ \A q \in Parts : installed[q] <= installed'[q]
               /\ LeftPublishes(p) =>
                    torn \/ \A q \in Parts : installed'[q] = Missing \/ installed[q] <= installed'[q]
<1>1. ASSUME Inv, NEW p \in Procs, Publish(p)
      PROVE  /\ staging = [version |-> signature, whole |-> TRUE]
             /\ \A q \in Parts : installed[q] <= installed'[q]
  <2>1. /\ ~Resting(proc[p]) /\ proc[p].op = "apply" /\ proc[p].at = "installing"
        /\ proc[p].part \in Parts
    BY <1>1 DEF Publish, At, Resting
  <2>2. Fits(proc[p])
    BY <1>1, <2>1, HolderFacts
  <2>3. saved_manifest /\ staged_payload
    BY <2>1, <2>2 DEF Fits
  <2>4. installed' = [installed EXCEPT ![proc[p].part] = staging.version]
    BY <1>1 DEF Publish, Put
  <2>5. staging.version = manifest /\ Covers(manifest)
    BY <1>1, <2>3 DEF Inv, Newest, saved_manifest, staged_payload
  <2>6. \A q \in Parts : installed[q] \in Nat /\ installed[q] <= staging.version
    BY <1>1, <2>5, Types DEF Covers, Copies, Versions, Missing
  <2>7. ASSUME NEW q \in Parts PROVE installed[q] <= installed'[q]
    BY <1>1, <2>1, <2>4, <2>6, Types DEF Copies
  <2>8. QED
    BY <2>3, <2>7 DEF saved_manifest, staged_payload
<1>2. ASSUME Inv, NEW p \in Procs, LeftPublishes(p), ~torn, NEW q \in Parts
      PROVE  installed'[q] = Missing \/ installed[q] <= installed'[q]
  <2>1. installed[q] <= proc[p].version /\ installed[q] \in Nat /\ proc[p].part \in Parts
    BY <1>2, Types DEF Inv, Lefts, Undisturbed, LeftPublishes, Copies, Versions, Missing
  <2>2. PICK made \in {proc[p].version, Missing} :
          installed' = [installed EXCEPT ![proc[p].part] = made]
    BY <1>2 DEF LeftPublishes, Put
  <2>3. QED
    BY <1>2, <2>1, <2>2, Types DEF Copies
<1>3. Inv /\ [Next]_vars => [Installs]_vars
  BY <1>1, <1>2
<1>4. QED
  BY <1>3, InvHolds, PTL DEF Spec, InstallsSigned
=============================================================================
