------------------------------ MODULE Updater ------------------------------
(***************************************************************************)
(* The PC updater (update/src): processes of lcl-update that check for a   *)
(* release, download and stage it, and install it over the installation    *)
(* they belong to, with the workspace that asks for the installation       *)
(* (lcl-workspace updates.rs) and the installer it runs                    *)
(* (packaging/install.sh).                                                 *)
(*                                                                         *)
(* One process acts at a time, under a lock that ends with it; any of them *)
(* may be killed at any step, and any file operation, download, service    *)
(* action or start may fail.  What a killed process had started may go on: *)
(* its installer, which takes no lock, and the service action it waited    *)
(* for.  A version is its number; a part that is no working program is     *)
(* missing.  Signatures hold: a manifest and a signature verify together   *)
(* exactly if they are of one release.                                     *)
(***************************************************************************)
EXTENDS Naturals

CONSTANTS
    Procs,        \* processes of lcl-update
    NParts,       \* what an installation consists of, in the installer's order
    UpdaterPart,  \* which of them is lcl-update
    MaxVersion,   \* bound: releases
    MaxStarts,    \* bound: actions started
    MaxFaults,    \* bound: operations that fail
    MaxCrashes    \* bound: processes killed

Parts == 1..NParts
Missing == 0
None == 0

ASSUME UpdaterAssumption ==
    /\ NParts \in Nat \ {0} /\ UpdaterPart \in Parts /\ None \notin Procs
    /\ MaxVersion \in Nat \ {0} /\ {MaxStarts, MaxFaults, MaxCrashes} \subseteq Nat

VARIABLES
    latest,     \* the newest release
    installed,  \* the version of each installed part
    rollback,   \* the copy of the parts kept aside, or none
    manifest, signature,  \* the release each saved file is of
    staging,    \* the staged payload
    state,      \* what state.json says, and of which version
    lock,       \* the process that holds the updater's lock
    proc,       \* the processes
    remote,     \* is the remote service running?
    workspace,  \* the workspace's window: open, closing or closed
    starts, faults, crashes,
    lostWindow,   \* history: could nothing start the workspace again?
    lostService,  \* history: could nothing start the service again?
    torn,       \* history: did an installation begin on a mixture, or beside an
                \* installer that a killed process left?
    ran         \* history: did the remote service run at first?

vars == <<latest, installed, rollback, manifest, signature, staging, state, lock, proc,
          remote, workspace, starts, faults, crashes, lostWindow, lostService, torn, ran>>

Idle == [op |-> "none", at |-> "none", version |-> 0, stale |-> FALSE, ask |-> FALSE,
         found |-> 0, part |-> 0, was |-> FALSE, whole |-> TRUE]

NoPayload == [version |-> 0, whole |-> FALSE]
NoCopy == [p \in Parts |-> Missing]

Init ==
    /\ latest = 1
    /\ installed = [p \in Parts |-> 1]
    /\ rollback = NoCopy
    /\ manifest = 0 /\ signature = 0
    /\ staging = NoPayload
    /\ state = [state |-> "up_to_date", available |-> 0]
    /\ lock = None
    /\ proc = [p \in Procs |-> Idle]
    /\ remote \in BOOLEAN
    /\ workspace = "open"
    /\ starts = 0 /\ faults = 0 /\ crashes = 0
    /\ lostWindow = FALSE /\ lostService = FALSE /\ torn = FALSE /\ ran = remote

Uniform(parts) == \A p \in Parts : parts[p] = parts[1] /\ parts[1] # Missing

Files == <<installed, rollback, manifest, signature, staging>>
Window == <<workspace, lostWindow>>
Service == <<remote, lostService>>
Around == <<latest, Service, Window, torn>>
Bounds == <<starts, crashes, ran>>

Fault == faults < MaxFaults /\ faults' = faults + 1

At(p, op, at) == proc[p].op = op /\ proc[p].at = at

Goto(p, at) == proc' = [proc EXCEPT ![p].at = at]

-----------------------------------------------------------------------------
(* Starting, the lock, and ending. *)

Release ==
    /\ latest < MaxVersion
    /\ latest' = latest + 1
    /\ UNCHANGED <<Files, state, lock, proc, Service, Window, faults, Bounds, torn>>

\* A process knows the version it was built as.
Begun(op, ask) ==
    [Idle EXCEPT !.op = op, !.at = "start", !.version = installed[UpdaterPart], !.ask = ask]

Start(p, op) ==
    /\ proc[p] = Idle /\ starts < MaxStarts /\ installed[UpdaterPart] # Missing
    /\ proc' = [proc EXCEPT ![p] = Begun(op, FALSE)]
    /\ starts' = starts + 1
    /\ UNCHANGED <<Around, Files, state, lock, faults, crashes, ran>>

\* The workspace hands a staged update over and quits.
install(p) ==
    /\ workspace = "open" /\ state.state = "ready_to_install"
    /\ proc[p] = Idle /\ starts < MaxStarts /\ installed[UpdaterPart] # Missing
    /\ proc' = [proc EXCEPT ![p] = Begun("apply", TRUE)]
    /\ starts' = starts + 1
    /\ workspace' = "closing"
    /\ UNCHANGED <<Files, state, lock, latest, Service, lostWindow, torn, faults, crashes, ran>>

Closed ==
    /\ workspace = "closing"
    /\ workspace' = "closed"
    /\ UNCHANGED <<latest, Files, state, lock, proc, Service, faults, Bounds, lostWindow, torn>>

LockFree == lock = None

Lock(p) ==
    /\ proc[p].at = "start" /\ LockFree
    /\ lock' = p
    /\ Goto(p, "begun")
    /\ UNCHANGED <<Around, Files, state, faults, Bounds>>

\* Another action is running, or the process cannot open the lock or find its own
\* directories: it says so and ends, starting nothing.
Busy(p) ==
    /\ proc[p].at = "start"
    /\ \/ ~LockFree /\ UNCHANGED faults
       \/ Fault
    /\ proc' = [proc EXCEPT ![p] = Idle]
    /\ lostWindow' = (lostWindow \/ proc[p].ask)
    /\ UNCHANGED <<Files, state, lock, latest, Service, workspace, torn, Bounds>>

\* The action ends: its state is saved and the lock goes.
End(p, said, available) ==
    /\ state' = [state |-> said, available |-> available]
    /\ lock' = None
    /\ proc' = [proc EXCEPT ![p] = Idle]

\* Mutant: a refused installation leaves the workspace closed.
relaunchNot(p) == UNCHANGED Window

\* The workspace is started again, which takes a launcher and its packages; nobody
\* learns of a start that fails.
relaunch(p) ==
    \/ ~proc[p].ask /\ UNCHANGED Window
    \/ /\ proc[p].ask /\ \A q \in Parts : installed[q] # Missing
       /\ workspace' = "open" /\ UNCHANGED lostWindow
    \/ proc[p].ask /\ UNCHANGED workspace /\ lostWindow' = TRUE

-----------------------------------------------------------------------------
(* check.rs and stage.rs. *)

\* There is no release, it is not newer, or asking for it failed; a release
\* that cannot be applied is not kept as available.
CheckEnds(p) ==
    /\ At(p, "check", "begun")
    /\ \/ latest <= proc[p].version /\ UNCHANGED faults /\ End(p, "up_to_date", 0)
       \/ Fault /\ \E available \in {state.available, 0} : End(p, "failed", available)
    /\ UNCHANGED <<Around, Files, Bounds>>

CheckFinds(p) ==
    /\ At(p, "check", "begun") /\ latest > proc[p].version
    /\ proc' = [proc EXCEPT ![p].at = "manifest", ![p].found = latest]
    /\ UNCHANGED <<Around, Files, state, lock, faults, Bounds>>

\* The manifest is saved, then its signature: two files.
SaveManifest(p) ==
    /\ At(p, "check", "manifest")
    /\ manifest' = proc[p].found
    /\ Goto(p, "signature")
    /\ UNCHANGED <<Around, installed, rollback, signature, staging, state, lock, faults, Bounds>>

\* A payload stays ready if it was of this version.
SaveSignature(p) ==
    /\ At(p, "check", "signature")
    /\ signature' = proc[p].found
    /\ LET ready == state = [state |-> "ready_to_install", available |-> proc[p].found]
       IN End(p, IF ready THEN "ready_to_install" ELSE "update_available", proc[p].found)
    /\ UNCHANGED <<Around, installed, rollback, manifest, staging, faults, Bounds>>

SaveFails(p) ==
    /\ proc[p].op = "check" /\ proc[p].at \in {"manifest", "signature"}
    /\ Fault
    /\ End(p, "failed", state.available)
    /\ UNCHANGED <<Around, Files, Bounds>>

saved_manifest == manifest = signature /\ manifest # 0

applicable(p) == manifest > proc[p].version

DownloadBegins(p) ==
    /\ At(p, "download", "begun")
    /\ saved_manifest /\ applicable(p) /\ latest = manifest
    /\ staging' = NoPayload
    /\ state' = [state EXCEPT !.state = "downloading"]
    /\ Goto(p, "fetching")
    /\ UNCHANGED <<Around, installed, rollback, manifest, signature, lock, faults, Bounds>>

DownloadRefused(p) ==
    /\ At(p, "download", "begun")
    /\ IF saved_manifest /\ applicable(p) /\ latest = manifest THEN Fault ELSE UNCHANGED faults
    /\ End(p, "failed", state.available)
    /\ UNCHANGED <<Around, Files, Bounds>>

\* The bytes arrived and are the signed ones: they are unpacked.
Stage(p) ==
    /\ At(p, "download", "fetching")
    /\ staging' = [version |-> manifest, whole |-> FALSE]
    /\ Goto(p, "validating")
    /\ UNCHANGED <<Around, installed, rollback, manifest, signature, state, lock, faults, Bounds>>

Staged(p) ==
    /\ At(p, "download", "validating")
    /\ staging' = [staging EXCEPT !.whole = TRUE]
    /\ End(p, "ready_to_install", state.available)
    /\ UNCHANGED <<Around, installed, rollback, manifest, signature, faults, Bounds>>

DownloadFails(p) ==
    /\ proc[p].op = "download" /\ proc[p].at \in {"fetching", "validating"}
    /\ Fault
    /\ staging' = NoPayload
    /\ End(p, "failed", state.available)
    /\ UNCHANGED <<Around, installed, rollback, manifest, signature, Bounds>>

-----------------------------------------------------------------------------
(* apply.rs. *)

\* The action failed, and the workspace that asked for it is started again.
Fail(p) ==
    /\ End(p, "failed", state.available)
    /\ relaunch(p)

\* Mutant: a payload is taken for the manifest's without looking at it again.
staged_payloadAny == staging.version # 0

\* The staged payload, verified again byte for byte.
staged_payload == staging = [version |-> manifest, whole |-> TRUE]

Installable(p) == ~proc[p].stale /\ saved_manifest /\ applicable(p) /\ staged_payload

ApplyBegins(p) ==
    /\ At(p, "apply", "begun") /\ Installable(p)
    /\ Goto(p, "waiting")
    /\ UNCHANGED <<Around, Files, state, lock, faults, Bounds>>

ApplyRefused(p) ==
    /\ At(p, "apply", "begun") /\ ~Installable(p)
    /\ Fail(p)
    /\ UNCHANGED <<latest, Service, torn, Files, faults, Bounds>>

Waited(p) ==
    /\ At(p, "apply", "waiting") /\ (proc[p].ask => workspace = "closed")
    /\ state' = [state EXCEPT !.state = "installing"]
    /\ Goto(p, "copying")
    /\ UNCHANGED <<Around, Files, lock, faults, Bounds>>

\* The workspace did not close within a minute.
WaitTimesOut(p) ==
    /\ At(p, "apply", "waiting") /\ proc[p].ask /\ workspace = "closing"
    /\ Fault
    /\ Fail(p)
    /\ UNCHANGED <<latest, Service, torn, Files, Bounds>>

\* An installer whose process was killed still runs.
Left(p) == At(p, "apply", "left")

Tears == torn' = (torn \/ ~Uniform(installed) \/ \E p \in Procs : Left(p))

\* What the installer will replace is listed and copied; the last copy goes.
Take(p) ==
    /\ At(p, "apply", "copying")
    /\ rollback' = installed
    /\ Tears
    /\ Goto(p, "stopping")
    /\ UNCHANGED <<latest, Service, Window, installed, manifest, signature, staging, state, lock,
                   faults, Bounds>>

\* The installer could not list its targets, or they could not be copied.
TakeFails(p) ==
    /\ At(p, "apply", "copying")
    /\ Fault
    /\ \/ UNCHANGED <<rollback, torn>>
       \/ rollback' = NoCopy /\ Tears
    /\ Fail(p)
    /\ UNCHANGED <<latest, Service, installed, manifest, signature, staging, Bounds>>

\* The service is stopped if it runs, and is not asked to where it is not known to:
\* lcl-remote is not there, or whether it runs is not answered.
StopRemote(p) ==
    /\ At(p, "apply", "stopping")
    /\ \E was \in BOOLEAN :
          /\ \/ was = remote /\ UNCHANGED faults
             \/ ~was /\ (\E q \in Parts : installed[q] = Missing) /\ UNCHANGED faults
             \/ ~was /\ Fault
          /\ remote' = (remote /\ ~was)
          /\ proc' = [proc EXCEPT ![p].at = "installing", ![p].was = was, ![p].part = 1]
    /\ UNCHANGED <<latest, lostService, Window, torn, Files, state, lock, Bounds>>

\* Stopping it is reported failed, which is also what a stop answers that takes a
\* minute or whose output is lost: then the service may have stopped, and nothing
\* starts it again.
StopFails(p) ==
    /\ At(p, "apply", "stopping") /\ remote
    /\ Fault
    /\ remote' \in BOOLEAN /\ lostService' = (lostService \/ ~remote')
    /\ rollback' = NoCopy
    /\ Fail(p)
    /\ UNCHANGED <<latest, torn, installed, manifest, signature, staging, Bounds>>

\* A part changes: processes started from the replaced program are not the
\* installed one any more.
Put(p, q, version, at) ==
    /\ installed' = [installed EXCEPT ![q] = version]
    /\ proc' = [r \in Procs |->
                  IF r = p THEN at
                  ELSE [proc[r] EXCEPT !.stale = @ \/ (q = UpdaterPart /\ proc[r] # Idle)]]

\* The installer replaces one part after another, each in one rename.
Publish(p) ==
    /\ At(p, "apply", "installing") /\ proc[p].part \in Parts
    /\ Put(p, proc[p].part, staging.version, [proc[p] EXCEPT !.part = @ + 1])
    /\ UNCHANGED <<Around, rollback, manifest, signature, staging, state, lock, faults, Bounds>>

\* The installer failed, what it installed does not answer, or the remote
\* service does not start on it.
InstallFails(p) ==
    /\ At(p, "apply", "installing")
    /\ Fault
    /\ remote' \in {remote, remote \/ (proc[p].was /\ proc[p].part \notin Parts)}
    /\ proc' = [proc EXCEPT ![p].at = "restoring", ![p].part = NParts]
    /\ UNCHANGED <<latest, lostService, Window, torn, Files, state, lock, Bounds>>

Succeed(p) ==
    /\ At(p, "apply", "installing") /\ proc[p].part \notin Parts
    /\ remote' = (remote \/ proc[p].was) /\ UNCHANGED lostService
    /\ rollback' = NoCopy
    /\ staging' = NoPayload /\ manifest' = 0 /\ signature' = 0
    /\ End(p, "up_to_date", 0)
    /\ relaunch(p)
    /\ UNCHANGED <<latest, torn, installed, faults, Bounds>>

\* Every part is put back, last first; one that fails does not stop the rest.
Restore(p) ==
    /\ At(p, "apply", "restoring") /\ proc[p].part \in Parts
    /\ LET q == proc[p].part
           next == [proc[p] EXCEPT !.part = @ - 1]
       IN \/ Put(p, q, rollback[q], next) /\ UNCHANGED faults
          \/ /\ Fault
             /\ \E left \in {installed[q], Missing} : Put(p, q, left, [next EXCEPT !.whole = FALSE])
    /\ UNCHANGED <<Around, rollback, manifest, signature, staging, state, lock, Bounds>>

\* Mutant: the copy is discarded whether or not all of it could be put back.
KeptNever(p) == FALSE

Kept(p) == ~proc[p].whole

\* Mutant: the service is started again only on the new version.
ServiceLeft(p) == UNCHANGED <<Service, faults>>

\* The service is started again if it ran before; that may fail.
ServiceStart(p) ==
    \/ remote' = (remote \/ proc[p].was) /\ UNCHANGED <<lostService, faults>>
    \/ /\ proc[p].was /\ Fault
       /\ remote' \in BOOLEAN /\ lostService' = (lostService \/ ~remote')

Restored(p) ==
    /\ At(p, "apply", "restoring") /\ proc[p].part \notin Parts
    /\ ServiceStart(p)
    /\ rollback' = IF Kept(p) THEN rollback ELSE NoCopy
    /\ Goto(p, "restored")
    /\ UNCHANGED <<latest, Window, torn, installed, manifest, signature, staging, state, lock,
                   Bounds>>

ApplyFails(p) ==
    /\ At(p, "apply", "restored")
    /\ Fail(p)
    /\ UNCHANGED <<latest, Service, torn, Files, faults, Bounds>>

-----------------------------------------------------------------------------
(* Killed processes, and what goes on of them. *)

\* The installer the process had started, at the part it had come to, or nothing.
Remains(p) ==
    {Idle} \cup
    (IF At(p, "apply", "installing") /\ proc[p].part \in Parts
     THEN {[Idle EXCEPT !.op = "apply", !.at = "left", !.version = staging.version,
                        !.part = proc[p].part]}
     ELSE {})

\* The service action it had started takes effect, or not.
Serviced(p) ==
    CASE At(p, "apply", "stopping") -> {remote, FALSE}
      [] proc[p].was /\ proc[p].at # "restored" /\ proc[p].part \notin Parts -> {remote, TRUE}
      [] OTHER -> {remote}

\* The process is killed: the lock goes with it, and a copy it was making; what it
\* was unpacking may be whole in the end.
Crash(p) ==
    /\ proc[p] # Idle /\ ~Left(p) /\ crashes < MaxCrashes
    /\ \E r \in Remains(p) : proc' = [proc EXCEPT ![p] = r]
    /\ lock' = IF lock = p THEN None ELSE lock
    /\ remote' \in Serviced(p)
    /\ lostService' = (lostService \/ proc[p].was \/ remote' # remote)
    /\ lostWindow' = (lostWindow \/ proc[p].ask)
    /\ \/ UNCHANGED <<rollback, torn>>
       \/ At(p, "apply", "copying") /\ rollback' = NoCopy /\ Tears
    /\ \/ UNCHANGED staging
       \/ At(p, "download", "validating") /\ staging' = [staging EXCEPT !.whole = TRUE]
    /\ crashes' = crashes + 1
    /\ UNCHANGED <<latest, workspace, installed, manifest, signature, state, faults, starts, ran>>

\* An installer that was left goes on while others act.  It reads what is staged as
\* it comes to it: where its own release is not staged whole any more it may publish
\* what does not work, and where it is not staged at all it ends.
LeftPublishes(p) ==
    LET k == proc[p].part
        v == proc[p].version
        next == IF staging.version = v THEN [proc[p] EXCEPT !.part = @ + 1] ELSE Idle
    IN  /\ Left(p) /\ k \in Parts
        /\ \E made \in {v, Missing} :
              /\ made = Missing => staging # [version |-> v, whole |-> TRUE]
              /\ Put(p, k, made, next)
        /\ UNCHANGED <<Around, rollback, manifest, signature, staging, state, lock, faults, Bounds>>

LeftEnds(p) ==
    /\ Left(p)
    /\ proc' = [proc EXCEPT ![p] = Idle]
    /\ UNCHANGED <<Around, Files, state, lock, faults, Bounds>>

-----------------------------------------------------------------------------
Step(p) ==
    \/ Lock(p) \/ Busy(p)
    \/ CheckEnds(p) \/ CheckFinds(p) \/ SaveManifest(p) \/ SaveSignature(p) \/ SaveFails(p)
    \/ DownloadBegins(p) \/ DownloadRefused(p) \/ Stage(p) \/ Staged(p) \/ DownloadFails(p)
    \/ ApplyBegins(p) \/ ApplyRefused(p) \/ Waited(p) \/ WaitTimesOut(p)
    \/ Take(p) \/ TakeFails(p) \/ StopRemote(p) \/ StopFails(p)
    \/ Publish(p) \/ InstallFails(p) \/ Succeed(p)
    \/ Restore(p) \/ Restored(p) \/ ApplyFails(p)

Next ==
    \/ Release \/ Closed
    \/ \E p \in Procs :
         \/ (\E op \in {"check", "download", "apply"} : Start(p, op)) \/ install(p)
         \/ Step(p) \/ Crash(p) \/ LeftPublishes(p) \/ LeftEnds(p)

Spec == Init /\ [][Next]_vars

\* A process that runs goes on, and a workspace that quits ends.
FairSpec == Spec /\ (\A p \in Procs : WF_vars(Step(p))) /\ WF_vars(Closed)

-----------------------------------------------------------------------------
(* Properties. *)

Versions == 1..MaxVersion

Actions == {"none", "check", "download", "apply"}
Places == {"none", "start", "begun", "manifest", "signature", "fetching", "validating",
           "waiting", "copying", "stopping", "installing", "restoring", "restored", "left"}

TypeOK ==
    /\ latest \in Versions
    /\ installed \in [Parts -> Versions \cup {Missing}]
    /\ rollback \in [Parts -> Versions \cup {Missing}]
    /\ manifest \in 0..MaxVersion /\ signature \in 0..MaxVersion
    /\ staging \in [version : 0..MaxVersion, whole : BOOLEAN]
    /\ state \in [state : {"up_to_date", "update_available", "downloading", "ready_to_install",
                          "installing", "failed"}, available : 0..MaxVersion]
    /\ lock \in Procs \cup {None}
    /\ proc \in [Procs -> [op : Actions, at : Places, version : 0..MaxVersion, stale : BOOLEAN,
                           ask : BOOLEAN, found : 0..MaxVersion, part : 0..(NParts + 1),
                           was : BOOLEAN, whole : BOOLEAN]]
    /\ {remote, torn, ran, lostWindow, lostService} \subseteq BOOLEAN
    /\ workspace \in {"open", "closing", "closed"}

Installing(p) == proc[p].op = "apply" /\ proc[p].at \in {"installing", "restoring"}

\* Whatever fails and whenever the process is killed, its installer going on or
\* not: an installation that began on a whole version leaves a whole version, or
\* the copy of the one it began on (apply.rs `apply`, `Rollback`).  Beginning
\* another on a mixture, or beside an installer that a killed process left, gives
\* that up: it copies what there is and drops the copy kept before.
WholeOrKept ==
    \/ torn \/ Uniform(installed) \/ Uniform(rollback)
    \/ \E p \in Procs : Installing(p)

\* Only the signed release that was found and staged is installed over what there
\* is, and it makes no part older (check.rs `saved_manifest`, `applicable`, stage.rs
\* `staged_payload`); nor does an installer that a killed process left, unless
\* another installation began beside it.  Only putting back the copy may.
InstallsSigned ==
    [][\A p \in Procs :
         /\ Publish(p) =>
              /\ staging = [version |-> signature, whole |-> TRUE]
              /\ \A q \in Parts : installed[q] <= installed'[q]
         /\ LeftPublishes(p) =>
              torn \/ \A q \in Parts : installed'[q] = Missing \/ installed[q] <= installed'[q]]_vars

\* A remote service that ran before an installation runs after it, on the new
\* version or the old, unless it would not start, stopping it was reported failed
\* although it stopped, or the updater was killed (apply.rs `apply`).
ServiceReturns ==
    remote = ran \/ lostService \/ \E p \in Procs : proc[p].was

\* The workspace that closed for an update comes back, unless the updater could not
\* have the lock, was killed, or tried to start it in vain (updates.rs `install`,
\* apply.rs `relaunch`).
WorkspaceReturns == (workspace # "open") ~> (workspace = "open" \/ lostWindow)

\* Not so: "Two update actions at once, from two windows or a window and a terminal,
\* never interleave" (state.rs `Lock`).  An installer left by a killed process
\* publishes while another process acts.
ActionsNeverInterleave == \A p \in Procs : Left(p) => lock = None

\* Not so: "the LCL remote service could not be stopped, so nothing was changed"
\* (apply.rs `apply`).
StopFailsUnchanged == [][\A p \in Procs : StopFails(p) => remote' = remote]_vars
=============================================================================
