# Verification of LCL

LCL is a language whose documents describe work to be done (tasks, phases,
steps, actions) and a set of programs that run them: a language engine, a local
workspace with a browser page, a service on the PC that phones pair with, the
phone app, and an updater. This directory holds TLA+ models of the parts of it
where order, failure and consent decide correctness, TLC configurations that
check them on small instances, and TLAPS proofs about all instances of each of
them. Paths below are relative to the repository.

Contents: [inventory](#inventory), [modules](#modules-and-the-code),
[runs](#runs), [proofs](#proofs), [what the code does not
do](#what-the-code-does-not-do), [observed](#observed), [not
modelled](#not-modelled), [plan](#plan).

## Inventory

| Part | State | Operations | Talks to | What is hard | What makes it correct |
|---|---|---|---|---|---|
| Pairing and trust (`remote/src/pairing*`, `devices.rs`, `session/admission.rs`) | `pairing.json` (codes, requests), `devices.json` (records), open sessions | issue, enlist, approve, deny, finalize, revoke, unpair, connect, recheck | command line, desktop, service threads through two files | three writes to two files with crashes between; a revocation or denial in between; the wall clock | only the device the person chose, once per code, never again after revocation |
| Run gate (`lcl-workspace/src/execution.rs`) | one session: current pause, answer, refusals, cancelled, finished | hold, answer, cancel, refuse, finish | engine thread, request threads, phone sessions | late and double answers; cancel between check and wait | no effect without the consent asked for it; a refusal holds; a cancel ends the run |
| Run events (`execution.rs`, `routes/runs.rs`, `routes/mod.rs`, `remote/.../session/runs.rs`, `WorkspaceController.kt`) | the log, the finished flag, each follower's count | emit, finish, stream, poll, follow, resume | browser tab, phone over a connection that drops | log and flag read under two locks; lost messages; resumption | followers see each event once, and the end only after everything |
| Remote sessions and runs (`remote/src/session*`, `projects.rs`) | shared projects, open routes, owners of runs, what each session follows | open, run, own, follow, answer, look at what is shared, close, cancel | every session thread, the workspace's routes | run numbers start again in new routes; a closing during a look | no device sees another's run; an unshared project is closed and its runs ended |
| Connection limits (`remote/src/service.rs`) | three counters | take, authenticate, drop | accept loop and session threads | two release paths of one slot | counters are exact, limits hold |
| Language engine: execution (`lcl-runtime/src/execute.rs`, `handler.rs`, `schedule.rs`, `event.rs`, `state.rs`) | queue of steps, records of invocations, events, abandoned units, retry proofs, halted | enter, iterate, leave, attempt, delegate, handle, retry, stop, cancel | plan (`lcl-semantics`), operations (`lcl-stdlib`), host | one queue carries all order; retries after uncertain effects; failure inside loops and delegations | no unsafe or surplus attempt; nothing after a failure; parallel siblings independent; it ends |
| Language front end (`lcl-spec`, `-lexer`, `-parser`, `-resolver`, `-checker`, `-semantics`) | none over time | pure passes | each other | volume of cases | each pass's own specification |
| Completion (`lcl-completion`) | none over time | terminal status and success of the root | execution's records | precedence of causes | one terminal status per run |
| Capabilities, standard library (`lcl-capabilities`, `lcl-stdlib`) | granted bounds | file, process, network; core operations | host system | I/O | stays within what was granted |
| Project files (`lcl-project`) | lock file, cache | lock, resolve, put, get, verify | file system | several processes, partial writes | an entry is what its digest says |
| Protocol, command line (`lcl-protocol`, `lcl-cli`) | none over time | load, check, run, report | the crates above | - | - |
| Workspace documents (`document.rs`, `routes/documents.rs`) | files, the number of the last publication per file, temporary files | read, save, save expecting a revision, create, delete | browser, phones, other processes and programs | saves accepted in one order and published in another; comparison and rename are two steps; each file operation may fail | a compare-and-set register; nothing left behind |
| An open document on a phone (`OpenDocument.kt`, `WorkspaceController.kt`, `remote/.../documents.rs`) | the phone's copy: text, base, conflict; what the session watches | open, edit, save, reload, keep mine, close, tell of changes, reconcile | the documents above over a connection | replies used after more was typed or told; events lost with the connection | no save over a revision never shown; changes noticed |
| Local projects and sync (`ProjectSync.kt`, `LocalProjects.kt`) | documents and sync records on the phone | edit, plan, make folders, send, record, verify, remove | the PC's documents | lost answers, edits during a sync, a removal half done | records are true; what leaves the phone is on the PC |
| Updater (`update/`, `packaging/install.sh`, `updates.rs`) | manifest and signature, staged payload, state file, copy to roll back to, lock | check, download, apply, roll back | releases, installer, remote service, workspace | failure or a kill anywhere in an installation | the installation or its copy is whole; service and workspace return |
| Phone connection (`ConnectionManager.kt`, `PairingController.kt`) | one record and several keys per PC, the loop, the attempt | pair, cancel, connect, forget, retire keys, start | the PC's service | retirement overlaps with forgetting and pairing again; lost answers; process death | no retired key still trusted; the pairing in use keeps its trust |
| Phone updates (`UpdateController.kt`) | a downloaded package | check, download, hand to Android | releases, Android's installer | - | - |

How they interact: a phone or the browser asks the workspace's routes to run a
document; a run thread executes the plan in the engine; each operation and each
host request passes the run gate, which may stop and ask; what happens is
appended to the run's log, which a browser stream or a phone's session follows.
Who may ask at all is decided by pairing, and which projects by sharing. Both
processes on the PC, the workspace and the service phones connect to, link the
document store and write the same files; phones and browsers save through it.

## Modules and the code

| Module | Models | Steps are |
|---|---|---|
| `Pairing` | pairing and the device registry | one read-modify-write under the pairing lock, except finalization, which is its three writes (`Reserve`, `Enroll`, `Spend`) |
| `CodeTrust` | what pairing promises, abstractly | giving a code, taking it back, trusting, revoking |
| `RunGate` | one run and its pauses | one hold of the session lock or one append to the log |
| `RunEvents` | the log of a run and who follows it | one read under one lock, one message |
| `RemoteRuns` | sessions, shared project, owned runs | one hold of the projects or owners lock, one call into routes |
| `Slots` | connection counters | one hold of the counts lock |
| `Execution` | the executor of a plan | one queue step; within an ACTION, an attempt and its handling |
| `Documents` | one document, saved, created and deleted by threads of several processes and by other programs | taking a number, preparing the file, comparing under the lock, moving the file, sweeping |
| `DocumentStore` | what one process promises about a document, abstractly | asking, taking effect, refusing |
| `Editing` | one document open on a phone, the session that serves and watches it | one thing the person does, one request served, one look at the file, one reply or event applied |
| `ProjectSync` | syncing a local project and removing it | one request of the sync, one read or write of the phone's disk |
| `Updater` | processes of `lcl-update`, the installer, the workspace that asks | one file saved, one part installed or restored, one service action |
| `PhoneLink` | one PC's record, keys, loop and pairing attempt on a phone | what runs between two waits for the PC |
| `DocumentTexts` | the texts a document may have and the line end the store adds, shared by the three modules about documents | none |
| `MCPairing`, `MCRemoteRuns`, `MCSlots`, `MCExecution`, `MCDocuments`, `MCProjectSync`, `MCPhoneLink` | constants for TLC | |
| `PairingProofs`, `RunGateProofs`, `RunEventsProofs`, `UpdaterProofs`, `ExecutionProofs` | theorems about the module so named | |
| `RemoteServiceProofs` | theorems about `RemoteRuns` and `Slots` | |
| `DocumentsProofs` | theorems about `Documents` and `Editing` | |
| `PhoneProofs` | theorems about `PhoneLink` and `ProjectSync` | |

Two pairs of modules are a specification and its implementation: `Pairing`
implements `CodeTrust`, and `Documents` with one process implements
`DocumentStore`; both are checked and proved. `Editing` takes the register that
`DocumentStore` states for its document, so that it need not repeat the file
operations; `PhoneLink` takes the standing of a key that `Pairing` decides.

`PROJECT.json` maps every definition to its lines. Notes on the abstractions:

* **Pairing.** A request is a code and a certificate, and stands also for the
  random request id and the reserved device id. `Crash` and `Abandon` (a write
  that fails, before or after its rename) end a finalization between any two
  writes. `Store` applies `State::prune` at every write as the code does.
  `Tick` may set the clock back (`ClockSetBack`), because expiry uses the wall
  clock. `UnpairLookup` and `UnpairRevoke` are two steps because the code takes
  the registry lock twice. `GiveUp` is the phone that stops asking and deletes its
  key: cancelled there, its code expired by its own clock, or refused by the PC
  (`ConnectionManager.kt:413`). `decision` is a history variable; `gone` is that a
  phone gave up.
* **RunGate.** Invocations are numbered; retries and loop instances are
  invocations of their own, as their identities are in the code. A pause's
  registration, its announcement in the log, the wait and the return are
  separate steps. `asked`, `reply`, `performed` and `late` are history.
* **RunEvents.** An event is its index; the last is the report. The heartbeat
  is a read that returns an empty batch. Whatever is on the wire when a
  connection drops is lost, although the session has counted it as sent.
* **RemoteRuns.** One project, because projects share nothing but the lock. The
  routes get a new number each time they are opened; run numbers start again (`NextNumber` is the
  count kept by one opening of the routes). `replaced` is history: the runs whose
  owner's record a newer run of the same number has taken.
* **Slots.** Authentication is two steps (`Prove`, `Discount`), since the slot is
  marked before the counters are changed and dropped from another path.
* **Execution.** A plan is a tree of nodes and is a constant; conditions,
  collection sizes, host answers and which attached handler matches are free
  choices. `status.blocked` and `status.failed` are one status: nothing in the
  executor tells them apart. MISSING, UNKNOWN and operand faults are one
  outcome. Left out: values, OUTPUT bindings, stores, texts, and the step budget
  that stops a runaway plan (`MAX_STEPS`), which no plan here comes near. `IsPlan`
  says which trees the planner makes: a node comes after its parent and is listed
  once among its children, only a PHASE or a SEQUENCE can be parallel
  (`lcl-semantics/src/order.rs:175`), and only an ACTION has an operation
  (`lcl-runtime/src/execute.rs:541`). A delegating row has a copy of what it delegates to as
  its one child, as the planner expands it there. A unit that is stopped or
  cancelled by name is taken to occur once in the plan. `record_of` is what any
  outcome leaves, the host's or the operation's own; a delegating row's result
  keeps its contract by the way it is made, so `Return` has no such failure.
* **Documents.** A job is one call. Its process has its own `PUBLISHED` lock and
  its own numbering, as the static of the linked library has, so a change by
  another process or program may fall between the comparison and the rename;
  `crossed` records when it did. A text is a body with or without the line end
  the store adds (`admissible`). Any file operation may fail; a creation whose
  temporary link cannot be removed is answered with an error although it took
  effect, and so is a refusal whose temporary file stays: `answer` is what became
  of the job, `swept` whether its temporary file is gone, and `Told` what the
  caller is told of the two. `was` is history.
  `DocumentStore` gives a caller its turn when it asks, later than that of every
  earlier one, and an older save that lost its turn is answered as published.
* **Editing.** Requests carry what their coroutine read when it began, which the
  code uses when the reply comes. The reader, the socket and the main thread
  keep replies and events in order. `met` (revisions shown, or chosen to be
  replaced), `unmet` and `lost` are history.
* **ProjectSync.** One folder with its documents; a destination is the usual one
  or the renamed one beside it. A request is answered, lost before the PC acted,
  or lost after. `held`, `moved`, `overwrote` and `unbacked` are history.
* **Updater.** An installation is a row of parts, each published in one rename,
  of which one is the updater's own program. A version is its number; a manifest
  and a signature verify together if they are of one release. A kill ends
  the process and frees its lock, not what the process had started: the installer,
  a child that takes no lock, goes on at the part it had come to (`Left`,
  `LeftPublishes`, `LeftEnds`), reading what is staged as it comes to it, and the
  service action may still take effect (`Serviced`). Stopping the service may be
  reported failed although it stopped, since that is also what a timeout answers
  (`StopFails`); a process may be refused by the lock file itself and not only by
  another holder (`Busy`); and a start of the workspace that fails is told nobody
  (`relaunch`). `lostWindow` and `lostService` record the refusals, failures and
  kills after which nothing starts the workspace or the service again; `torn` that
  an installation began on a mixture, or beside an installer left by a kill.
* **PhoneLink.** A key is made for one attempt. Coroutines interleave where they
  wait for the PC. `tasks` is the queue at the retirement mutex; a task begun by
  the loop is marked cancelled when the loop ends (`Stopped`) and leaves in a step of
  its own (`RetireCancelled`), since what was waiting for the PC is told later.
  `off` and `revoked` are history.

Each module has one type invariant: `TypeOK`, or `EditingTypeOK`, `SyncTypeOK` and
`SlotsTypeOK` where a proof module is about two modules. All of them are proved,
as theorems of their own or as part of an inductive invariant. They are not among
the runs' properties, which are the ones a change of the code could break.

## Runs

| Run | Configuration | Shows |
|---|---|---|
| `pairing_safety` | `MCPairingSafety.cfg` | trust only as decided, one live record per key, and the code implements `CodeTrust` |
| `pairing_liveness` | `MCPairingLive.cfg` | an untrusted session ends; a pairing that has begun finishes after crashes and expiry while its phone goes on asking |
| `run_gate` | `RunGate.cfg` | consent, refusal, cancellation and that it ends the run |
| `run_events` | `RunEvents.cfg` | each event once, the end after everything, the end is heard, a pause reaches the tab |
| `remote_runs` | `MCRemoteRuns.cfg` | own runs only; a closing cancels what it closed, but for a run whose very record was replaced; closings told, unshared projects closed |
| `slots` | `MCSlots.cfg` | exact counters, limits |
| `execution` | `MCExecution.cfg` | safe and bounded retries, nothing after a failure, parallel independence, delegation's report, termination |
| `documents` | `MCDocuments.cfg` | one process implements `DocumentStore`; with others a named revision is replaced only by what was checked against it; an answer is true and leaves nothing behind |
| `editing` | `MCEditing.cfg` | no save over a revision the phone never showed; a change on the PC is noticed |
| `sync` | `MCProjectSync.cfg` | sync records claim only what the PC held; what is removed is held; only what the plan met is replaced |
| `updater` | `MCUpdater.cfg` | whole or recoverable, only signed and staged, service and workspace return |
| `phone_link` | `MCPhoneLink.cfg` | retired keys are trusted no more, the key in use stays trusted, no key is lost or left over |

**Bounds.**

* Pairing: two codes and two certificates are enough for a second device on one
  code, for one key paired twice, and for both at once. One crash suffices for
  safety, as after a restart nothing but the files is left; liveness uses two,
  so that a retry is interrupted too. Limits are 1 to 3 so that they are hit.
  `TTL` and the history are one second, so codes expire and are pruned (2.0 million
  states for safety, 0.25 million for liveness).
* RunGate: three invocations allow a delegating one with an inner one and one
  after it; answers may name any pause number so far.
* RunEvents: three events are a batch of more than one, a lost one and the report.
* RemoteRuns: two devices, two openings of the routes and one run in each let a
  run number name two runs of two owners; three changes of sharing close a project,
  share it again and close it again, so that the second opening is closed with an
  earlier one behind it (0.50 million states). The two safety properties also hold
  with three openings and five changes (6.4 million states, the devices symmetric).
* Slots: five connections against limits of 4, 3 and 2.
* Execution: nine pairs of plan and order, one plan per shape the executor
  treats differently, with loops of at most two members and retry limits of at
  most two. A plan is an instance, not a bound on behaviour: every answer of the
  host and every condition is explored.
* Documents: three calls let a third fall before, between or after two others;
  two processes, one change by another program and one failed operation each put
  something into the gap under another lock (1.3 million states).
* Editing: two edits (one before and one during a save), one save, one reload, two
  changes on the PC (a change and its return, or a change during the fetch of
  another), one lost connection.
* ProjectSync: two documents, so that one may be confirmed and the other not; two
  syncs or removals, so that one starts on the records of another; one edit, one
  change on the PC and one lost request or failed write (1.7 million states).
* Updater: two processes meet at the lock; three parts have one before and one
  after the updater's own; three versions let the newest change between check,
  download and installation; five starts are a check, a download, an
  installation and two more; two failures are one in an installation and one in
  putting it back; one kill, which leaves one installer going on beside a further
  installation (1.1 million states).
* PhoneLink: four keys are a pairing in use, one being made and two to retire, or
  one retired while a further one is made; two retirements (one holding the
  mutex, one waiting), two lost requests, one restart (0.91 million states).

`CHECK_DEADLOCK FALSE` is set where the system may stop: a run that is over, a
clock at its bound with every code pruned, or, in the five runs added for
documents, sync, updates and the phone, nobody asking for anything more.
`RunGate`, `RemoteRuns` and `Slots` are checked for deadlock.

**Fairness.** `RunGate`: the run thread is scheduled and the calls it makes
return (`WF` of its steps); nobody has to answer or cancel. `RunEvents`: the
stream's, poller's and phone's threads run; `Follow` is strongly fair, because
the session reads its socket in each round of its loop, so a request that keeps
being on its way is read. `Finish` is fair only once the report is out: a
run may stay at a pause for ever. `RemoteRuns`: session threads run, and
`Recheck` is strongly fair, because it is taken once a second of going round the
loop whatever else the round did. `Pairing`: the session's loop, the writes of a
finalization that goes on, and the phone that asks again every two seconds. It
need not ask for ever: `GiveUp` is open to it whenever its request is approved, in
particular when the code has expired by its own clock, and `BegunPairingFinishes`
promises nothing for a phone that has given up. What it does say is that the PC
does not lose a begun pairing: by the PC's clock the code may have expired, which a
phone whose clock is behind does not know. `Execution`: one loop on one thread, and every host request is
answered. `Editing`: the session serves what it reads and looks at open documents
once a second, the phone handles what arrives, and its loop reconnects after
backing off; nobody has to do anything else. `Updater`: a process that runs goes
on, since its waits are limited (a minute for the workspace to close, limits on
requests and on the installer's answers), and a workspace told to quit ends;
nobody has to start anything.

## Proofs

TLAPS proves the following for every value of the constants.

**`PairingProofs`** (assumes `PairingAssumption`: sentinels are not certificates,
limits are naturals). Any codes, certificates, limits, crashes and clock.
`TrustOnlyApproved` is not inductive: whether the next device record is for the
right certificate depends on what ties the code, the request, the reservation and
the finalization in progress together. `Linked` states those ties, and
`Inv == TypeOK /\ Linked /\ OneLivePerKey /\ UnpairKnown` is inductive
(`InitInv`, `StepInv`; `PruneKeeps` and `StoreLinked` carry what pruning
preserves). From it: `TypeCorrect`, `OneLive`, `Denied`, `RevokedStaysRevoked`;
`StepPromise` shows that each step is a step of `CodeTrust` or a stutter, hence
`PairingImplementsCodeTrust`, and `TrustIsDecided` follows from what `CodeTrust`
guarantees. The action property `NoRevival` (no revoked record lives again) is
proved and not run, since it is part of what `CodeTrust` says.

**`RunGateProofs`** (assumes that the number of invocations is a natural). Any
number of invocations, pauses and answers. The inductive invariant adds to the
properties where a refusal is at each point between the person and the host
(`Refusal`), that an open pause is the latest and unanswered (`OpenPause`,
`AtPause`), that what `hold` returned was answered (`Returned`, `Allowed`), and
that an invocation running its graph is not yet performed (`Nesting`). One lemma
per action. Theorems: `TypeCorrect`, `Consent`, `Refused`, `OneAnswer`, `Stops`,
`Answerable`.

**`RunEventsProofs`** (assumes a log of at least one event). Any length of run,
any dropped connections. What a device has seen is tied to the log through what
is on its way: received, on the wire and left in the batch make up what the
session has counted, in order (`OnItsWay`, `Covered`), and a message other than an
event stands at the end of the whole log (`EndAtEnd`), because the flag is read
before the log (`FlagFirst`) and the report precedes the flag (`RunOrder`).
Theorems: `FollowsExactlyHolds`, `EndMeansAllHolds`.

**`RemoteServiceProofs`**, of `RemoteRuns` (assumes natural bounds). Any sessions,
openings and runs. What a run number stands for is carried from the start of the
run to its owner's record (`Placed`, `Started`); between closing routes and
cancelling their runs the record survives what other sessions do to the same
number, or a newer run has taken that very record, which `replaced` remembers
(`StillOwned`). Theorems:
`OnlyOwnRunsHolds`, `CancelledOrReplacedHolds`.
Of `Slots` (assumes a finite set of connections and natural limits): any
connections, addresses and limits. `WithinLimits` rests on `CountsExact`, since
`take` decides by the counters. The cardinality facts are from
`FiniteSetTheorems`. Theorems: `CountsNatural` (the type invariant),
`CountsExactHolds`, `WithinLimitsHolds`.

**`DocumentsProofs`** (assumes `DocumentsAssumption`: sentinels are no texts, jobs or
processes). Any calls, processes, texts, changes by others and failing file
operations. A comparison holds until the move because a process's lock has one
holder (`LockHeld`) and everybody else's change is counted (`DecidedOnBase`). What was answered is what became of the job
(`Answered`), and what the caller is told says no more than that. For the
refinement, the highest published number of a process is that of a job that
landed, and none that landed has a higher one (`Numbers`, with `Alone` for a process
that has the document to itself). Theorems: `ReplacedItsBaseHolds`,
`AnswersTrueHolds`, `DocumentsImplementStore`.
Of `Editing` (assumes `EditingAssumption`): any texts, edits, saves, reloads,
changes on the PC and lost connections. `OverwritesOnlyMet` speaks of the moment
the PC takes a save; what makes it true is that the base of the phone's copy and
the base of every save that may still reach the PC are revisions the person was
shown or chose to replace (`BaseMet`, `SavesMet`, of which `EditingInv` is made).
Theorems: `EditingTypeCorrect`, `OverwritesOnlyMetHolds`.

**`UpdaterProofs`** (assumes at least one part and one release). Any processes,
parts, releases, failures and kills. A process that is not a left installer is past
its start exactly if it holds the lock, so most of the invariant speaks of the
holder alone: what it has verified and how far it has come (`Fits`), that the
service is as it was or stopped by it (`Serves`), that the installation or its copy
is whole unless it is in between (`Whole`), and that nothing installed is newer than
the saved manifest (`Newest`). Installers left by kills hold no lock. `Lefts` says
what bounds them: until an installation begins beside one (`torn`) there is one at
most, nobody else is changing what it changes, the copy kept is whole, and no part
is newer than what it publishes (`LeftPublishesKeeps`, and `LeftsSpared` for what
others do beside it).
Theorems: `WholeOrKeptHolds`, `ServiceReturnsHolds`, `InstallsSignedHolds`.

**`PhoneProofs`**, of `PhoneLink` (assumes that the sentinel is no key). Any keys, losses,
retirements and restarts. The three properties lean on one another: a key to be
retired or forgotten has been the pairing in use, so the PC knows it for good
(`Paired`); it is never the one in use nor the one being paired (`Apart`,
`ForgettingApart`); an open connection is that of a key still to be dealt with
(`QueueKept`), and what an attempt saved is the pairing, or forgotten
(`AttemptKept`). Theorems: `RetiredUntrustedHolds`, `CurrentTrustedHolds`,
`KeysAccountedHolds`.
Of `ProjectSync` (assumes `ProjectSyncAssumption`): any documents, texts, edits, changes on
the PC, lost requests, failed writes and syncs. The three properties are about
what the phone may conclude from answers it got, so the invariant `SyncInv` follows
an answer through the sync: the PC held whatever it holds now (`PcHeld`), what a
sync's own notes say was held (`SeenTrue`), so was what its plan found identical
(`ItemsTrue`), a confirmation is of a text the PC held at that place
(`ConfirmedTrue`), how far the sync has come (`Progress`), and that what the PC last
said of a document, and what it holds of one about to be removed, is still so unless
that document changed since (`Spoken`, `Backed`). Theorems: `RecordsTrueHolds`,
`RemovedOnlyHeldHolds`, `ReplacedOnlyPlannedHolds`.

**`ExecutionProofs`** (assumes `RunsAssumption`: `Runs` are plans, the bound on a
loop's members is a natural). Any plans, so any nesting of loops, branches,
parallel groups and delegations, with any retry limits and handlers. That an
ACTION makes no attempt too many needs that it is not begun twice, and that is a
fact about the whole queue: `Placed` says that no step is queued twice, in the
queue or in one set aside by a delegation (`StepsOnce`), that a step to enter is of
what has no record and one to leave of what has (`StepsFit`), and where every
invocation came from: the instance of the container around it, the instance a
loop is past, or the row that delegates to it (`AllCame`, `RowsOnce`, `UnitFits`).
Upon it `Tried` says that every earlier attempt of a row has failed, that it is
within its budget, and what excused each further one. `Path`, a recursive function, is
shown to exist by the least node for which it would not. For
`HaltedBeginsNothing` (an action property, proved and not run) `HaltInv` adds that an
unentered row has no event, so that no handler can retry it once the run is halted.

The other four are about the order of the last-in first-out queue, and of the
queues delegations set aside, where `Placed` says only what they hold. So a second
invariant, `Sequenced`, is about everything pending: each step and each row under
way, with the level of its queue and its height in it (`Pending`). Whatever stands
higher is not around what is lower, does not come after it in a sequential group,
and is part of what a row lower down delegates to (`Nested`); nothing is pending
inside what has finished or before what has begun (`RowsClosed`, `Finished`,
`NotBegun`). It holds because every action is one kind of turn (`NextMoves`): it
takes what stands highest, puts in its place only what goes on from it or opens
inside it, and begins, records and finishes only that (`Moves`). That a row is not
taken for another around it needs that an invocation has as many indexes as there
are loops and rows around its node (`KnownDeep`). Upon `Sequenced`:

* `FinishesLast` is `Finished`, read for steps and rows.
* `NothingAfterFailureHere`: when a required failure is settled what comes after it
  is left out (`SettledIs`), and none of it had begun, since what has begun is not
  after what is pending (`FailureStops`).
* `ParallelAllEntered`: while the group runs each child is to be entered, has
  begun, or was left out in another instance (`ChildrenDue`; in a parallel group
  only what was recorded is abandoned, `AbandonedFits`). When it has succeeded
  nothing in it is still to be entered.
* `RowReportsUnit`: what was recorded since a row began to delegate is exactly what
  is inside it (`Since`), an effect a nested row reports is that of an ACTION that
  had it (`Leaf`), so the result is right when the row returns, and as nothing
  inside it is pending then, it stays so (`RowTrue`).

Theorems: `TypeCorrect`, `RetriedSafelyHolds`, `BudgetExactHolds`,
`HaltedBeginsNothingHolds`, `FinishesLastHolds`, `NothingAfterFailureHereHolds`,
`ParallelAllEnteredHolds`, `RowReportsUnitHolds`.

**Only model-checked:** every liveness property (fairness is out of the prover's
reach), `PauseReachesTab` and the like among them. Each safety property and action
property of a run is a theorem. The library's induction theorems take an operator as a parameter, which no
installed prover can instantiate; where induction over numbers is needed, the proofs
argue by the least element of a set of naturals.

Beside the runs' properties the modules define others that hold on the same
instances: `SpentHasRecord` and `Linked` (`Pairing`), `ClosingNoticed`
(`RemoteRuns`), `FinishesLast` and `HaltedBeginsNothing` (`Execution`), and
`AnsweredOnce` and `WaitsAnswerably` (`RunGate`); those of `Execution` and `RunGate`
are theorems.

## What the code does not do

Some things the repository says of itself do not hold of the code. Each is a
definition of its module; added to the configuration named here, TLC finds the
counterexample.

* `Execution!EachInstanceDecides` (`MCExecution.cfg`, `Runs <- LoopRuns`).
  `abandoned` holds plan nodes (`lcl-runtime/src/execute.rs:493`), so a step
  skipped in one instance of a FOR EACH is left out of all later ones without
  asking its WHEN there; `execute.rs:332` calls it "Invocations whose subtree
  must not be entered", and `:812` quotes "Instance identity includes the full
  enclosing iteration-index path."
* `Execution!NothingAfterFailure` (`MCExecution.cfg`, `Runs <- LoopRuns`).
  `iterate` (`execute.rs:785`) queues the next instance of a loop after an
  unrecovered required failure; `execute.rs:1033` says "nothing *after* an
  unrecovered required failure is reachable".
* `Execution!EdgesRespected` (`MCExecution.cfg`, `Runs <- EdgeRuns`). The plan's
  edges are not consulted inside a parallel group (`execute.rs:541`);
  `lcl-semantics/src/plan.rs:88` says "`from` must complete before `to` begins."
* `RunEvents!StreamComplete` (`RunEvents.cfg`). An empty heartbeat batch followed
  by the report and the finish looks like the end (`routes/runs.rs:88`), and the
  tab never gets the report, although `routes/runs.rs:8` says "the result arrives
  on the event stream".
* `RemoteRuns!OnlyOwnAnswers` (`MCRemoteRuns.cfg`). An answer to
  a run number not given out yet passes the check of
  `remote/src/session/runs.rs:155` and can reach another device's run; `:153` says
  "An answer to a run this device did not start is refused before it reaches the
  run".
* `Editing!TypedKept` (`MCEditing.cfg`). A clean copy told of a change asks for the
  new text and takes it when it comes, although the person has typed meanwhile
  (`WorkspaceController.kt:985`, `reload`); `android/README.md:334` says "one with
  unsaved edits is stopped with the choice above".
* `PhoneLink!FailedPairedNothing` (`MCPhoneLink.cfg`). Cancel or Back while the
  earlier key is being retired says "Pairing cancelled. Nothing was paired."
  (`PairingController.kt:92`), though the pairing was saved and is in use; the
  comment at `:88` says "its key is deleted, nothing is saved".
* `Updater!ActionsNeverInterleave` (`MCUpdater.cfg`). An installer whose updater was
  killed goes on publishing (`apply.rs:288`) while another process holds the lock;
  `update/src/state.rs:251` says "Two update actions at once, from two windows or a
  window and a terminal, never interleave."
* `Updater!StopFailsUnchanged` (`MCUpdater.cfg`). `systemctl stop` that takes longer
  than a minute is answered as failed although it takes effect
  (`update/src/stage.rs:75`), and nothing starts the service again; the person is
  told "the LCL remote service could not be stopped, so nothing was changed"
  (`apply.rs:282`).

The properties beside them in the runs say what does hold:
`NothingAfterFailureHere` (within the instance), `EndMeansAll` (for the phone) and
`PauseReachesTab` (for the tab), `OnlyOwnRuns` (for following),
`ParallelAllEntered` with its exception for units that have a record of another
instance, `CancelledOrReplaced` with its exception for a replaced record,
`WholeOrKept` with its exception for an installation begun beside a left installer,
`ServiceReturns` with its exception for a stop reported failed, and `KeysAccounted`
(what a cancelled attempt leaves is accounted for).

## Observed

* A crash after a device id is reserved leaves an approved request that `deny`
  refuses as already paired, with no device to revoke; its device may still
  finish, and once the code has expired the request is no longer listed.
* A run started just before its project is closed has no owner recorded when the
  owners' runs are cancelled; its device is told it was stopped, and it goes on.
* An owner's record can be replaced by a run of the same number in newer routes
  before the older run is cancelled.
* The registry of runs drops finished runs in the text order of their ids
  (`run-10` before `run-2`); one dropped before its report is forwarded ends for
  the phone without the report.
* A tab closed while a run is paused is not noticed until the run speaks.
* Only sessions close routes: with no device connected, the runs of a project
  that was unshared go on until one connects.
* `core.test` of a unit that had effects, whose comparison fails, is recorded as
  failed before any effect; it raises no event, so nothing retries it.
* A FOR EACH whose collection cannot be read stays recorded as running.
* A stop handler in a parallel group makes the set of siblings that ran depend on
  the interleaving; outside tests only the declared order is used.
* A panic on a run thread skips `finish`, and its followers wait for ever.
* A document edited on the phone between the PC's last confirmation and the removal
  of its project goes with the project; `RemovedOnlyHeld` excludes that window.
* A sync confirms what its plan found identical without asking again, so a record
  may name what the PC held when it was planned and holds no more.
* After a lost answer, a text without a last line end, or one written beside the
  PC's, is found different by the next sync, and the person is asked.
* Keeping one's own text in a conflict takes the digest the event told of and the
  text fetched later, which may be of two revisions; the save is then refused and
  the conflict shown again.
* An updater that finds another one busy, or cannot open its lock, starts nothing,
  the workspace that closed for it included; a start of the workspace that fails is
  told nobody.
* An installation begun beside an installer that a killed updater left may copy a
  whole version, fail, put it back and drop the copy, while the other goes on and
  leaves a mixture.
* After a kill during an installation nothing puts the kept copy back at the next
  start. If the updater's own program is already the new one, the next check
  reports the mixture as up to date; the next installation copies the mixture and
  drops the copy kept before.

## Not modelled

The front end (lexer, parser, resolver, checker), evaluation, completion,
diagnostics and localization are pure functions over large inputs, whose tests
and conformance suite enumerate more than a bounded model would. They and the
suites themselves are most of the repository's lines. Framing, TLS, certificates
and QR codes are encoding and cryptography; HTTP parsing, host capabilities and
the command line are I/O. The project cache and lock are read back by digest and
rewritten whole. Phone updates hand a verified package to Android's installer.

Of the modelled parts: the listing, searching and renaming of documents; folders
inside folders in a sync; a part whose directory cannot be exchanged in one
rename (`install.sh` then leaves its name missing for an instant); several PCs on
one phone, addresses and discovery, and a PC that proves another identity; a kill
between deleting a key and removing its record in `forget`. `PROJECT.json` gives
the reason for each component.

## Plan

Every part whose order, failure or consent decides correctness has its model, every
model its theorems, and every safety property a run checks its proof. What could follow:

1. Liveness by hand: the measure each step of `Execution` decreases (steps queued,
   instances and attempts left) is an argument the prover cannot put to use, but a
   bound on it would say how long a run may take.
2. The components in part modelled, as `PROJECT.json` lists them: the standard
   library's operations beside those the executor tells apart, and the workspace
   page beside its stream and its dialogs.
