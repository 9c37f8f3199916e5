---------------------------- MODULE ProjectSync ----------------------------
(***************************************************************************)
(* Syncing a project kept on the phone into a folder of a PC project, and  *)
(* removing it from the phone afterwards (ProjectSync.kt, LocalProjects.kt *)
(* and the removal in WorkspaceController.kt), while the person goes on    *)
(* editing on the phone and others change the PC's files.                  *)
(*                                                                         *)
(* The project has one folder, which holds its documents; a document goes  *)
(* to its usual place on the PC or, renamed, beside it.  One sync or       *)
(* removal runs at a time.  Each of its requests is answered, or lost      *)
(* before or after the PC acted on it.                                     *)
(***************************************************************************)
EXTENDS Naturals, DocumentTexts

CONSTANTS
    Docs,        \* document names of the project
    None,        \* nothing recorded or planned
    MaxEdits,    \* bound: changes the person makes on the phone
    MaxChanges,  \* bound: changes others make on the PC
    MaxFaults,   \* bound: requests lost and file operations failed
    MaxSyncs     \* bound: syncs and removals begun

Sides == {"usual", "beside"}

ASSUME ProjectSyncAssumption ==
    /\ Absent \notin Texts
    /\ {MaxEdits, MaxChanges, MaxFaults, MaxSyncs} \subseteq Nat

VARIABLES
    local,     \* the documents on the phone's disk
    records,   \* the sync records kept beside them
    folderRecord,
    unsaved,   \* documents open with unsaved edits
    pc,        \* the documents on the PC, by place
    pcFolder,  \* what the PC has where the project's folder goes
    sync,      \* the sync or removal under way
    edits, changes, faults, syncs,
    held,      \* history: every text a place on the PC has held
    moved,     \* history: documents changed since the PC last spoke for them
    overwrote, \* history: has a sync replaced a revision it had not met?
    unbacked   \* history: documents removed that the PC did not hold

syncVars == <<local, records, folderRecord, unsaved, pc, pcFolder, sync,
          edits, changes, faults, syncs, held, moved, overwrote, unbacked>>

PhoneVars == <<local, records, folderRecord, unsaved>>
PcVars == <<pc, pcFolder, held>>
Bounds == <<edits, changes, syncs>>

Nothing == [d \in {} |-> None]

Idle == [phase |-> "idle", whole |-> TRUE, removeAfter |-> FALSE, todo |-> {},
         items |-> Nothing, seen |-> Nothing, lost |-> FALSE, unreachable |-> FALSE,
         confirmed |-> Nothing, folder |-> FALSE]

Put(f, d, v) == [x \in DOMAIN f \cup {d} |-> IF x = d THEN v ELSE f[x]]

SyncInit ==
    /\ local \in [Docs -> {t \in Texts : t.body = CHOOSE b \in Bodies : TRUE}]
    /\ records = [d \in Docs |-> None] /\ folderRecord = FALSE
    /\ unsaved = {}
    /\ pc = [d \in Docs |-> [s \in Sides |-> Absent]]
    /\ pcFolder = "none"
    /\ sync = Idle
    /\ edits = 0 /\ changes = 0 /\ faults = 0 /\ syncs = 0
    /\ held = {} /\ moved = {} /\ overwrote = FALSE /\ unbacked = {}

-----------------------------------------------------------------------------
(* The person on the phone, and the others on the PC. *)

documents == {d \in Docs : local[d] # Absent}

Type(d) ==
    /\ edits < MaxEdits /\ local[d] # Absent /\ d \notin unsaved
    /\ unsaved' = unsaved \cup {d}
    /\ edits' = edits + 1
    /\ UNCHANGED <<local, records, folderRecord, PcVars, sync, changes, faults, syncs,
                   moved, overwrote, unbacked>>

\* Saving an edited document on the phone.
Save(d, t) ==
    /\ d \in unsaved /\ t # local[d]
    /\ local' = [local EXCEPT ![d] = t]
    /\ unsaved' = unsaved \ {d}
    /\ moved' = moved \cup {d}
    /\ UNCHANGED <<records, folderRecord, PcVars, sync, Bounds, faults, overwrote, unbacked>>

createFile(d, t) ==
    /\ edits < MaxEdits /\ local[d] = Absent /\ documents # {}
    /\ local' = [local EXCEPT ![d] = t]
    /\ edits' = edits + 1
    /\ moved' = moved \cup {d}
    /\ UNCHANGED <<records, folderRecord, unsaved, PcVars, sync, changes, faults, syncs,
                   overwrote, unbacked>>

\* Deleting a document takes its record along.
deleteLocal(d) ==
    /\ edits < MaxEdits /\ local[d] # Absent /\ d \notin unsaved /\ documents # {d}
    /\ local' = [local EXCEPT ![d] = Absent]
    /\ records' = [records EXCEPT ![d] = None]
    /\ edits' = edits + 1
    /\ moved' = moved \cup {d}
    /\ UNCHANGED <<folderRecord, unsaved, PcVars, sync, changes, faults, syncs,
                   overwrote, unbacked>>

\* A document at a place on the PC becomes t, its folder made for it.
PcHolds(d, s, t) ==
    /\ pc' = [pc EXCEPT ![d][s] = t]
    /\ pcFolder' = "folder"
    /\ held' = held \cup {<<d, s, t>>}

ChangeOnPc(d, s, t) ==
    /\ changes < MaxChanges /\ t # pc[d][s] /\ pcFolder # "file"
    /\ PcHolds(d, s, t)
    /\ changes' = changes + 1
    /\ moved' = moved \cup {d}
    /\ UNCHANGED <<PhoneVars, sync, edits, faults, syncs, overwrote, unbacked>>

\* The folder goes with all it holds, or something else takes its name.
ReplaceFolderOnPc ==
    /\ changes < MaxChanges /\ pcFolder # "file"
    /\ pc' = [d \in Docs |-> [s \in Sides |-> Absent]]
    /\ pcFolder' = "file"
    /\ changes' = changes + 1
    /\ moved' = Docs
    /\ UNCHANGED <<held, PhoneVars, sync, edits, faults, syncs, overwrote, unbacked>>

-----------------------------------------------------------------------------
(* Planning. *)

Fault == faults < MaxFaults /\ faults' = faults + 1

Step(phase) == sync.phase = phase

\* What a step of the sync leaves alone, the phone's disk and the PC included.
AskedOnly == UNCHANGED <<PhoneVars, PcVars, Bounds, overwrote, unbacked>>

Plan(whole, ids) ==
    /\ Step("idle") /\ syncs < MaxSyncs
    /\ documents # {} /\ unsaved = {}
    /\ ids # {} /\ ids \subseteq documents /\ (whole => ids = documents)
    /\ sync' = [Idle EXCEPT !.phase = "planning", !.whole = whole, !.todo = ids, !.seen = records]
    /\ syncs' = syncs + 1
    /\ moved' = Docs
    /\ UNCHANGED <<PhoneVars, PcVars, edits, changes, faults, overwrote, unbacked>>

\* Where the last sync put it while the PC still holds what it confirmed then,
\* else the usual place.
planDocument(d, record) ==
    LET last == record # None /\ pc[d][record.side] = record.pc
        side == IF last THEN record.side ELSE "usual"
        there == pc[d][side]
        state == IF last THEN IF local[d] = record.local THEN "identical" ELSE "superseded"
                 ELSE IF there = Absent THEN "absent"
                 ELSE IF there = local[d] THEN "identical"
                 ELSE "different"
    IN [text |-> local[d], side |-> side, state |-> state, pc |-> there]

PlanDocument(d) ==
    /\ Step("planning") /\ d \in sync.todo /\ local[d] # Absent /\ pcFolder # "file"
    /\ sync' = [sync EXCEPT !.items = Put(@, d, planDocument(d, sync.seen[d])),
                            !.todo = @ \ {d},
                            !.phase = IF sync.todo = {d} THEN "planned" ELSE @]
    /\ moved' = moved \ {d}
    /\ UNCHANGED faults
    /\ AskedOnly

\* No answer, or a document that cannot be read, here or there.
PlanRefused ==
    /\ Step("planning")
    /\ \/ Fault
       \/ UNCHANGED faults /\ ((\E d \in sync.todo : local[d] = Absent) \/ pcFolder = "file")
    /\ sync' = Idle
    /\ UNCHANGED moved
    /\ AskedOnly

-----------------------------------------------------------------------------
(* Running. *)

Run(removeAfter) ==
    /\ Step("planned")
    /\ sync' = IF unsaved # {} THEN Idle
               ELSE [sync EXCEPT !.phase = "folders", !.removeAfter = removeAfter,
                                 !.todo = DOMAIN sync.items]
    /\ UNCHANGED <<faults, moved>>
    /\ AskedOnly

Replies == {"answered", "lost before", "lost after"}

\* How a request fares: its effect on the PC, if it got there.
Request(reply, Effect) ==
    /\ IF reply = "answered" THEN UNCHANGED faults ELSE Fault
    /\ IF reply = "lost before" THEN UNCHANGED PcVars ELSE Effect

mkdir ==
    /\ pcFolder' = IF pcFolder = "none" THEN "folder" ELSE pcFolder
    /\ UNCHANGED <<pc, held>>

\* A name taken on the PC is fine once listing it proves it is a folder.
makeFolders(reply) ==
    /\ Step("folders")
    /\ Request(reply, mkdir)
    /\ LET there == reply = "answered" /\ pcFolder # "file"
       IN sync' = [sync EXCEPT !.phase = "sending",
                               !.lost = reply # "answered",
                               !.unreachable = reply = "answered" /\ ~there,
                               !.folder = sync.whole /\ there]
    /\ UNCHANGED <<PhoneVars, Bounds, moved, overwrote, unbacked>>

\* The name is taken, and the answer to listing it is lost.
makeFoldersUnlisted ==
    /\ Step("folders") /\ pcFolder = "folder" /\ Fault
    /\ sync' = [sync EXCEPT !.phase = "sending", !.unreachable = TRUE]
    /\ UNCHANGED <<PcVars, PhoneVars, Bounds, moved, overwrote, unbacked>>

Choices == {"replace", "keep_pc", "rename"}

\* The request that puts a document on the PC, and where.
writeFor(item, choice) ==
    CASE item.state = "absent" -> [op |-> "create", side |-> item.side]
      [] item.state = "superseded" -> [op |-> "save", side |-> item.side]
      [] item.state = "different" /\ choice = "replace" -> [op |-> "save", side |-> item.side]
      [] item.state = "different" /\ choice = "rename" -> [op |-> "create", side |-> "beside"]
      [] OTHER -> [op |-> "none", side |-> item.side]

\* Mutant: a save replaces whatever is there.
AllowedUnmet(write, item, now) ==
    pcFolder # "file" /\ CASE write.op = "create" -> now = Absent [] OTHER -> now # Absent

\* The PC creates only where nothing is and saves only over the revision named.
Allowed(write, item, now) ==
    pcFolder # "file" /\ CASE write.op = "create" -> now = Absent [] OTHER -> now = item.pc

Done(d, ok, confirmed) ==
    [sync EXCEPT !.todo = @ \ {d},
                 !.confirmed = IF ok THEN Put(@, d, confirmed) ELSE @]

\* Mutant: an answer that never came counts as the PC's confirmation.
acceptedUnanswered(reply) == TRUE

\* What is confirmed: an answer, and the PC's digest of the bytes sent.
accepted(reply) == reply = "answered"

\* Not attempted after a lost answer or under a folder that could not be made;
\* confirmed without writing where the plan found the same.
sendNothing(d) ==
    /\ Step("sending") /\ d \in sync.todo
    /\ LET item == sync.items[d] IN
         /\ sync.lost \/ sync.unreachable \/ item.state \in {"identical", "different"}
         /\ sync' = Done(d, ~sync.lost /\ ~sync.unreachable /\ item.state = "identical",
                         [local |-> item.text, side |-> item.side, pc |-> item.pc])
    /\ UNCHANGED <<faults, moved>>
    /\ AskedOnly

sendDocument(d, choice, reply) ==
    /\ Step("sending") /\ d \in sync.todo /\ ~sync.lost /\ ~sync.unreachable
    /\ LET item == sync.items[d]
           write == writeFor(item, choice)
           now == pc[d][write.side]
           allowed == Allowed(write, item, now)
           ok == accepted(reply) /\ (reply = "answered" => allowed)
       IN /\ item.state # "identical" /\ write.op # "none"
          /\ Request(reply, IF allowed THEN PcHolds(d, write.side, admissible(item.text))
                                       ELSE UNCHANGED PcVars)
          /\ sync' = [Done(d, ok, [local |-> item.text, side |-> write.side,
                                   pc |-> admissible(item.text)])
                        EXCEPT !.lost = ~accepted(reply)]
          /\ overwrote' = (overwrote \/ (pc'[d] # pc[d] /\ now \notin {Absent, item.pc}))
          /\ moved' = IF ok /\ local[d] = item.text THEN moved \ {d} ELSE moved
    /\ UNCHANGED <<PhoneVars, Bounds, unbacked>>

\* One write for all confirmations; it may fail.
recordSyncedAll(written) ==
    /\ Step("sending") /\ sync.todo = {}
    /\ IF written THEN UNCHANGED faults ELSE Fault
    /\ IF written /\ documents # {}
         THEN /\ records' = [d \in Docs |-> IF d \in DOMAIN sync.confirmed
                                           THEN sync.confirmed[d] ELSE records[d]]
              /\ folderRecord' = (folderRecord \/ sync.folder)
              /\ sync' = [sync EXCEPT !.phase = "reading"]
         ELSE sync' = Idle /\ UNCHANGED <<records, folderRecord>>
    /\ UNCHANGED <<local, unsaved, PcVars, Bounds, moved, overwrote, unbacked>>

changedDuringSync ==
    \/ sync.whole /\ documents # DOMAIN sync.items
    \/ \E d \in DOMAIN sync.confirmed : local[d] # sync.items[d].text

complete ==
    /\ ~changedDuringSync
    /\ DOMAIN sync.confirmed = DOMAIN sync.items
    /\ sync.whole => sync.folder

fullySynced ==
    folderRecord /\ \A d \in documents : records[d] # None /\ records[d].local = local[d]

ReadAgain ==
    /\ Step("reading")
    /\ sync' = IF complete /\ sync.whole /\ sync.removeAfter
                 THEN [Idle EXCEPT !.phase = "synced"] ELSE Idle
    /\ UNCHANGED <<faults, moved>>
    /\ AskedOnly

removeAfterSync ==
    /\ Step("synced")
    /\ sync' = IF fullySynced /\ unsaved = {} THEN [Idle EXCEPT !.phase = "removing"] ELSE Idle
    /\ UNCHANGED <<faults, moved>>
    /\ AskedOnly

-----------------------------------------------------------------------------
(* Removing. *)

\* Everything is asked for again, the folder first.
removeLocalProject ==
    /\ Step("idle") /\ syncs < MaxSyncs /\ documents # {} /\ unsaved = {}
    /\ folderRecord /\ pcFolder = "folder"
    /\ sync' = [Idle EXCEPT !.phase = "verifying", !.todo = documents]
    /\ syncs' = syncs + 1
    /\ moved' = Docs
    /\ UNCHANGED <<PhoneVars, PcVars, edits, changes, faults, overwrote, unbacked>>

\* Mutant: the record is compared with the PC only, not with the phone.
HoldsRecorded(d) == records[d] # None /\ pc[d][records[d].side] = records[d].pc

Holds(d) ==
    records[d] # None /\ records[d].local = local[d] /\ pc[d][records[d].side] = records[d].pc

requireRemovable(d) ==
    /\ Step("verifying") /\ d \in sync.todo /\ Holds(d)
    /\ sync' = [sync EXCEPT !.todo = @ \ {d}]
    /\ moved' = moved \ {d}
    /\ UNCHANGED faults
    /\ AskedOnly

Stays ==
    /\ Step("verifying")
    /\ \/ UNCHANGED faults /\ \E d \in sync.todo : ~Holds(d)
       \/ sync.todo # {} /\ Fault
    /\ sync' = Idle
    /\ UNCHANGED moved
    /\ AskedOnly

removeLocalProjectConfirmed ==
    /\ Step("verifying") /\ sync.todo = {}
    /\ sync' = IF unsaved = {} THEN [Idle EXCEPT !.phase = "removing"] ELSE Idle
    /\ UNCHANGED <<faults, moved>>
    /\ AskedOnly

\* Does the PC hold what the phone has of a document?
OnPc(d) == \E s \in Sides : pc[d][s] \in {local[d], admissible(local[d])}

\* A deletion may fail half way, leaving some documents, records or none.
deleteProject(left) ==
    /\ Step("removing") /\ left \subseteq documents
    /\ IF left = {} THEN UNCHANGED faults ELSE Fault
    /\ local' = [d \in Docs |-> IF d \in left THEN local[d] ELSE Absent]
    /\ \/ records' = [d \in Docs |-> None] /\ folderRecord' = FALSE
       \/ left # {} /\ UNCHANGED <<records, folderRecord>>
    /\ unsaved' = IF left = {} THEN {} ELSE unsaved
    /\ sync' = Idle
    /\ unbacked' = unbacked \cup {d \in (documents \ left) \ moved : ~OnPc(d)}
    /\ UNCHANGED <<PcVars, Bounds, moved, overwrote>>

\* The dialog is left, or the application ends: what was not recorded is
\* forgotten, and so is unsaved text.
Abandon ==
    /\ sync # Idle
    /\ sync' = Idle
    /\ unsaved' \in {unsaved, {}}
    /\ UNCHANGED <<local, records, folderRecord, PcVars, Bounds, faults, moved, overwrote, unbacked>>

SyncNext ==
    \/ \E d \in Docs :
         \/ Type(d) \/ (\E t \in Texts : Save(d, t) \/ createFile(d, t)) \/ deleteLocal(d)
         \/ \E s \in Sides, t \in {u \in Texts : u.lf} \cup {Absent} : ChangeOnPc(d, s, t)
         \/ PlanDocument(d) \/ sendNothing(d) \/ requireRemovable(d)
         \/ \E choice \in Choices, reply \in Replies : sendDocument(d, choice, reply)
    \/ ReplaceFolderOnPc
    \/ \E whole \in BOOLEAN, ids \in SUBSET Docs : Plan(whole, ids)
    \/ PlanRefused
    \/ \E removeAfter \in BOOLEAN : Run(removeAfter)
    \/ (\E reply \in Replies : makeFolders(reply)) \/ makeFoldersUnlisted
    \/ \E written \in BOOLEAN : recordSyncedAll(written)
    \/ ReadAgain \/ removeAfterSync
    \/ removeLocalProject \/ Stays \/ removeLocalProjectConfirmed
    \/ \E left \in SUBSET Docs : deleteProject(left)
    \/ Abandon

SyncSpec == SyncInit /\ [][SyncNext]_syncVars

-----------------------------------------------------------------------------
(* Properties. *)

Phases == {"idle", "planning", "planned", "folders", "sending", "reading", "synced",
           "verifying", "removing"}
States == {"identical", "superseded", "absent", "different"}

Records == [local : Texts, side : Sides, pc : Texts]
Items == [text : Texts, side : Sides, state : States, pc : Contents]
ForSome(f, S) == \E D \in SUBSET Docs : f \in [D -> S]

SyncOK(y) ==
    /\ DOMAIN y = DOMAIN Idle /\ y.phase \in Phases /\ y.todo \subseteq Docs
    /\ {y.whole, y.removeAfter, y.lost, y.unreachable, y.folder} \subseteq BOOLEAN
    /\ ForSome(y.items, Items) /\ ForSome(y.seen, Records \cup {None})
    /\ ForSome(y.confirmed, Records)

SyncTypeOK ==
    /\ SyncOK(sync)
    /\ local \in [Docs -> Contents]
    /\ records \in [Docs -> Records \cup {None}]
    /\ {folderRecord, overwrote} \subseteq BOOLEAN
    /\ {unsaved, moved, unbacked} \subseteq SUBSET Docs
    /\ pc \in [Docs -> [Sides -> Contents]]
    /\ pcFolder \in {"none", "folder", "file"}
    /\ held \subseteq Docs \X Sides \X Contents

\* A record never claims more than happened: the PC held, at the recorded
\* place, exactly the recorded bytes, and those are the phone's own with at
\* most a last line end added (ProjectSync.kt: "An entry counts as synced only
\* once the PC's answer confirms it").
RecordsTrue ==
    \A d \in Docs : records[d] # None =>
        /\ <<d, records[d].side, records[d].pc>> \in held
        /\ records[d].pc \in {records[d].local, admissible(records[d].local)}

\* No document leaves the phone that the PC does not hold, unless it changed,
\* here or there, after the PC last spoke for it: after its plan found it
\* identical, its write was confirmed, or it was asked for again
\* (ProjectSync.kt `requireRemovable`, WorkspaceController.kt `removeAfterSync`).
RemovedOnlyHeld == unbacked = {}

\* A sync replaces on the PC only the revision its plan met there: what changed
\* since is left alone, whatever was chosen, lost or tried again
\* (ProjectSync.kt `writeFor`).
ReplacedOnlyPlanned == ~overwrote
=============================================================================
