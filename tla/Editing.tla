------------------------------ MODULE Editing ------------------------------
(***************************************************************************)
(* One document of a PC project open on a paired phone: the phone's copy   *)
(* (OpenDocument.kt), what the phone does with it (WorkspaceController.kt, *)
(* EditorPane.kt), and the session on the PC that serves and watches it    *)
(* (remote/src/session/documents.rs).  Others save and delete the same     *)
(* document on the PC.                                                     *)
(*                                                                         *)
(* The document on the PC is the compare-and-set register that             *)
(* DocumentStore states and Documents implements.  The phone's requests    *)
(* run as coroutines of their own: each remembers what it read when it     *)
(* began and uses it when its reply arrives, which is why a request        *)
(* carries that along here.  One socket, one reader and the phone's main   *)
(* thread keep what the PC sends in order.                                 *)
(***************************************************************************)
EXTENDS Naturals, Sequences, DocumentTexts

CONSTANTS
    Original,    \* what the document says at first
    Unwatched,   \* the session does not watch the document
    NoText,      \* a conflict whose PC text could not be fetched
    MaxEdits,    \* bound: times the person types
    MaxSaves,    \* bound: times the person saves
    MaxReloads,  \* bound: times the person asks to reload
    MaxChanges,  \* bound: changes made on the PC by others
    MaxDrops     \* bound: connections lost

ASSUME EditingAssumption ==
    /\ {Absent, NoText, Unwatched} \cap Texts = {} /\ Unwatched # Absent
    /\ Original \in Bodies
    /\ {MaxEdits, MaxSaves, MaxReloads, MaxChanges, MaxDrops} \subseteq Nat

VARIABLES
    pc,        \* the document on the PC
    watched,   \* the digest the session last knew, or Unwatched
    link,      \* is the phone connected?
    out,       \* requests on their way to the PC
    in,        \* replies and events on their way to the phone
    doc,       \* the phone's copy, or Closed
    edits, saves, reloads, changes, drops,  \* how often each has happened
    met,       \* history: revisions the person was shown or chose to replace
    unmet,     \* history: did a save replace a revision they never met?
    lost       \* history: was typed text thrown away unasked?

editingVars == <<pc, watched, link, out, in, doc, edits, saves, reloads, changes, drops,
          met, unmet, lost>>

PcVars == <<pc, watched>>
PhoneVars == <<doc, edits, saves, reloads, met, lost>>
Counts == <<edits, saves, reloads>>

Closed == [open |-> FALSE]
NoConflict == [text |-> NoText, digest |-> Absent]

OpenDocument ==
    [open : {TRUE}, text : Texts, saved : Texts, base : Texts, revision : Nat,
     conflict : [text : Texts \cup {NoText}, digest : Texts] \cup {NoConflict},
     deletedOnPc : BOOLEAN]

Loaded(t) == [open |-> TRUE, text |-> t, saved |-> t, base |-> t, revision |-> 0,
              conflict |-> NoConflict, deletedOnPc |-> FALSE]

EditingInit ==
    /\ pc = [body |-> Original, lf |-> TRUE]
    /\ watched = Unwatched
    /\ link = TRUE
    /\ out = <<>> /\ in = <<>>
    /\ doc = Closed
    /\ edits = 0 /\ saves = 0 /\ reloads = 0 /\ changes = 0 /\ drops = 0
    /\ met = {} /\ unmet = FALSE /\ lost = FALSE

-----------------------------------------------------------------------------
(* The phone's copy. *)

dirty(d) == d.text # d.saved

edited(d, t) == [d EXCEPT !.text = t, !.revision = @ + 1]

\* The PC acknowledged a save: what was typed meanwhile stays an edit on top.
savedAs(d, submitted, digest, atRevision) ==
    LET persisted == admissible(submitted)
        acknowledged == [d EXCEPT !.saved = persisted, !.base = digest,
                                  !.conflict = NoConflict, !.deletedOnPc = FALSE]
    IN IF d.revision = atRevision /\ d.text = submitted
         THEN [acknowledged EXCEPT !.text = persisted] ELSE acknowledged

remoteChange(d, digest) ==
    IF digest = d.base THEN "same"
    ELSE IF digest = Absent THEN "deleted"
    ELSE IF ~dirty(d) THEN "refresh"
    ELSE "conflict"

reloaded(d, t) ==
    [d EXCEPT !.text = t, !.saved = t, !.base = t, !.revision = @ + 1,
              !.conflict = NoConflict, !.deletedOnPc = FALSE]

inConflict(d, t, digest) == [d EXCEPT !.conflict = [text |-> t, digest |-> digest]]

keepMine(d) ==
    [d EXCEPT !.base = d.conflict.digest,
              !.saved = IF d.conflict.text = NoText THEN @ ELSE d.conflict.text,
              !.conflict = NoConflict]

-----------------------------------------------------------------------------
(* What the person does. *)

Send(m) == link /\ out' = Append(out, m)

\* `about` is what the coroutine that asks remembers: why it opens the
\* document, the digest it was told, the text it submitted and its revision.
OpenRequest(why, digest) ==
    [op |-> "open", why |-> why, text |-> Absent, base |-> digest, revision |-> 0]

SaveRequest(d) ==
    [op |-> "save", why |-> "save", text |-> d.text, base |-> d.base, revision |-> d.revision]

CloseRequest == [op |-> "close", why |-> "close", text |-> Absent, base |-> Absent, revision |-> 0]

Open ==
    /\ doc = Closed
    /\ \A i \in DOMAIN out : out[i].why # "open"
    /\ \A i \in DOMAIN in : in[i].why # "open"
    /\ Send(OpenRequest("open", Absent))
    /\ UNCHANGED <<PcVars, link, in, PhoneVars, changes, drops, unmet>>

\* Typing is possible while connected and not in conflict.
Edit(t) ==
    /\ doc.open /\ link /\ edits < MaxEdits
    /\ doc.conflict = NoConflict /\ t # doc.text
    /\ doc' = edited(doc, t)
    /\ edits' = edits + 1
    /\ UNCHANGED <<PcVars, link, out, in, saves, reloads, met, lost, changes, drops, unmet>>

Save ==
    /\ doc.open /\ saves < MaxSaves /\ dirty(doc)
    /\ Send(SaveRequest(doc))
    /\ saves' = saves + 1
    /\ UNCHANGED <<PcVars, link, in, doc, edits, reloads, met, lost, changes, drops, unmet>>

\* The person asks for the PC's version, having been asked about unsaved edits.
Reload ==
    /\ doc.open /\ reloads < MaxReloads
    /\ Send(OpenRequest("reload", Absent))
    /\ reloads' = reloads + 1
    /\ UNCHANGED <<PcVars, link, in, doc, edits, saves, met, lost, changes, drops, unmet>>

KeepMine ==
    /\ doc.open /\ doc.conflict # NoConflict
    /\ doc' = keepMine(doc)
    /\ met' = met \cup {doc.conflict.digest}
    /\ UNCHANGED <<PcVars, link, out, in, Counts, lost, changes, drops, unmet>>

Close ==
    /\ doc.open
    /\ doc' = Closed
    /\ IF link THEN Send(CloseRequest) ELSE UNCHANGED out
    /\ UNCHANGED <<PcVars, link, in, Counts, met, lost, changes, drops, unmet>>

-----------------------------------------------------------------------------
(* The session on the PC. *)

Reply(m, status, digest) ==
    in' = Append(in, [op |-> m.op, why |-> m.why, text |-> m.text, base |-> m.base,
                      revision |-> m.revision, status |-> status, digest |-> digest])

HandleOpen(m) ==
    /\ m.op = "open"
    /\ IF pc = Absent THEN UNCHANGED watched /\ Reply(m, 404, Absent)
                      ELSE watched' = pc /\ Reply(m, 200, pc)
    /\ UNCHANGED <<pc, unmet>>

\* Mutant: the save replaces whatever the document holds now.
HandleSaveOver(m) ==
    /\ m.op = "save" /\ pc # Absent
    /\ pc' = admissible(m.text) /\ watched' = admissible(m.text)
    /\ Reply(m, 200, admissible(m.text))
    /\ unmet' = (unmet \/ pc \notin met)

HandleSave(m) ==
    /\ m.op = "save"
    /\ \/ /\ pc = m.base
          /\ pc' = admissible(m.text) /\ watched' = admissible(m.text)
          /\ Reply(m, 200, admissible(m.text))
          /\ unmet' = (unmet \/ pc \notin met)
       \/ /\ pc # m.base
          /\ Reply(m, IF pc = Absent THEN 404 ELSE 409, pc)
          /\ UNCHANGED <<pc, watched, unmet>>

HandleClose(m) ==
    /\ m.op = "close"
    /\ watched' = Unwatched
    /\ UNCHANGED <<pc, in, unmet>>

Handle ==
    /\ out # <<>> /\ out' = Tail(out)
    /\ HandleOpen(Head(out)) \/ HandleSave(Head(out)) \/ HandleClose(Head(out))
    /\ UNCHANGED <<link, PhoneVars, changes, drops>>

\* Mutant: a deletion is not told.
check_present ==
    /\ link /\ watched \notin {Unwatched, pc} /\ pc # Absent
    /\ watched' = pc
    /\ in' = Append(in, [why |-> "event", digest |-> pc])
    /\ UNCHANGED <<pc, link, out, PhoneVars, changes, drops, unmet>>

\* Every second: open documents that changed on this PC are told of.
check_documents ==
    /\ link /\ watched \notin {Unwatched, pc}
    /\ watched' = pc
    /\ in' = Append(in, [why |-> "event", digest |-> pc])
    /\ UNCHANGED <<pc, link, out, PhoneVars, changes, drops, unmet>>

\* Someone saves or deletes the document on the PC, or makes it again.
ChangeOnPc(t) ==
    /\ changes < MaxChanges /\ t # pc
    /\ pc' = t
    /\ changes' = changes + 1
    /\ UNCHANGED <<watched, link, out, in, PhoneVars, drops, unmet>>

-----------------------------------------------------------------------------
(* What the phone does with a reply or an event. *)

Shown(t) == met' = met \cup {t}

ApplyOpened(m) ==
    /\ m.why = "open"
    /\ IF m.status = 200 THEN doc' = Loaded(m.digest) /\ Shown(m.digest) ELSE UNCHANGED <<doc, met>>
    /\ UNCHANGED <<lost, out>>

\* A reload replaces the copy whatever it has become meanwhile.
ApplyReload(m) ==
    /\ m.why \in {"reload", "refresh"}
    /\ IF m.status = 200 /\ doc.open
         THEN /\ doc' = reloaded(doc, m.digest) /\ Shown(m.digest)
              /\ lost' = (lost \/ (m.why = "refresh" /\ dirty(doc)))
         ELSE UNCHANGED <<doc, met, lost>>
    /\ UNCHANGED out

\* The conflict's text is the PC's now, its digest the one the event told.
ApplyConflict(m) ==
    /\ m.why = "conflict"
    /\ doc' = IF doc.open
                THEN inConflict(doc, IF m.status = 200 THEN m.digest ELSE NoText, m.base)
                ELSE doc
    /\ UNCHANGED <<met, lost, out>>

ApplyReconcile(m) ==
    /\ m.why = "reconcile"
    /\ doc' = IF ~doc.open THEN doc
              ELSE IF m.status # 200 THEN [doc EXCEPT !.deletedOnPc = (m.status = 404)]
              ELSE CASE remoteChange(doc, m.digest) = "same" -> doc
                     [] remoteChange(doc, m.digest) = "refresh" -> reloaded(doc, m.digest)
                     [] remoteChange(doc, m.digest) = "conflict" -> inConflict(doc, m.digest, m.digest)
    /\ IF doc.open /\ doc' # doc /\ doc'.base = m.digest THEN Shown(m.digest) ELSE UNCHANGED met
    /\ UNCHANGED <<lost, out>>

ApplySave(m) ==
    /\ m.why = "save"
    /\ doc' = IF ~doc.open THEN doc
              ELSE CASE m.status = 200 -> savedAs(doc, m.text, m.digest, m.revision)
                     [] m.status = 409 -> inConflict(doc, m.digest, m.digest)
                     [] m.status = 404 -> [doc EXCEPT !.deletedOnPc = TRUE]
    /\ IF m.status = 200 THEN Shown(m.digest) ELSE UNCHANGED met
    /\ UNCHANGED <<lost, out>>

\* A clean copy is refreshed and a dirty one put in conflict, both by asking
\* the PC for the document and going on when it answers.
ApplyEvent(m) ==
    /\ m.why = "event"
    /\ LET what == IF doc.open THEN remoteChange(doc, m.digest) ELSE "same"
       IN /\ doc' = IF what = "deleted" THEN [doc EXCEPT !.deletedOnPc = TRUE] ELSE doc
          /\ out' = IF what \in {"refresh", "conflict"}
                      THEN Append(out, OpenRequest(what, m.digest)) ELSE out
    /\ UNCHANGED <<met, lost>>

Receive ==
    /\ in # <<>> /\ in' = Tail(in)
    /\ LET m == Head(in) IN
         \/ ApplyOpened(m) \/ ApplyReload(m) \/ ApplyConflict(m)
         \/ ApplyReconcile(m) \/ ApplySave(m) \/ ApplyEvent(m)
    /\ UNCHANGED <<PcVars, link, Counts, changes, drops, unmet>>

-----------------------------------------------------------------------------
(* Losing the connection, and making it again. *)

\* Requests not answered yet fail, which only the coroutine of a conflict does
\* anything about; the PC ends the session and watches nothing.
Drop ==
    /\ link /\ drops < MaxDrops
    /\ link' = FALSE /\ drops' = drops + 1
    /\ LET unanswered == in \o out
           Conflicts(i) == unanswered[i].why = "conflict"
       IN \/ /\ \A i \in DOMAIN unanswered : ~Conflicts(i)
             /\ UNCHANGED doc
          \/ \E i \in DOMAIN unanswered :
                /\ Conflicts(i) /\ \A j \in DOMAIN unanswered : j > i => ~Conflicts(j)
                /\ doc' = IF doc.open THEN inConflict(doc, NoText, unanswered[i].base) ELSE doc
    /\ out' = <<>> /\ in' = <<>>
    /\ watched' = Unwatched
    /\ UNCHANGED <<pc, Counts, met, lost, changes, unmet>>

\* Open documents are compared with the PC's after every connection.
Connect ==
    /\ ~link
    /\ link' = TRUE
    /\ out' = IF doc.open THEN <<OpenRequest("reconcile", Absent)>> ELSE <<>>
    /\ UNCHANGED <<PcVars, in, PhoneVars, changes, drops, unmet>>

EditingNext ==
    \/ Open \/ (\E t \in Texts : Edit(t)) \/ Save \/ Reload \/ KeepMine \/ Close
    \/ Handle \/ check_documents \/ (\E t \in {u \in Texts : u.lf} \cup {Absent} : ChangeOnPc(t))
    \/ Receive \/ Drop \/ Connect

EditingSpec == EditingInit /\ [][EditingNext]_editingVars

\* The session's loop, the phone's reader and its reconnection go on.
Fairness ==
    /\ WF_editingVars(Handle) /\ WF_editingVars(check_documents)
    /\ WF_editingVars(Receive) /\ WF_editingVars(Connect)

FairSpec == EditingSpec /\ Fairness

-----------------------------------------------------------------------------
(* Properties. *)

Whys == {"open", "reload", "refresh", "conflict", "reconcile", "save", "close"}

\* What a coroutine remembers is what it will need.
Remembers(m) ==
    /\ m.why = "conflict" => m.base \in Texts
    /\ m.op = "save" \/ m.why = "save" => m.op = m.why /\ m.text \in Texts /\ m.base \in Texts

Requests ==
    {m \in [op : {"open", "save", "close"}, why : Whys, text : Contents, base : Contents,
            revision : Nat] : Remembers(m)}
Replies ==
    {m \in [op : {"open", "save", "close"}, why : Whys, text : Contents, base : Contents,
            revision : Nat, status : {200, 404, 409}, digest : Contents] :
        Remembers(m) /\ (m.digest = Absent => m.status = 404)}
Events == [why : {"event"}, digest : Contents]

EditingTypeOK ==
    /\ pc \in Contents
    /\ watched \in Contents \cup {Unwatched}
    /\ doc \in OpenDocument \cup {Closed}
    /\ {link, unmet, lost} \subseteq BOOLEAN
    /\ met \subseteq Texts
    /\ out \in Seq(Requests) /\ in \in Seq(Replies \cup Events)

\* A save from the phone replaces only a revision that the phone showed, or
\* whose replacement the person chose when told of it, however requests,
\* replies, events, lost connections and changes on the PC interleave
\* (OpenDocument.kt: "Nothing here ever decides to overwrite newer content").
OverwritesOnlyMet == ~unmet

\* A revision made on the PC that the phone has never shown does not stay
\* unnoticed while the document is open: the copy is brought up to it, or
\* shown in conflict or deleted (session/documents.rs `check_documents`,
\* WorkspaceController.kt `onEvent` and `reconcileDocuments`).  A return to a
\* revision shown before may go unnoticed: a refused save hands the phone the
\* newer revision, but the session still knows the older one.  Keeping one's own
\* text may take the base from an older event than the text it is kept over.
Noticed ==
    \/ ~doc.open
    \/ pc \in {doc.base, doc.saved} \cup met
    \/ doc.conflict # NoConflict
    \/ doc.deletedOnPc

ChangeNoticed == []<>Noticed

\* Text the person typed is replaced only by what they asked for: a document
\* with unsaved edits that changes on the PC is stopped with the choice
\* (android/README.md: "one with unsaved edits is stopped with the choice").
TypedKept == ~lost
=============================================================================
